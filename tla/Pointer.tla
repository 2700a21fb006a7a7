------------------------------- MODULE Pointer -------------------------------
(***************************************************************************)
(* The pointer of a viewer (core/rfb.js): mouse events and touch gestures  *)
(* become pointer messages with the buttons held, or drag the part of the  *)
(* desktop that is shown (core/display.js, and the drag button of          *)
(* app/ui.js).  A desktop is as wide as it is high, so one dimension is    *)
(* modelled; the capture of the mouse is core/util/events.js.              *)
(***************************************************************************)
EXTENDS Gestures, InputSession, Integers

CONSTANTS
  Places,     \* where the pointer may be
  Spots,      \* those of them that fingers touch
  MaxWidth,   \* of a desktop
  Screen,     \* width of the page's area for the desktop
  Buttons     \* of the mouse

ASSUME PointerAssumption ==
  /\ Spots \subseteq Places /\ Spots # {}
  /\ MaxWidth \in Nat \ {0} /\ Screen \in 1 .. MaxWidth
  /\ Buttons \subseteq {"left", "middle", "right"}

VARIABLES
  mouse,         \* the session's record of the pointer, and what the server was told
  dragViewport,  \* moves are to drag the view
  width,         \* _fbWidth
  clip,          \* _clipViewport
  held,          \* mouse buttons under the user's finger
  captured,      \* document.captureElement is the canvas
  inside,        \* the mouse is over the canvas
  strays         \* buttons whose release may be lost

pointerVars == <<gestureVars, mouse, dragViewport, width, clip, held, captured, inside, strays>>

AllButtons == {"left", "middle", "right", "wheel"}

MouseOK(m) ==
  /\ m.mask \subseteq AllButtons            \* _mouseButtonMask
  /\ m.dragging \in BOOLEAN                 \* _viewportDragging
  /\ m.moved \in BOOLEAN                    \* _viewportHasMoved
  /\ m.timer \in BOOLEAN                    \* _mouseMoveTimer is running
  /\ m.at \in Places                        \* _mousePos
  /\ m.seen \in Places                      \* where the last event was
  \* The last pointer message, or <<>> if there was none or one was not sent since.
  /\ m.told \in [mask : SUBSET AllButtons, at : Places] \union {<<>>}
  /\ m.view \in [x : Nat, w : Nat]          \* _viewportLoc

-----------------------------------------------------------------------------
(* The view: viewportChangePos, viewportChangeSize and their callers *)

AtLeast(a, b) == IF a < b THEN b ELSE a
AtMost(a, b) == IF a > b THEN b ELSE a

\* fault: only the right edge stops the view
ShiftedPastTheEdge(view, delta, n, clipping) ==
  [view EXCEPT !.x = @ + AtMost(IF clipping THEN delta ELSE - view.w, n - view.x - view.w)]

\* viewportChangePos in a desktop of width n.
Shifted(view, delta, n, clipping) ==
  LET wanted == IF clipping THEN delta ELSE - view.w
      left == IF wanted < 0 THEN AtLeast(wanted, - view.x) ELSE wanted
  IN  [view EXCEPT !.x = @ + AtMost(left, n - view.x - view.w)]

\* viewportChangeSize
Sized(view, w, n, clipping) ==
  LET size == IF clipping THEN AtMost(w, n) ELSE n
  IN  IF size = view.w THEN view
      ELSE Shifted([view EXCEPT !.w = size], 0, n, clipping)

\* fault: the position is not looked at
SizedOnly(view, n, clipping) == Sized(view, view.w, n, clipping)

\* What display.resize and a change of clipViewport do.
Readjusted(view, n, clipping) ==
  Shifted(Sized(view, view.w, n, clipping), 0, n, clipping)

\* _updateClip
Clipped(view, n, clipping) ==
  IF clipping THEN Sized(view, Screen, n, clipping) ELSE view

ClippingViewport(n, clipping) == clipping /\ Screen < n

\* The clippingviewport event, or the page itself, runs updateViewDrag.
UpdateViewDrag(n, clipping) ==
  dragViewport' = (dragViewport /\ ClippingViewport(n, clipping))

-----------------------------------------------------------------------------
(* Pointer messages *)

\* _sendMouse
Sent(m, place, mask) ==
  [m EXCEPT !.told = IF CanSend THEN [mask |-> mask, at |-> place] ELSE <<>>]

BeginsDrag(m, down) == dragViewport /\ down /\ ~ m.dragging

\* A press and a release where the view did not move are a click after all.
ClickInDragMode(m, place, button) ==
  IF dragViewport THEN Sent([m EXCEPT !.dragging = FALSE], place, {button}) ELSE m

MoveFlushed(m, place) ==
  IF m.timer THEN Sent([m EXCEPT !.timer = FALSE], place, m.mask) ELSE m

Pushing(m, place, down, button) ==
  LET n == MoveFlushed(ClickInDragMode(m, place, button), place)
      mask == IF down THEN n.mask \union {button} ELSE n.mask \ {button}
  IN  Sent([n EXCEPT !.mask = mask, !.seen = place], place, mask)

\* _handleMouseButton
ButtonChanged(m, place, down, button) ==
  CASE BeginsDrag(m, down) -> [m EXCEPT !.dragging = TRUE, !.moved = FALSE]
    [] dragViewport /\ ~ BeginsDrag(m, down) /\ m.moved -> [m EXCEPT !.dragging = FALSE]
    [] OTHER -> Pushing(m, place, down, button)

\* What a move may be: in a drag short, or past the threshold by a distance;
\* else in time to be sent, or too soon after the last.
Steps(m) ==
  IF m.dragging THEN {<<"short">>} \union ({"far"} \X (-1 .. 1)) ELSE {<<"now">>, <<"soon">>}

\* _handleMouseMove
Moved(m, place, step) ==
  LET drags == m.moved \/ step[1] = "far"
      here == [m EXCEPT !.at = place, !.seen = place]
  IN  CASE m.dragging /\ drags ->
             [m EXCEPT !.moved = TRUE,
                       !.view = IF step[1] = "far" THEN Shifted(@, step[2], width, clip) ELSE @]
        [] m.dragging /\ ~ drags -> m
        [] ~ m.dragging /\ m.timer -> here
        [] ~ m.dragging /\ ~ m.timer /\ step[1] = "soon" -> [here EXCEPT !.timer = TRUE]
        [] OTHER -> Sent(here, place, m.mask)

Click(m, place, button) ==
  ButtonChanged(ButtonChanged(m, place, TRUE, button), place, FALSE, button)

\* _handleDelayedMouseMove
DelayedMove ==
  /\ connected /\ mouse.timer
  /\ mouse' = Sent([mouse EXCEPT !.timer = FALSE], mouse.at, mouse.mask)
  /\ UNCHANGED <<gestureVars, dragViewport, width, clip, held, captured, inside, strays>>

-----------------------------------------------------------------------------
(* _handleGesture *)

ButtonOf(gesture) ==
  CASE gesture \in {"onetap", "drag"} -> "left"
    [] gesture \in {"twotap", "longpress"} -> "right"
    [] OTHER -> "middle"

\* The steps of the wheel that two fingers stand for are one, or none.  A
\* pinch also presses and releases Ctrl.
AfterGesture(m, event, place, step, turns) ==
  LET n == Moved(m, place, step)
      gesture == event[2]
  IN  CASE event[1] = "gesturestart" /\ gesture \in Taps -> Click(n, place, ButtonOf(gesture))
        [] event[1] # "gesturestart" /\ gesture \in Taps -> m
        [] gesture \in TwoFingered /\ event[1] = "gestureend" -> m
        [] gesture \in TwoFingered /\ event[1] = "gesturemove" /\ turns -> Click(n, place, "wheel")
        [] gesture \in {"drag", "longpress"} /\ event[1] = "gesturestart" ->
             ButtonChanged(n, place, TRUE, ButtonOf(gesture))
        [] gesture \in {"drag", "longpress"} /\ event[1] = "gestureend" ->
             ButtonChanged(n, place, FALSE, ButtonOf(gesture))
        [] OTHER -> n

\* A button that is up is not astray.
StillStray == strays' = strays \intersect mouse'.mask

Turns(event) == IF event[2] \in TwoFingered THEN BOOLEAN ELSE {FALSE}

HandleGestures(events) ==
  /\ Pushed(events)
  /\ \/ events = <<>> /\ UNCHANGED mouse
     \/ /\ events # <<>>
        /\ \E place \in Spots, step \in Steps(mouse), turns \in Turns(events[1]) :
             mouse' = FoldLeft(LAMBDA m, event : AfterGesture(m, event, place, step, turns),
                               mouse, events)
  /\ StillStray
  /\ UNCHANGED <<dragViewport, width, clip, held, captured, inside>>

TouchStep ==
  /\ connected
  /\ \/ Silently /\ UNCHANGED <<open, mouse, dragViewport, width, clip, held, captured,
                                inside, strays>>
     \/ LongpressTimeout /\ HandleGestures(<<Start(candidates')>>)
     \/ TwoTouchTimeout /\ HandleGestures(<<Start(candidates'), Move(candidates')>>)
     \/ \E id \in Fingers :
          \/ FarMove(id) /\ HandleGestures(MoveEvents)
          \/ GestureMoves(id) /\ HandleGestures(<<Move(candidates)>>)
          \/ TapEnds(id) /\ HandleGestures(TapEvents)
          \/ GestureEnds(id) /\ HandleGestures(EndEvents)
          \/ /\ GestureDropped(id)
             /\ UNCHANGED <<mouse, dragViewport, width, clip, held, captured, inside, strays>>

-----------------------------------------------------------------------------
(* Mouse events *)

Heard == inside \/ captured

MouseStep(m) ==
  /\ mouse' = m
  /\ UNCHANGED <<gestureVars, dragViewport, width, clip>>

\* fault: the mouse is not captured
MouseDownUncaptured(button) ==
  /\ connected
  /\ button \in Buttons \ held
  /\ held' = held \union {button}
  /\ IF inside THEN \E place \in Places : MouseStep(ButtonChanged(mouse, place, TRUE, button))
     ELSE MouseStep(mouse)
  /\ strays' = (strays \intersect mouse'.mask) \union (IF held # {} THEN mouse'.mask ELSE {})
  /\ UNCHANGED <<captured, inside>>

\* A second button goes to the element that covers the page during a capture.
MouseDown(button) ==
  /\ connected
  /\ button \in Buttons \ held
  /\ held' = held \union {button}
  /\ IF inside /\ ~ captured
     THEN /\ \E place \in Places : MouseStep(ButtonChanged(mouse, place, TRUE, button))
          /\ captured' = TRUE
     ELSE MouseStep(mouse) /\ UNCHANGED captured
  /\ strays' = (strays \intersect mouse'.mask) \union (IF held # {} THEN mouse'.mask ELSE {})
  /\ UNCHANGED inside

\* Any release ends the capture.
MouseUp(button) ==
  /\ connected
  /\ button \in held
  /\ held' = held \ {button}
  /\ captured' = FALSE
  /\ IF Heard THEN \E place \in Places : MouseStep(ButtonChanged(mouse, place, FALSE, button))
              ELSE MouseStep(mouse)
  /\ StillStray
  /\ UNCHANGED inside

MouseMove ==
  /\ connected
  /\ inside' \in BOOLEAN
  /\ IF inside' \/ captured
     THEN \E place \in Places, step \in Steps(mouse) : MouseStep(Moved(mouse, place, step))
     ELSE MouseStep(mouse)
  /\ UNCHANGED <<held, captured, strays>>

\* _handleWheel, once enough has been turned.
Wheel ==
  /\ CanSend
  /\ inside /\ ~ captured
  /\ \E place \in Places : MouseStep(Click(mouse, place, "wheel"))
  /\ StillStray
  /\ UNCHANGED <<held, captured, inside>>

-----------------------------------------------------------------------------
(* The page and the server change what is shown *)

ViewStep(n, clipping) ==
  /\ width' = n
  /\ clip' = clipping
  /\ UpdateViewDrag(n, clipping)
  /\ strays' = IF dragViewport' # dragViewport THEN mouse.mask ELSE strays
  /\ UNCHANGED <<gestureVars, held, captured, inside>>

\* _resize
DesktopResize ==
  /\ connected
  /\ \E n \in 1 .. MaxWidth :
       /\ ViewStep(n, clip)
       /\ mouse' = [mouse EXCEPT !.view = Clipped(Readjusted(@, n, clip), n, clip)]

\* updateViewClip
SetClip ==
  /\ connected
  /\ ViewStep(width, ~ clip)
  /\ mouse' = [mouse EXCEPT !.view = Clipped(Readjusted(@, width, ~ clip), width, ~ clip)]

\* toggleViewDrag; the button is disabled where nothing is clipped.
ToggleViewDrag ==
  /\ connected
  /\ ClippingViewport(width, clip)
  /\ dragViewport' = ~ dragViewport
  /\ strays' = mouse.mask
  /\ UNCHANGED <<gestureVars, mouse, width, clip, held, captured, inside>>

-----------------------------------------------------------------------------
\* A session as its page has set it up.
PointerInit ==
  /\ GesturesInit
  /\ width \in 1 .. MaxWidth
  /\ clip \in BOOLEAN
  /\ dragViewport \in {FALSE, ClippingViewport(width, clip)}
  /\ LET place == CHOOSE place \in Spots : TRUE IN
       mouse = [mask |-> {}, dragging |-> FALSE, moved |-> FALSE, timer |-> FALSE,
                at |-> place, seen |-> place, told |-> <<>>,
                view |-> [x |-> 0, w |-> IF clip THEN AtMost(Screen, width) ELSE width]]
  /\ held = {}
  /\ captured = FALSE
  /\ inside = TRUE
  /\ strays = {}

MouseNext ==
  \/ \E button \in Buttons : MouseDown(button) \/ MouseUp(button)
  \/ MouseMove \/ Wheel

ViewNext == DesktopResize \/ SetClip \/ ToggleViewDrag

-----------------------------------------------------------------------------
(* Properties *)

PointerTypeOK ==
  /\ GesturesTypeOK
  /\ MouseOK(mouse)
  /\ {dragViewport, clip, captured, inside} \subseteq BOOLEAN
  /\ width \in 1 .. MaxWidth
  /\ held \subseteq Buttons
  /\ strays \subseteq AllButtons

(***************************************************************************)
(* Unless a message could not be sent since, the server knows the buttons  *)
(* held, and where the pointer is once no move waits for its time.         *)
(***************************************************************************)
ServerFollows ==
  mouse.told # <<>> =>
    /\ mouse.told.mask = mouse.mask
    /\ ~ mouse.timer => mouse.told.at = mouse.seen

GestureButton == IF open \in {"drag", "longpress"} THEN {ButtonOf(open)} ELSE {}

(***************************************************************************)
(* A button is held for the server only while a finger holds it, unless    *)
(* two were pressed at once or the drag mode changed during the press.     *)
(***************************************************************************)
NoButtonStuck == mouse.mask \subseteq held \union GestureButton \union strays

(***************************************************************************)
(* The server's pointer is the user's, place and buttons.                  *)
(***************************************************************************)
PointerAgrees == ServerFollows /\ NoButtonStuck

(***************************************************************************)
(* What is shown lies in the desktop and is as much of it as fits, however *)
(* desktop, clipping and drags follow each other.                          *)
(***************************************************************************)
ViewInDesktop ==
  /\ mouse.view.x + mouse.view.w <= width
  /\ mouse.view.w = IF clip THEN AtMost(Screen, width) ELSE width

(***************************************************************************)
(* Moves drag the view only where there is something to drag ("Make sure   *)
(* viewport drag isn't active when it can't be used", ui.js).              *)
(***************************************************************************)
DragNeedsClipping == dragViewport => ClippingViewport(width, clip)

(***************************************************************************)
(* The viewport and its drag mode fit the desktop, also after a resize.    *)
(***************************************************************************)
ViewFits == ViewInDesktop /\ DragNeedsClipping
=============================================================================
