---------------------------- MODULE InputSession ----------------------------
(***************************************************************************)
(* What every input device of the viewer shares: whether the session is    *)
(* connected, and whether the page only looks at it (core/rfb.js).         *)
(***************************************************************************)

VARIABLES
  connected,  \* _rfbConnectionState = "connected"
  viewOnly    \* _viewOnly

\* What sendKey and _sendMouse ask before they send.
CanSend == connected /\ ~ viewOnly
=============================================================================
