----------------------------- MODULE Connection -----------------------------
(***************************************************************************)
(* A viewer's connection and the page around it: the life of an RFB object  *)
(* (noVNC core/rfb.js: _updateConnectionState, _fail, the socket's events,  *)
(* disconnect), and what app/ui.js does with it: connecting, leaving, the   *)
(* dialogs, reconnecting after a delay, the status line, and the timers and *)
(* promises that come back later.  What happens in the handshake is in      *)
(* Handshake; here it may ask, ask for approval, refuse, fail or succeed.   *)
(***************************************************************************)
EXTENDS Integers, Sequences

CONSTANTS
  Reconnect,         \* the setting "reconnect"
  DigestIsLate       \* a fingerprint may be ready only after its connection

ASSUME ConnectionAssumption == Reconnect \in BOOLEAN /\ DigestIsLate \in BOOLEAN

VARIABLES
  state,             \* _rfbConnectionState of the latest RFB object
  told,              \* history: events that object has dispatched
  sock,              \* its web socket: "connecting", "open", "closing", "closed"
  onOpen, onClose,   \* whether the object still listens to these events
  onMessage,
  disconnTimer,      \* _disconnTimer
  clean,             \* _rfbCleanDisconnect
  uiRfb,             \* UI.rfb is defined
  connected,         \* UI.connected
  inhibitReconnect,  \* UI.inhibitReconnect
  reconnectTimer,    \* UI.reconnectCallback
  visual,            \* the class updateVisualState gives the page
  panel,             \* the connect panel is open
  credentialsDlg,    \* the dialog that asks for credentials is open
  verifyDlg,         \* the key the verification dialog shows: "none" when it
                     \* is closed, that of "this" connection or an "old" one
  digest,            \* the key whose fingerprint is being computed, likewise
  closeBarTimer,     \* UI.closeControlbarTimeout
  status,            \* severity of the visible status line, or "hidden"
  statusTimer,       \* UI.statusTimeout
  userLeft           \* history: the user's last word was to leave

rfbVars == <<state, told, sock, onOpen, onClose, onMessage, disconnTimer, clean>>
pageVars == <<visual, panel, credentialsDlg, verifyDlg, closeBarTimer>>
statusVars == <<status, statusTimer>>
uiVars == <<uiRfb, connected, inhibitReconnect, reconnectTimer>>
vars == <<rfbVars, uiVars, pageVars, digest, statusVars, userLeft>>

Init ==
  /\ state = "none" /\ told = <<>>
  /\ sock = "closed"
  /\ onOpen = FALSE /\ onClose = FALSE /\ onMessage = FALSE
  /\ disconnTimer = FALSE
  /\ clean = TRUE
  /\ uiRfb = FALSE /\ connected = FALSE
  /\ inhibitReconnect = TRUE /\ reconnectTimer = FALSE
  /\ visual = "init" /\ panel = TRUE
  /\ credentialsDlg = FALSE /\ verifyDlg = "none"
  /\ digest = "none"
  /\ closeBarTimer = FALSE
  /\ status = "hidden" /\ statusTimer = FALSE
  /\ userLeft = TRUE

-----------------------------------------------------------------------------
(* The page. *)

\* fault: the dialogs stay open
VisualStateKeepsDialogs(look, isConnected) ==
  /\ visual' = look
  /\ closeBarTimer' = isConnected
  /\ UNCHANGED <<credentialsDlg, verifyDlg>>

\* updateVisualState closes the dialogs; while connected it starts the timer
\* that closes the control bar, else it stops it.
VisualState(look, isConnected) ==
  /\ visual' = look
  /\ closeBarTimer' = isConnected
  /\ credentialsDlg' = FALSE
  /\ verifyDlg' = "none"

Severity(s) == CASE s = "error" -> 3 [] s = "warning" -> 2 [] s = "normal" -> 1 [] OTHER -> 0

\* showStatus never replaces a more severe line; an error has no timeout.
StatusAfter(shown, s) == IF Severity(shown) > Severity(s) THEN shown ELSE s
TimerAfter(shown, timer, s) ==
  IF shown = "error" \/ Severity(shown) > Severity(s) THEN timer ELSE s # "error"
ShowStatus(s) ==
  /\ status' = StatusAfter(status, s)
  /\ statusTimer' = TimerAfter(status, statusTimer, s)

HideStatus == status' = "hidden" /\ statusTimer' = FALSE

-----------------------------------------------------------------------------
(* The RFB object. *)

\* fault: any move is allowed
AllowedAlways(from, to) == TRUE

\* _updateConnectionState: the transitions it allows.
Allowed(from, to) ==
  CASE to = "connected" -> from = "connecting"
    [] to = "disconnecting" -> from \in {"connecting", "connected"}
    [] to = "disconnected" -> from = "disconnecting"
    [] OTHER -> FALSE

\* _disconnect closes the socket and stops its messages.
ClosingSock == IF sock \in {"connecting", "open"} THEN "closing" ELSE sock

PanelAfter(again) == panel \/ ~again

\* What the page does when it is told "disconnect", in the same call:
\* disconnectFinished.  An unclean end shows an error first.
DisconnectFinished(isClean) ==
  LET again == Reconnect /\ ~inhibitReconnect
      shown == IF isClean THEN status ELSE StatusAfter(status, "error")
      timer == IF isClean THEN statusTimer ELSE TimerAfter(status, statusTimer, "error")
  IN
  /\ uiRfb' = FALSE
  /\ connected' = FALSE
  /\ reconnectTimer' = again
  /\ VisualState(IF again THEN "reconnecting" ELSE "disconnected", FALSE)
  /\ status' = IF again THEN shown ELSE StatusAfter(shown, "normal")
  /\ statusTimer' = IF again THEN timer ELSE TimerAfter(shown, timer, "normal")
  /\ panel' = PanelAfter(again)
  /\ digest' = IF digest = "none" THEN "none" ELSE "old"
  /\ UNCHANGED <<inhibitReconnect, userLeft>>

CloseIsOff == onClose' = FALSE

\* The move to "disconnected": the timer and the close handler go, the event
\* is dispatched, and the page acts on it before the move returns.
Disconnected(isClean) ==
  /\ state' = "disconnected"
  /\ told' = Append(told, "disconnect")
  /\ disconnTimer' = FALSE
  /\ CloseIsOff
  /\ DisconnectFinished(isClean)

\* _fail: to "disconnecting", where _disconnect runs and the timer starts, and
\* at once to "disconnected".
Fail ==
  /\ clean' = FALSE
  /\ IF Allowed(state, "disconnecting") \/ state = "disconnecting"
     THEN /\ sock' = ClosingSock
          /\ onMessage' = FALSE
          /\ Disconnected(FALSE)
     ELSE UNCHANGED <<state, told, sock, onMessage, disconnTimer, onClose, uiVars, pageVars,
                      statusVars, digest, userLeft>>
  /\ UNCHANGED onOpen

-----------------------------------------------------------------------------
(* The user. *)

\* new RFB(...): the constructor opens the socket.
NewRfb ==
  /\ state' = "connecting" /\ told' = <<>>
  /\ sock' = "connecting"
  /\ onOpen' = TRUE /\ onClose' = TRUE /\ onMessage' = TRUE
  /\ disconnTimer' = FALSE /\ clean' = TRUE
  /\ uiRfb' = TRUE

\* UI.connect, from the panel or from the timer.
Connect ==
  /\ ~uiRfb
  /\ NewRfb
  /\ HideStatus
  /\ panel' = FALSE
  /\ VisualState("connecting", connected)

ClickConnect ==
  /\ panel
  /\ Connect
  /\ userLeft' = FALSE
  /\ UNCHANGED <<connected, inhibitReconnect, reconnectTimer, digest>>

\* fault: the timer gives up when it fires
ReconnectForgotten ==
  /\ reconnectTimer
  /\ reconnectTimer' = FALSE
  /\ UNCHANGED <<rfbVars, uiRfb, connected, inhibitReconnect, pageVars, digest, statusVars,
                 userLeft>>

ReconnectFires ==
  /\ reconnectTimer
  /\ reconnectTimer' = FALSE
  /\ IF inhibitReconnect \/ uiRfb
     THEN UNCHANGED <<rfbVars, uiRfb, pageVars, statusVars>>
     ELSE Connect
  /\ UNCHANGED <<connected, inhibitReconnect, digest, userLeft>>

CancelReconnect ==
  /\ visual = "reconnecting"
  /\ reconnectTimer' = FALSE
  /\ VisualState("disconnected", connected)
  /\ panel' = TRUE
  /\ userLeft' = TRUE
  /\ UNCHANGED <<rfbVars, uiRfb, connected, inhibitReconnect, digest, statusVars>>

\* fault: reconnecting is not inhibited
LeaveForNow ==
  /\ uiRfb
  /\ IF Allowed(state, "disconnecting")
     THEN /\ state' = "disconnecting"
          /\ sock' = ClosingSock
          /\ disconnTimer' = TRUE
     ELSE UNCHANGED <<state, sock, disconnTimer>>
  /\ onOpen' = FALSE /\ onMessage' = FALSE
  /\ connected' = FALSE
  /\ VisualState("disconnecting", FALSE)
  /\ userLeft' = TRUE
  /\ UNCHANGED <<told, onClose, clean, uiRfb, inhibitReconnect, reconnectTimer, panel, digest,
                 statusVars>>

\* UI.disconnect, by the button or by rejecting the server: rfb.disconnect()
\* stops listening to all but the closing of the socket.
Leave ==
  /\ uiRfb
  /\ IF Allowed(state, "disconnecting")
     THEN /\ state' = "disconnecting"
          /\ sock' = ClosingSock
          /\ disconnTimer' = TRUE
     ELSE UNCHANGED <<state, sock, disconnTimer>>
  /\ onOpen' = FALSE /\ onMessage' = FALSE
  /\ connected' = FALSE
  /\ inhibitReconnect' = TRUE
  /\ VisualState("disconnecting", FALSE)
  /\ userLeft' = TRUE
  /\ UNCHANGED <<told, onClose, clean, uiRfb, reconnectTimer, panel, digest, statusVars>>

ClickDisconnect == state \in {"connecting", "connected", "disconnecting"} /\ Leave

ApproveServer ==
  /\ verifyDlg # "none"
  /\ verifyDlg' = "none"
  /\ UNCHANGED <<rfbVars, uiVars, visual, panel, credentialsDlg, closeBarTimer, digest,
                 statusVars, userLeft>>

\* The dialog's buttons are there whatever has become of the connection;
\* without one UI.disconnect throws.
RejectServer ==
  /\ verifyDlg # "none"
  /\ IF uiRfb THEN Leave
     ELSE /\ verifyDlg' = "none"
          /\ UNCHANGED <<rfbVars, uiVars, visual, panel, credentialsDlg, closeBarTimer, digest,
                         statusVars, userLeft>>

SetCredentials ==
  /\ credentialsDlg
  /\ credentialsDlg' = FALSE
  /\ UNCHANGED <<rfbVars, uiVars, visual, panel, verifyDlg, closeBarTimer, digest, statusVars,
                 userLeft>>

ClickStatus ==
  /\ status # "hidden"
  /\ HideStatus
  /\ UNCHANGED <<rfbVars, uiVars, pageVars, digest, userLeft>>

-----------------------------------------------------------------------------
(* The socket and the server. *)

SocketOpens ==
  /\ sock = "connecting"
  /\ sock' = "open"
  /\ UNCHANGED <<state, told, onOpen, onClose, onMessage, disconnTimer, clean, uiVars, pageVars,
                 digest, statusVars, userLeft>>

\* _socketClose: the server closed, or close() has been answered.
SocketCloses ==
  /\ sock # "closed"
  /\ sock' = "closed"
  /\ IF ~onClose
     THEN UNCHANGED <<state, told, onClose, onMessage, disconnTimer, clean, uiVars, pageVars,
                      digest, statusVars, userLeft>>
     ELSE /\ onMessage' = FALSE
          /\ clean' = (clean /\ state \in {"connected", "disconnecting"})
          /\ IF state = "disconnected"
             THEN /\ onClose' = FALSE
                  /\ UNCHANGED <<state, told, disconnTimer, uiVars, pageVars, digest, statusVars,
                                 userLeft>>
             ELSE Disconnected(clean')
  /\ UNCHANGED onOpen

\* A message comes only to an object that listens on an open socket.
Heard == sock = "open" /\ onMessage

Succeeds ==
  /\ Heard /\ Allowed(state, "connected")
  /\ state' = "connected"
  /\ told' = Append(told, "connect")
  /\ connected' = TRUE
  /\ inhibitReconnect' = FALSE
  /\ ShowStatus("normal")
  /\ VisualState("connected", TRUE)
  /\ UNCHANGED <<sock, onOpen, onClose, onMessage, disconnTimer, clean, uiRfb, reconnectTimer,
                 panel, digest, userLeft>>

\* A refusal or a protocol error, in the handshake or later; the line that a
\* refusal shows first is an error too.
Fails == Heard /\ state \in {"connecting", "connected"} /\ Fail

AsksForCredentials ==
  /\ Heard /\ state = "connecting" /\ ~credentialsDlg
  /\ credentialsDlg' = TRUE
  /\ ShowStatus("warning")
  /\ UNCHANGED <<rfbVars, uiVars, visual, panel, verifyDlg, closeBarTimer, digest, userLeft>>

\* serverVerify computes the fingerprint before it opens the dialog.
AsksToVerify ==
  /\ Heard /\ state = "connecting" /\ digest = "none" /\ verifyDlg = "none"
  /\ digest' = "this"
  /\ UNCHANGED <<rfbVars, uiVars, pageVars, statusVars, userLeft>>

DigestReady ==
  /\ digest # "none"
  /\ digest' = "none"
  /\ verifyDlg' = IF DigestIsLate \/ (digest = "this" /\ state = "connecting")
                  THEN digest ELSE verifyDlg
  /\ UNCHANGED <<rfbVars, uiVars, visual, panel, credentialsDlg, closeBarTimer, statusVars,
                 userLeft>>

-----------------------------------------------------------------------------
(* Timers. *)

DisconnectTimesOut ==
  /\ disconnTimer
  /\ IF Allowed(state, "disconnected")
     THEN Disconnected(clean) /\ UNCHANGED <<sock, onOpen, onMessage, clean>>
     ELSE disconnTimer' = FALSE /\ UNCHANGED <<state, told, sock, onOpen, onMessage, onClose,
                                               clean, uiVars, pageVars, digest, statusVars,
                                               userLeft>>

StatusTimesOut ==
  /\ statusTimer
  /\ HideStatus
  /\ UNCHANGED <<rfbVars, uiVars, pageVars, digest, userLeft>>

\* closeControlbar ends with UI.rfb.focus().
CloseBarTimesOut ==
  /\ closeBarTimer
  /\ closeBarTimer' = FALSE
  /\ UNCHANGED <<rfbVars, uiVars, visual, panel, credentialsDlg, verifyDlg, digest, statusVars,
                 userLeft>>

Next ==
  \/ ClickConnect \/ ReconnectFires \/ CancelReconnect \/ ClickDisconnect
  \/ ApproveServer \/ RejectServer \/ SetCredentials \/ ClickStatus
  \/ SocketOpens \/ SocketCloses
  \/ Succeeds \/ Fails \/ AsksForCredentials \/ AsksToVerify \/ DigestReady
  \/ DisconnectTimesOut \/ StatusTimesOut \/ CloseBarTimesOut

\* The browser fires the timers that are set; no fairness for peers or users.
Spec ==
  /\ Init /\ [][Next]_vars
  /\ WF_vars(DisconnectTimesOut) /\ WF_vars(ReconnectFires) /\ WF_vars(StatusTimesOut)
  /\ WF_vars(CloseBarTimesOut)

-----------------------------------------------------------------------------
(* Properties. *)

\* What an object may have told.
Stories == {<<>>, <<"connect">>, <<"disconnect">>, <<"connect", "disconnect">>}

ObjectTypes ==
  /\ state \in {"none", "connecting", "connected", "disconnecting", "disconnected"}
  /\ told \in Stories
  /\ sock \in {"connecting", "open", "closing", "closed"}
  /\ onOpen \in BOOLEAN /\ onClose \in BOOLEAN /\ onMessage \in BOOLEAN
  /\ disconnTimer \in BOOLEAN /\ clean \in BOOLEAN

PageTypes ==
  /\ uiRfb \in BOOLEAN /\ connected \in BOOLEAN
  /\ inhibitReconnect \in BOOLEAN /\ reconnectTimer \in BOOLEAN
  /\ visual \in {"init", "connecting", "connected", "disconnecting", "disconnected",
                 "reconnecting"}
  /\ panel \in BOOLEAN /\ credentialsDlg \in BOOLEAN
  /\ verifyDlg \in {"none", "this", "old"}
  /\ digest \in {"none", "this", "old"} /\ closeBarTimer \in BOOLEAN
  /\ status \in {"hidden", "normal", "warning", "error"}
  /\ statusTimer \in BOOLEAN
  /\ userLeft \in BOOLEAN

TypeOK == ObjectTypes /\ PageTypes

\* Every RFB object tells its story as docs/API.md promises.
Life == INSTANCE ConnectionLife
LifeSpec == Life!LifeSpec

\* The page and the object agree: the page holds an object exactly while it is
\* not disconnected, believes in a session only while there is one, and never
\* waits for the object's socket after its end.
ShowsItsConnection ==
  /\ uiRfb <=> state \in {"connecting", "connected", "disconnecting"}
  /\ connected <=> state = "connected"
  /\ onClose <=> uiRfb
  /\ disconnTimer <=> state = "disconnecting"

\* What comes back later finds what it needs: the control bar's timer uses
\* UI.rfb, and the timer that reconnects runs only without one.
TimersFindTheirObject ==
  /\ closeBarTimer => uiRfb
  /\ reconnectTimer => ~uiRfb /\ ~inhibitReconnect
  /\ status = "error" => ~statusTimer

\* The dialogs close when the state changes (updateVisualState), so an open one
\* has a connection that waits for its answer, and shows that server's key.
DialogsHaveAConnection ==
  /\ credentialsDlg \/ verifyDlg # "none" => state = "connecting"
  /\ verifyDlg # "old"

\* The user can always go on: there is an object to leave, a panel to connect
\* from, or a timer that will.
AlwaysAWayOn == uiRfb \/ panel \/ reconnectTimer

\* The page fits its connection, whatever comes late: timers, closes, answers.
PageAgrees ==
  /\ ShowsItsConnection
  /\ TimersFindTheirObject
  /\ DialogsHaveAConnection
  /\ AlwaysAWayOn

\* Nobody is connected again who left (UI.inhibitReconnect).
StaysAway == [][userLeft /\ userLeft' => (state' = "connecting" => state = "connecting")]_vars

\* Leaving ends, also when the server never answers the close; and a page that
\* says it is reconnecting does so, or is told not to.
WaitsEnd ==
  /\ (state = "disconnecting") ~> (state = "disconnected")
  /\ (visual = "reconnecting") ~> (visual # "reconnecting")
=============================================================================
