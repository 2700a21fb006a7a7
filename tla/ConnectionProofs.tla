--------------------------- MODULE ConnectionProofs --------------------------
(***************************************************************************)
(* The page and its connection agree in every state they can reach, the     *)
(* RFB object tells its story as promised, and nobody who left is connected *)
(* again.  The first needs that a fingerprint is ready before its           *)
(* connection is over; the other two hold without it.                       *)
(***************************************************************************)
EXTENDS Connection, SequenceTheorems, TLAPS

(***************************************************************************)
(* The strengthening: what has been told at each state; the connect panel,  *)
(* the reconnecting page and the timer exclude each other; and whoever has  *)
(* left either waits for the end of a connection that will not come back,   *)
(* or has none.                                                             *)
(***************************************************************************)
ToldSoFar ==
  /\ state \in {"none", "connecting"} => told = <<>>
  /\ state = "connected" => told = <<"connect">>
  /\ state = "disconnecting" => told \in {<<>>, <<"connect">>}

OneWayOn ==
  /\ panel => ~uiRfb /\ ~reconnectTimer
  /\ visual = "reconnecting" <=> reconnectTimer
  /\ state = "none" => ~reconnectTimer

LeftForGood ==
  userLeft =>
    /\ state \in {"none", "disconnecting", "disconnected"}
    /\ ~reconnectTimer
    /\ uiRfb => inhibitReconnect

ConnInv ==
  /\ TypeOK
  /\ ToldSoFar
  /\ ShowsItsConnection
  /\ TimersFindTheirObject
  /\ AlwaysAWayOn
  /\ OneWayOn
  /\ LeftForGood

LEMMA InitInv == Init => ConnInv /\ DialogsHaveAConnection
BY DEF Init, Stories, ConnInv, TypeOK, ObjectTypes, PageTypes, ToldSoFar, ShowsItsConnection,
       TimersFindTheirObject, DialogsHaveAConnection, AlwaysAWayOn, OneWayOn, LeftForGood

StatusTypes == status \in {"hidden", "normal", "warning", "error"} /\ statusTimer \in BOOLEAN
ErrorStays == status = "error" => ~statusTimer

\* Showing a line keeps an error without a timeout.
LEMMA ShownStatus ==
  ASSUME NEW shown \in {"hidden", "normal", "warning", "error"}, NEW timer \in BOOLEAN,
         NEW s \in {"normal", "warning", "error"},
         shown = "error" => ~timer
  PROVE  /\ StatusAfter(shown, s) \in {"hidden", "normal", "warning", "error"}
         /\ TimerAfter(shown, timer, s) \in BOOLEAN
         /\ StatusAfter(shown, s) = "error" => ~TimerAfter(shown, timer, s)
<1>1. /\ Severity("error") = 3 /\ Severity("warning") = 2 /\ Severity("normal") = 1
      /\ Severity("hidden") = 0
  BY DEF Severity
<1>2. CASE shown = "error"
  BY <1>1, <1>2 DEF StatusAfter, TimerAfter
<1>3. CASE shown # "error"
  BY <1>1, <1>3 DEF StatusAfter, TimerAfter
<1> QED
  BY <1>2, <1>3

LEMMA ToldAtFirst ==
  /\ <<>> \in Stories /\ <<"connect">> \in Stories
  /\ Append(<<>>, "connect") = <<"connect">>
BY DEF Stories

LEMMA ToldAtTheEnd ==
  ASSUME ToldSoFar, state \in {"connecting", "connected", "disconnecting"}
  PROVE  Append(told, "disconnect") \in Stories
<1>1. Append(<<>>, "disconnect") = <<"disconnect">>
  OBVIOUS
<1>2. Append(<<"connect">>, "disconnect") = <<"connect", "disconnect">>
  <2> DEFINE first == <<"connect">>
             both == <<"connect", "disconnect">>
             events == {"connect", "disconnect"}
  <2>1. first \in Seq(events) /\ Len(first) = 1 /\ first[1] = "connect"
    OBVIOUS
  <2>2. both \in Seq(events) /\ Len(both) = 2 /\ both[1] = "connect" /\ both[2] = "disconnect"
    OBVIOUS
  <2>3. /\ Append(first, "disconnect") \in Seq(events)
        /\ Len(Append(first, "disconnect")) = 2
        /\ Append(first, "disconnect")[1] = "connect"
        /\ Append(first, "disconnect")[2] = "disconnect"
    BY <2>1
  <2> HIDE DEF first, both, events
  <2>4. \A i \in 1 .. 2 : Append(first, "disconnect")[i] = both[i]
    BY <2>2, <2>3
  <2> QED
    BY <2>2, <2>3, <2>4, SeqEqual DEF first, both
<1> QED
  BY <1>1, <1>2 DEF ToldSoFar, Stories

LEMMA DisconnectedKeepsInv ==
  ASSUME ConnInv, NEW isClean \in BOOLEAN, Disconnected(isClean),
         state \in {"connecting", "connected", "disconnecting"},
         sock' \in {"connecting", "open", "closing", "closed"},
         onOpen' \in BOOLEAN, onMessage' \in BOOLEAN, clean' \in BOOLEAN
  PROVE  ConnInv' /\ DialogsHaveAConnection'
<1> DEFINE again == Reconnect /\ ~inhibitReconnect
<1>1. /\ state' = "disconnected" /\ disconnTimer' = FALSE /\ onClose' = FALSE
      /\ uiRfb' = FALSE /\ connected' = FALSE /\ reconnectTimer' = again
      /\ visual' = (IF again THEN "reconnecting" ELSE "disconnected")
      /\ closeBarTimer' = FALSE /\ credentialsDlg' = FALSE /\ verifyDlg' = "none"
      /\ panel' = (panel \/ ~again)
      /\ digest' \in {"none", "old"}
      /\ UNCHANGED <<inhibitReconnect, userLeft>>
  BY DEF Disconnected, DisconnectFinished, CloseIsOff, VisualState, PanelAfter
<1>2. told' \in Stories
  BY ToldAtTheEnd DEF Disconnected, ConnInv
<1>3. StatusTypes' /\ ErrorStays'
  <2> DEFINE shown == IF isClean THEN status ELSE StatusAfter(status, "error")
             timer == IF isClean THEN statusTimer ELSE TimerAfter(status, statusTimer, "error")
  <2>1. StatusTypes /\ ErrorStays
    BY DEF ConnInv, TypeOK, ObjectTypes, PageTypes, TimersFindTheirObject, StatusTypes,
           ErrorStays
  <2>2. /\ shown \in {"hidden", "normal", "warning", "error"} /\ timer \in BOOLEAN
        /\ shown = "error" => ~timer
    BY <2>1, ShownStatus DEF StatusTypes, ErrorStays
  <2>3. /\ status' = IF again THEN shown ELSE StatusAfter(shown, "normal")
        /\ statusTimer' = IF again THEN timer ELSE TimerAfter(shown, timer, "normal")
    BY DEF Disconnected, DisconnectFinished
  <2> HIDE DEF shown, timer
  <2> QED
    BY <2>2, <2>3, ShownStatus DEF StatusTypes, ErrorStays
<1>4. TypeOK'
  BY <1>1, <1>2, <1>3 DEF ConnInv, TypeOK, ObjectTypes, PageTypes, StatusTypes
<1>5. /\ ToldSoFar' /\ ShowsItsConnection' /\ TimersFindTheirObject' /\ DialogsHaveAConnection'
      /\ AlwaysAWayOn'
  BY <1>1, <1>3, <1>4
     DEF ToldSoFar, ShowsItsConnection, TimersFindTheirObject, DialogsHaveAConnection,
         AlwaysAWayOn, ErrorStays
<1>6. OneWayOn' /\ LeftForGood'
  BY <1>1 DEF ConnInv, OneWayOn, LeftForGood, ShowsItsConnection
<1> QED
  BY <1>4, <1>5, <1>6 DEF ConnInv

\* What a step keeps; a dialog belongs to a connection only if no fingerprint
\* comes late.
Kept == ConnInv' /\ (DialogsHaveAConnection /\ ~DigestIsLate => DialogsHaveAConnection')

LEMMA FailKeepsInv ==
  ASSUME ConnInv, state \in {"connecting", "connected"}, Fail
  PROVE  Kept
<1>1. /\ Disconnected(FALSE) /\ clean' = FALSE /\ onMessage' = FALSE
      /\ sock' = ClosingSock /\ UNCHANGED onOpen
  BY DEF Fail, Allowed
<1>2. /\ sock' \in {"connecting", "open", "closing", "closed"}
      /\ onOpen' \in BOOLEAN /\ onMessage' \in BOOLEAN /\ clean' \in BOOLEAN
  BY <1>1 DEF ConnInv, TypeOK, ObjectTypes, PageTypes, ClosingSock
<1> QED
  BY <1>1, <1>2, DisconnectedKeepsInv DEF Kept

LEMMA ConnectKeepsInv ==
  ASSUME ConnInv, ClickConnect \/ ReconnectFires
  PROVE  Kept
<1>1. CASE ReconnectFires /\ UNCHANGED <<rfbVars, uiRfb, pageVars, statusVars>> /\ uiRfb
  BY <1>1 DEF ConnInv, TimersFindTheirObject, ReconnectFires
<1>2. CASE Connect
  <2>1. ~uiRfb /\ connected = FALSE
    BY <1>2 DEF Connect, ConnInv, TypeOK, ObjectTypes, PageTypes, ShowsItsConnection
  <2>2. /\ state' = "connecting" /\ told' = <<>> /\ sock' = "connecting"
        /\ onOpen' = TRUE /\ onClose' = TRUE /\ onMessage' = TRUE
        /\ disconnTimer' = FALSE /\ clean' = TRUE /\ uiRfb' = TRUE
        /\ status' = "hidden" /\ statusTimer' = FALSE /\ panel' = FALSE
        /\ visual' = "connecting" /\ closeBarTimer' = FALSE
        /\ credentialsDlg' = FALSE /\ verifyDlg' = "none"
    BY <1>2, <2>1 DEF Connect, NewRfb, HideStatus, VisualState
  <2>3. /\ reconnectTimer' = FALSE /\ userLeft' = FALSE
        /\ UNCHANGED <<connected, inhibitReconnect, digest>>
    BY DEF ClickConnect, ReconnectFires, ConnInv, TypeOK, ObjectTypes, PageTypes, OneWayOn,
           LeftForGood
  <2>4. TypeOK'
    BY <2>2, <2>3, ToldAtFirst DEF ConnInv, TypeOK, ObjectTypes, PageTypes
  <2>5. /\ ToldSoFar' /\ ShowsItsConnection' /\ TimersFindTheirObject'
        /\ DialogsHaveAConnection' /\ AlwaysAWayOn' /\ OneWayOn' /\ LeftForGood'
    BY <2>1, <2>2, <2>3
       DEF ToldSoFar, ShowsItsConnection, TimersFindTheirObject, DialogsHaveAConnection,
           AlwaysAWayOn, OneWayOn, LeftForGood
  <2> QED
    BY <2>4, <2>5 DEF Kept, ConnInv
<1> QED
  BY <1>1, <1>2 DEF ClickConnect, ReconnectFires, ConnInv, TimersFindTheirObject

LEMMA LeaveKeepsInv ==
  ASSUME ConnInv, Leave
  PROVE  Kept
BY DEF Kept, Leave, Allowed, ClosingSock, VisualState, statusVars, ConnInv, TypeOK, ObjectTypes,
       PageTypes, ToldSoFar, ShowsItsConnection, TimersFindTheirObject, DialogsHaveAConnection,
       AlwaysAWayOn, OneWayOn, LeftForGood

LEMMA CancelKeepsInv ==
  ASSUME ConnInv, CancelReconnect
  PROVE  Kept
<1>1. reconnectTimer /\ ~uiRfb /\ connected = FALSE /\ state \in {"none", "disconnected"}
  BY DEF CancelReconnect, ConnInv, TypeOK, ObjectTypes, PageTypes, OneWayOn,
         TimersFindTheirObject, ShowsItsConnection
<1>2. /\ reconnectTimer' = FALSE /\ visual' = "disconnected" /\ closeBarTimer' = FALSE
      /\ credentialsDlg' = FALSE /\ verifyDlg' = "none" /\ panel' = TRUE /\ userLeft' = TRUE
      /\ UNCHANGED <<state, told, sock, onOpen, onClose, onMessage, disconnTimer, clean>>
      /\ UNCHANGED <<uiRfb, connected, inhibitReconnect, digest, status, statusTimer>>
  BY <1>1 DEF CancelReconnect, VisualState, rfbVars, statusVars
<1>3. TypeOK'
  <2>1. ObjectTypes'
    BY <1>2 DEF ConnInv, TypeOK, ObjectTypes
  <2>2. PageTypes'
    BY <1>2 DEF ConnInv, TypeOK, PageTypes
  <2> QED
    BY <2>1, <2>2 DEF TypeOK
<1>4. /\ ToldSoFar' /\ ShowsItsConnection' /\ TimersFindTheirObject' /\ DialogsHaveAConnection'
      /\ AlwaysAWayOn' /\ OneWayOn' /\ LeftForGood'
  BY <1>1, <1>2
     DEF ConnInv, ToldSoFar, ShowsItsConnection, TimersFindTheirObject, DialogsHaveAConnection,
         AlwaysAWayOn, OneWayOn, LeftForGood
<1> QED
  BY <1>3, <1>4 DEF Kept, ConnInv

\* The dialogs' buttons, the status line and the timers of both, and what the
\* browser and the server do that leaves the connection's state alone.
LEMMA PageKeepsInv ==
  ASSUME ConnInv,
         \/ ApproveServer \/ SetCredentials \/ ClickStatus \/ SocketOpens
         \/ AsksToVerify \/ DigestReady \/ StatusTimesOut \/ CloseBarTimesOut
  PROVE  Kept
<1>1. /\ UNCHANGED <<state, told, onClose, onMessage, disconnTimer, clean>>
      /\ UNCHANGED <<uiRfb, connected, inhibitReconnect, reconnectTimer>>
      /\ UNCHANGED <<visual, panel, userLeft>>
  BY DEF ApproveServer, SetCredentials, ClickStatus, SocketOpens, AsksToVerify, DigestReady,
         StatusTimesOut, CloseBarTimesOut, rfbVars, uiVars, pageVars
<1>2. /\ sock' \in {"connecting", "open", "closing", "closed"} /\ UNCHANGED onOpen
      /\ closeBarTimer' \in {FALSE, closeBarTimer}
      /\ credentialsDlg' \in {FALSE, credentialsDlg}
  BY DEF ApproveServer, SetCredentials, ClickStatus, SocketOpens, AsksToVerify, DigestReady,
         StatusTimesOut, CloseBarTimesOut, rfbVars, pageVars, ConnInv, TypeOK, ObjectTypes,
         PageTypes
<1>3. StatusTypes' /\ ErrorStays'
  <2>1. UNCHANGED <<status, statusTimer>> \/ HideStatus
    BY DEF ApproveServer, SetCredentials, ClickStatus, SocketOpens, AsksToVerify, DigestReady,
           StatusTimesOut, CloseBarTimesOut, statusVars
  <2>2. StatusTypes /\ ErrorStays
    BY DEF ConnInv, TypeOK, PageTypes, TimersFindTheirObject, StatusTypes, ErrorStays
  <2>3. CASE UNCHANGED <<status, statusTimer>>
    BY <2>2, <2>3 DEF StatusTypes, ErrorStays
  <2>4. CASE HideStatus
    BY <2>4 DEF HideStatus, StatusTypes, ErrorStays
  <2> QED
    BY <2>1, <2>3, <2>4
<1>4. /\ digest' \in {"none", "this", "old"}
      /\ verifyDlg' = "none" \/ verifyDlg' = verifyDlg \/ (DigestReady /\ verifyDlg' = digest)
  BY DEF ApproveServer, SetCredentials, ClickStatus, SocketOpens, AsksToVerify, DigestReady,
         StatusTimesOut, CloseBarTimesOut, pageVars, ConnInv, TypeOK, ObjectTypes, PageTypes
<1>5. TypeOK'
  <2>1. ObjectTypes'
    BY <1>1, <1>2 DEF ConnInv, TypeOK, ObjectTypes
  <2>2. verifyDlg' \in {"none", "this", "old"} /\ digest' \in {"none", "this", "old"}
    BY <1>4 DEF ConnInv, TypeOK, PageTypes
  <2>3. PageTypes'
    <3>1. PageTypes
      BY DEF ConnInv, TypeOK
    <3>2. credentialsDlg' \in BOOLEAN /\ closeBarTimer' \in BOOLEAN
      BY <1>2, <3>1 DEF PageTypes
    <3>3. StatusTypes'
      BY <1>3
    <3> QED
      BY <1>1, <2>2, <3>1, <3>2, <3>3 DEF PageTypes, StatusTypes
  <2> QED
    BY <2>1, <2>3 DEF TypeOK
<1>6. /\ ToldSoFar' /\ ShowsItsConnection' /\ TimersFindTheirObject' /\ AlwaysAWayOn'
      /\ OneWayOn' /\ LeftForGood'
  <2>1. ToldSoFar' /\ ShowsItsConnection' /\ AlwaysAWayOn'
    BY <1>1 DEF ConnInv, ToldSoFar, ShowsItsConnection, AlwaysAWayOn
  <2>2. OneWayOn' /\ LeftForGood'
    BY <1>1 DEF ConnInv, OneWayOn, LeftForGood
  <2>3. TimersFindTheirObject'
    <3>1. closeBarTimer' => closeBarTimer
      BY <1>2
    <3> QED
      BY <1>1, <1>3, <3>1 DEF ConnInv, TimersFindTheirObject, ErrorStays
  <2> QED
    BY <2>1, <2>2, <2>3
<1>7. DialogsHaveAConnection /\ ~DigestIsLate => DialogsHaveAConnection'
  BY <1>1, <1>2, <1>4 DEF DialogsHaveAConnection, DigestReady
<1> QED
  BY <1>5, <1>6, <1>7 DEF Kept, ConnInv

LEMMA RejectKeepsInv ==
  ASSUME ConnInv, RejectServer
  PROVE  Kept
<1>1. CASE ~uiRfb
  BY <1>1
     DEF Kept, RejectServer, rfbVars, uiVars, statusVars, ConnInv, TypeOK, ObjectTypes,
         PageTypes, ToldSoFar, ShowsItsConnection, TimersFindTheirObject,
         DialogsHaveAConnection, AlwaysAWayOn, OneWayOn, LeftForGood
<1> QED
  BY <1>1, LeaveKeepsInv DEF RejectServer

LEMMA StatusKeepsInv ==
  ASSUME ConnInv, NEW s \in {"normal", "warning", "error"}, ShowStatus(s)
  PROVE  StatusTypes' /\ ErrorStays'
BY ShownStatus DEF ShowStatus, ConnInv, TypeOK, ObjectTypes, PageTypes, TimersFindTheirObject,
                   StatusTypes, ErrorStays

LEMMA AsksKeepsInv ==
  ASSUME ConnInv, AsksForCredentials
  PROVE  Kept
<1>1. StatusTypes' /\ ErrorStays'
  BY StatusKeepsInv DEF AsksForCredentials
<1> QED
  BY <1>1
     DEF Kept, AsksForCredentials, rfbVars, uiVars, StatusTypes, ErrorStays, ConnInv, TypeOK,
         ObjectTypes, PageTypes, ToldSoFar, ShowsItsConnection, TimersFindTheirObject,
         DialogsHaveAConnection, AlwaysAWayOn, OneWayOn, LeftForGood

LEMMA SucceedsKeepsInv ==
  ASSUME ConnInv, Succeeds
  PROVE  Kept
<1>1. StatusTypes' /\ ErrorStays'
  BY StatusKeepsInv DEF Succeeds
<1>2. state = "connecting" /\ told' = <<"connect">>
  BY ToldAtFirst DEF Succeeds, Allowed, ConnInv, ToldSoFar
<1> QED
  BY <1>1, <1>2, ToldAtFirst
     DEF Kept, Succeeds, VisualState, StatusTypes, ErrorStays, ConnInv, TypeOK, ObjectTypes,
         PageTypes, ToldSoFar, ShowsItsConnection, TimersFindTheirObject,
         DialogsHaveAConnection, AlwaysAWayOn, OneWayOn, LeftForGood

LEMMA CloseKeepsInv ==
  ASSUME ConnInv, SocketCloses
  PROVE  Kept
<1>1. CASE ~onClose
  BY <1>1
     DEF Kept, SocketCloses, uiVars, pageVars, statusVars, ConnInv, TypeOK, ObjectTypes,
         PageTypes, ToldSoFar, ShowsItsConnection, TimersFindTheirObject,
         DialogsHaveAConnection, AlwaysAWayOn, OneWayOn, LeftForGood
<1>2. CASE onClose
  <2>1. state \in {"connecting", "connected", "disconnecting"}
    BY <1>2 DEF ConnInv, ShowsItsConnection
  <2>2. /\ Disconnected(clean') /\ clean' \in BOOLEAN /\ onMessage' \in BOOLEAN
        /\ onOpen' \in BOOLEAN /\ sock' \in {"connecting", "open", "closing", "closed"}
    BY <1>2, <2>1 DEF SocketCloses, ConnInv, TypeOK, ObjectTypes, PageTypes
  <2> QED
    BY <2>1, <2>2, DisconnectedKeepsInv DEF Kept
<1> QED
  BY <1>1, <1>2

LEMMA TimeoutKeepsInv ==
  ASSUME ConnInv, DisconnectTimesOut
  PROVE  Kept
<1>1. state = "disconnecting"
  BY DEF DisconnectTimesOut, ConnInv, ShowsItsConnection
<1>2. Disconnected(clean) /\ UNCHANGED <<sock, onOpen, onMessage, clean>>
  BY <1>1 DEF DisconnectTimesOut, Allowed
<1> QED
  BY <1>1, <1>2, DisconnectedKeepsInv DEF Kept, ConnInv, TypeOK, ObjectTypes, PageTypes

LEMMA StepInv ==
  ASSUME ConnInv, Next
  PROVE  Kept
<1>1. CASE ClickDisconnect \/ RejectServer
  BY <1>1, LeaveKeepsInv, RejectKeepsInv DEF ClickDisconnect
<1>2. CASE Fails
  BY <1>2, FailKeepsInv DEF Fails
<1> QED
  BY <1>1, <1>2, ConnectKeepsInv, CancelKeepsInv, PageKeepsInv, AsksKeepsInv, SucceedsKeepsInv,
     CloseKeepsInv, TimeoutKeepsInv
     DEF Next

LEMMA StutterInv ==
  ASSUME UNCHANGED vars
  PROVE  (ConnInv => ConnInv') /\ (DialogsHaveAConnection => DialogsHaveAConnection')
BY DEF vars, rfbVars, uiVars, pageVars, statusVars, ConnInv, TypeOK, ObjectTypes, PageTypes,
       ToldSoFar, ShowsItsConnection, TimersFindTheirObject, DialogsHaveAConnection,
       AlwaysAWayOn, OneWayOn, LeftForGood

-----------------------------------------------------------------------------
(* The theorems. *)

\* The invariant holds in every state the page reaches.
THEOREM Inductive == Spec => []ConnInv
<1>1. ConnInv /\ [Next]_vars => ConnInv'
  BY StepInv, StutterInv DEF Kept
<1> QED
  BY <1>1, InitInv, PTL DEF Spec

\* Every variable of the page and of its connection has its type, and an RFB
\* object has told one of the four stories it may tell.
THEOREM TypeCorrect == Spec => []TypeOK
BY Inductive, PTL DEF ConnInv

\* Where a fingerprint is ready before its connection is over, the page and
\* the object agree in every state (UI.connectFinished, disconnectFinished,
\* updateVisualState, the timers of UI and of RFB).
THEOREM PageAndObjectAgree == ~DigestIsLate => (Spec => []PageAgrees)
<1> SUFFICES ASSUME ~DigestIsLate PROVE Spec => []PageAgrees
  OBVIOUS
<1> DEFINE Both == ConnInv /\ DialogsHaveAConnection
<1>1. Init => Both
  BY InitInv
<1>2. Both /\ [Next]_vars => Both'
  BY StepInv, StutterInv DEF Kept
<1>3. Both => PageAgrees
  BY DEF ConnInv, PageAgrees
<1> HIDE DEF Both
<1> QED
  BY <1>1, <1>2, <1>3, PTL DEF Spec

\* Who has left stays away: neither a late close nor the timer that reconnects
\* makes a connection of its own (UI.inhibitReconnect, UI.cancelReconnect).
THEOREM LeaversStayAway == Spec => StaysAway
<1>1. ConnInv /\ [Next]_vars =>
        [userLeft /\ userLeft' => (state' = "connecting" => state = "connecting")]_vars
  <2> SUFFICES ASSUME ConnInv, Next, userLeft, userLeft', state' = "connecting",
                      state # "connecting"
               PROVE  FALSE
    BY DEF vars
  <2>1. ReconnectFires \/ ClickConnect
    BY DEF Next, CancelReconnect, ClickDisconnect, Leave, ApproveServer, RejectServer,
           SetCredentials, ClickStatus, SocketOpens, SocketCloses, Succeeds, Fails, Fail,
           AsksForCredentials, AsksToVerify, DigestReady, DisconnectTimesOut, StatusTimesOut,
           CloseBarTimesOut, Disconnected, rfbVars
  <2> QED
    BY <2>1 DEF ReconnectFires, ClickConnect, ConnInv, LeftForGood
<1> QED
  BY <1>1, Inductive, PTL DEF Spec, StaysAway

\* A move of the object to its end is told once.
LEMMA EndIsTold ==
  ASSUME ConnInv, NEW isClean, Disconnected(isClean), uiRfb
  PROVE  Life!Left
BY DEF Disconnected, ConnInv, ShowsItsConnection, Life!Left, Life!Tells

\* The connection tells what docs/API.md of noVNC promises: "connect" at most
\* once, then "disconnect" once, whichever of its ends comes first.
THEOREM TellsItsLife == Spec => LifeSpec
<1>1. Init => Life!LifeInit
  BY DEF Init, Life!LifeInit
<1>2. ConnInv /\ [Next]_vars => [Life!LifeNext]_(Life!life)
  <2> SUFFICES ASSUME ConnInv, [Next]_vars
               PROVE  Life!LifeNext \/ UNCHANGED <<state, told>>
    BY DEF Life!life
  <2>1. CASE ClickConnect \/ ReconnectFires
    BY <2>1 DEF ClickConnect, ReconnectFires, Connect, NewRfb, rfbVars, ConnInv, TypeOK,
                ObjectTypes, ShowsItsConnection, Life!LifeNext, Life!Created
  <2>2. CASE ClickDisconnect \/ RejectServer
    BY <2>2 DEF ClickDisconnect, RejectServer, Leave, Allowed, rfbVars, Life!LifeNext,
                Life!Leaving
  <2>3. CASE Succeeds
    BY <2>3 DEF Succeeds, Allowed, Life!LifeNext, Life!Connected, Life!Tells
  <2>4. CASE Fails
    <3>1. Disconnected(FALSE) /\ uiRfb
      BY <2>4 DEF Fails, Fail, Allowed, ConnInv, ShowsItsConnection
    <3> QED
      BY <3>1, EndIsTold DEF Life!LifeNext
  <2>5. CASE SocketCloses
    <3>1. UNCHANGED <<state, told>> \/ (Disconnected(clean') /\ uiRfb)
      BY <2>5 DEF SocketCloses, ConnInv, ShowsItsConnection
    <3> QED
      BY <3>1, EndIsTold DEF Life!LifeNext
  <2>6. CASE DisconnectTimesOut
    <3>1. UNCHANGED <<state, told>> \/ (Disconnected(clean) /\ uiRfb)
      BY <2>6 DEF DisconnectTimesOut, ConnInv, ShowsItsConnection
    <3> QED
      BY <3>1, EndIsTold DEF Life!LifeNext
  <2>7. CASE \/ CancelReconnect \/ ApproveServer \/ SetCredentials \/ ClickStatus
             \/ SocketOpens \/ AsksForCredentials \/ AsksToVerify \/ DigestReady
             \/ StatusTimesOut \/ CloseBarTimesOut \/ UNCHANGED vars
    BY <2>7 DEF CancelReconnect, ApproveServer, SetCredentials, ClickStatus, SocketOpens,
                AsksForCredentials, AsksToVerify, DigestReady, StatusTimesOut,
                CloseBarTimesOut, rfbVars, vars
  <2> QED
    BY <2>1, <2>2, <2>3, <2>4, <2>5, <2>6, <2>7 DEF Next
<1> QED
  BY <1>1, <1>2, Inductive, PTL DEF Spec, LifeSpec, Life!LifeSpec
=============================================================================
