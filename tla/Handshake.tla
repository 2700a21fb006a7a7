----------------------------- MODULE Handshake -----------------------------
(***************************************************************************)
(* The RFB handshake of the viewer (noVNC core/rfb.js, _initMsg and all it  *)
(* calls, and core/ra2.js): from the server's version to its ServerInit,    *)
(* over every security type, with a server that answers what it is sent, a  *)
(* network that cuts the stream anywhere, a user who is asked for           *)
(* credentials and to approve the server, and work done in timers and       *)
(* promises.                                                               *)
(*                                                                         *)
(* What the server sends is a sequence of items, each as long as the wait   *)
(* that precedes its reading (rQwait), so an item is whole or cut; of its   *)
(* contents only what the client's next step depends on is kept.  The       *)
(* server is external: it sends what the client's code waits for.           *)
(***************************************************************************)
EXTENDS Integers, Sequences

CONSTANTS
  Versions,          \* "3.3", "3.7", "3.8", "repeater", "other"
  Schemes,           \* security types a server offers
  Schemes33,         \* those a 3.3 server decides on
  SubAuths,          \* Tight: "empty", "noauth", "vnc", "unix", "unsupported"
  UserFields,        \* what the user's answer to a question holds
  RandomIsWhole      \* the server's RA2 random is never cut

Fields == {"username", "password", "target"}

ASSUME HandshakeAssumption ==
  /\ Versions \subseteq {"3.3", "3.7", "3.8", "repeater", "other"}
  /\ Schemes \subseteq {"None", "VNCAuth", "XVP", "ARD", "Tight", "VeNCrypt", "Plain",
                        "RA2ne", "MSLogonII", "unsupported"}
  /\ Schemes33 \subseteq Schemes
  /\ SubAuths \subseteq {"empty", "noauth", "vnc", "unix", "unsupported"}
  /\ UserFields \subseteq Fields
  /\ RandomIsWhole \in BOOLEAN

VARIABLES
  conn,              \* "connecting", "connected", or "ended"
  initState,         \* _rfbInitState
  version,           \* _rfbVersion
  scheme,            \* _rfbAuthScheme
  tightVNC,          \* _rfbTightVNC
  vencryptState,     \* _rfbVeNCryptState
  credentials,       \* the fields of _rfbCredentials that are set
  ard,               \* the ARD keys: "none", "computing", "ready"
  ra2,               \* what the RA2 promise waits for; "none" without one
  asked,             \* fields the user is being asked for
  approving,         \* the user is being asked to approve the server
  resumes,           \* timers of _resumeAuthentication
  running,           \* "no", or what called _initMsg: "message", "resume"
  queue, cut,        \* items received; whether the last is not whole yet
  owed,              \* the item the server sends next
  approved,          \* history: the user approved the server's key
  verified,          \* history: the server's RA2 hash was right
  accepted,          \* history: the server's security result was OK
  provoked           \* history: the server refused, or the user left

client == <<initState, version, scheme, tightVNC, vencryptState>>
async == <<credentials, ard, ra2, asked, approving, resumes>>
stream == <<queue, cut, owed>>
history == <<approved, verified, accepted, provoked>>
vars == <<conn, client, async, running, stream, history>>

Init ==
  /\ conn = "connecting"
  /\ initState = "ProtocolVersion"
  /\ version = "none" /\ scheme = "none"
  /\ tightVNC = FALSE /\ vencryptState = 0
  /\ credentials \in {{}, {"password"}}
  /\ ard = "none" /\ ra2 = "none"
  /\ asked = {} /\ approving = FALSE /\ resumes = 0
  /\ running = "no"
  /\ queue = <<>> /\ cut = FALSE /\ owed = "version"
  /\ approved = FALSE /\ verified = FALSE /\ accepted = FALSE /\ provoked = FALSE

-----------------------------------------------------------------------------
(* The server and the network. *)

Contents(kind) ==
  CASE kind = "version" -> Versions
    [] kind = "types" -> (Schemes \ {"Plain"}) \union {"empty"}   \* Plain is not a byte
    [] kind = "scheme" -> Schemes33 \union {"refused"}
    [] kind = "vencrypt subtypes" -> Schemes \ {"VeNCrypt"}
    [] kind = "vencrypt length" -> {"ok", "empty"}
    [] kind = "tunnels" -> {"none", "notunnel", "other"}
    [] kind = "subauth" -> SubAuths
    [] kind = "ra2 subtype" -> {"1", "2", "bad"}
    [] kind \in {"challenge", "ard", "mslogon", "reason", "serverinit"} -> {"ok"}
    [] OTHER -> {"ok", "bad"}

\* What ends the handshake by the server's doing.
Refusals == {"other", "unsupported", "empty", "refused", "bad"}
Refuses(item) ==
  item.is \in Refusals /\ ~(item.kind = "subauth" /\ item.is = "empty")

\* The first item of a security type.
FirstOf(s) ==
  CASE s = "None" -> "result"
    [] s = "VNCAuth" -> "challenge"
    [] s = "ARD" -> "ard"
    [] s = "Tight" -> "tunnels"
    [] s = "VeNCrypt" -> "vencrypt version"
    [] s = "RA2ne" -> "ra2 key"
    [] s = "MSLogonII" -> "mslogon"
    [] OTHER -> "nothing"

\* What the server sends after an item without waiting for an answer.
Follows(item) ==
  CASE item.kind = "types" /\ item.is = "empty" -> "reason"
    [] item.kind = "scheme" /\ item.is = "refused" -> "reason"
    [] item.kind = "scheme" /\ item.is \notin {"None", "refused"} -> FirstOf(item.is)
    [] item.kind = "result" /\ item.is = "bad" /\ version = "3.8" -> "reason"
    [] item.kind = "vencrypt ack" /\ item.is = "ok" -> "vencrypt length"
    [] item.kind = "vencrypt length" /\ item.is = "ok" -> "vencrypt subtypes"
    [] item.kind = "tunnels" /\ item.is = "none" -> "subauth"
    [] item.kind = "subauth" /\ item.is = "empty" -> "result"
    [] item.kind = "ra2 hash" -> "ra2 subtype"   \* an impostor goes on too
    [] OTHER -> "nothing"

\* Behind a repeater is the server's own version.
ItemsOf(kind) ==
  IF kind = "server version"
  THEN {[kind |-> "version", is |-> c] : c \in Versions \ {"repeater"}}
  ELSE {[kind |-> kind, is |-> c] : c \in Contents(kind)}

\* A web socket message ends an item, holds a whole one or the first part of
\* one, or the whole of one and of the next that follows without an answer.
Message(items, isCut, next) ==
  /\ queue' = queue \o items
  /\ cut' = isCut
  /\ owed' = next
  /\ provoked' = (provoked \/ \E k \in 1 .. Len(items) : Refuses(items[k]))
  /\ running' = "message"
  /\ UNCHANGED <<conn, client, async, approved, verified, accepted>>

Listening == running = "no" /\ conn = "connecting"

Arrive ==
  /\ Listening /\ ~cut /\ owed # "nothing"
  /\ \E item \in ItemsOf(owed) :
       \/ Message(<<item>>, FALSE, Follows(item))
       \/ /\ item.kind = "ra2 random" => ~RandomIsWhole
          /\ Message(<<item>>, TRUE, Follows(item))
       \/ /\ Follows(item) # "nothing"
          /\ \E second \in ItemsOf(Follows(item)) :
               Message(<<item, second>>, FALSE, Follows(second))

ArriveRest == Listening /\ cut /\ Message(<<>>, FALSE, owed)

-----------------------------------------------------------------------------
(* One call of _initMsg. *)

Calling(state) == running # "no" /\ initState = state
Authenticating(s) == Calling("Authentication") /\ scheme = s

\* The loop of _handleMessage goes on as long as _initMsg returns true; a
\* timer calls it once.
Return(more) == running' = IF more /\ running = "message" THEN "message" ELSE "no"

Whole == Len(queue) > 1 \/ (Len(queue) = 1 /\ ~cut)
Has(kind) == Whole /\ Head(queue).kind = kind
Take == queue' = Tail(queue) /\ UNCHANGED cut
Awaits == ~Whole /\ Return(FALSE) /\ UNCHANGED <<conn, client, async, stream, history>>

Sends(answer) == owed' = answer
Fail == conn' = "ended" /\ Return(FALSE)

\* An item is taken and the handshake goes to another state.
Goes(state, more) == initState' = state /\ Return(more) /\ UNCHANGED conn

NegotiateProtocolVersion ==
  /\ Calling("ProtocolVersion")
  /\ \/ Awaits
     \/ /\ Has("version")
        /\ Take
        /\ CASE Head(queue).is = "repeater" ->
                  Sends("server version") /\ Return(TRUE) /\ UNCHANGED <<conn, initState, version>>
             [] Head(queue).is = "other" ->
                  Fail /\ UNCHANGED <<owed, initState, version>>
             [] OTHER ->
                  /\ version' = Head(queue).is
                  /\ Sends(IF Head(queue).is = "3.3" THEN "scheme" ELSE "types")
                  /\ Goes("Security", FALSE)
        /\ UNCHANGED <<scheme, tightVNC, vencryptState, async, history>>

\* The code fails on a type it does not know where the server lists types;
\* where the server decides, it fails when it is about to authenticate.
NegotiateSecurity ==
  /\ Calling("Security")
  /\ \/ Awaits
     \/ /\ Has(IF version = "3.3" THEN "scheme" ELSE "types")
        /\ Take
        /\ LET is == Head(queue).is IN
           CASE is \in {"empty", "refused"} ->
                  Goes("SecurityReason", TRUE) /\ UNCHANGED <<scheme, owed>>
             [] is = "unsupported" /\ version # "3.3" ->
                  Fail /\ UNCHANGED <<initState, scheme, owed>>
             [] OTHER ->
                  /\ scheme' = is
                  /\ IF version = "3.3" THEN UNCHANGED owed ELSE Sends(FirstOf(is))
                  /\ Goes("Authentication", TRUE)
        /\ UNCHANGED <<version, tightVNC, vencryptState, async, history>>

HandleSecurityReason ==
  /\ Calling("SecurityReason")
  /\ \/ Awaits
     \/ /\ Has("reason")
        /\ Take /\ Fail
        /\ UNCHANGED <<client, async, owed, history>>

\* Dispatches credentialsrequired and waits for sendCredentials.
Ask(fields) == asked' = fields /\ UNCHANGED <<credentials, ard, ra2, approving, resumes>>
Asks(fields) ==
  /\ ~(fields \subseteq credentials)
  /\ Ask(fields)
  /\ Return(FALSE)
  /\ UNCHANGED <<conn, client, stream, history>>
Knows(fields) == fields \subseteq credentials

AuthNone ==
  /\ Authenticating("None")
  /\ Goes("SecurityResult", TRUE)
  /\ UNCHANGED <<version, scheme, tightVNC, vencryptState, async, stream, history>>

AuthUnsupported ==
  /\ Authenticating("unsupported")
  /\ Fail
  /\ UNCHANGED <<client, async, stream, history>>

\* The challenge is only taken once the password is known.
NegotiateStdVNCAuth ==
  /\ Authenticating("VNCAuth")
  /\ \/ Awaits
     \/ Has("challenge") /\ Asks({"password"})
     \/ /\ Has("challenge") /\ Knows({"password"})
        /\ Take
        /\ Sends(IF version = "3.3" THEN "nothing" ELSE "result")
        /\ Goes("SecurityResult", TRUE)
        /\ UNCHANGED <<version, scheme, tightVNC, vencryptState, async, history>>

NegotiateMSLogonIIAuth ==
  /\ Authenticating("MSLogonII")
  /\ \/ Awaits
     \/ Has("mslogon") /\ Asks({"username", "password"})
     \/ /\ Has("mslogon") /\ Knows({"username", "password"})
        /\ Take /\ Sends("result")
        /\ Goes("SecurityResult", TRUE)
        /\ UNCHANGED <<version, scheme, tightVNC, vencryptState, async, history>>

\* Goes on as VNCAuth, whose challenge cannot be there yet.
NegotiateXvpAuth ==
  /\ Authenticating("XVP")
  /\ \/ Asks(Fields)
     \/ /\ Knows(Fields)
        /\ scheme' = "VNCAuth"
        /\ Sends("challenge")
        /\ Return(FALSE)
        /\ UNCHANGED <<conn, initState, version, tightVNC, vencryptState, async, queue, cut,
                       history>>

NegotiatePlainAuth ==
  /\ Authenticating("Plain")
  /\ \/ Asks({"username", "password"})
     \/ /\ Knows({"username", "password"})
        /\ Sends("result")
        /\ Goes("SecurityResult", TRUE)
        /\ UNCHANGED <<version, scheme, tightVNC, vencryptState, async, queue, cut, history>>

NegotiateTightUnixAuth ==
  /\ Authenticating("UnixLogon")
  /\ \/ Asks({"username", "password"})
     \/ /\ Knows({"username", "password"})
        /\ Sends("result")
        /\ Goes("SecurityResult", TRUE)
        /\ UNCHANGED <<version, scheme, tightVNC, vencryptState, async, queue, cut, history>>

\* The keys are computed in a promise, which resumes the handshake.
NegotiateARDAuth ==
  /\ Authenticating("ARD")
  /\ \/ Asks({"username", "password"})
     \/ /\ Knows({"username", "password"}) /\ ard = "ready"
        /\ ard' = "none"
        /\ Sends("result")
        /\ Goes("SecurityResult", TRUE)
        /\ UNCHANGED <<version, scheme, tightVNC, vencryptState, credentials, ra2, asked,
                       approving, resumes, queue, cut, history>>
     \/ Knows({"username", "password"}) /\ ard # "ready" /\ Awaits
     \/ /\ Knows({"username", "password"}) /\ ard # "ready" /\ Has("ard")
        /\ Take
        /\ ard' = "computing"
        /\ Return(FALSE)
        /\ UNCHANGED <<conn, client, credentials, ra2, asked, approving, resumes, owed,
                       history>>

NegotiateARDAuthAsync ==
  /\ running = "no" /\ ard = "computing"
  /\ ard' = "ready"
  /\ resumes' = resumes + 1
  /\ UNCHANGED <<conn, client, credentials, ra2, asked, approving, running, stream, history>>

NegotiateVeNCryptAuth ==
  /\ Authenticating("VeNCrypt")
  /\ \/ Awaits
     \/ /\ Has("vencrypt version") /\ vencryptState = 0
        /\ Take
        /\ IF Head(queue).is = "bad" THEN Fail /\ UNCHANGED <<vencryptState, owed>>
           ELSE /\ vencryptState' = 1 /\ Sends("vencrypt ack")
                /\ UNCHANGED <<conn, running>>       \* falls through
        /\ UNCHANGED <<initState, version, scheme, tightVNC, async, history>>
     \/ /\ Has("vencrypt ack") /\ vencryptState = 1
        /\ Take
        /\ IF Head(queue).is = "bad" THEN Fail /\ UNCHANGED vencryptState
           ELSE vencryptState' = 2 /\ UNCHANGED <<conn, running>>
        /\ UNCHANGED <<initState, version, scheme, tightVNC, async, owed, history>>
     \/ /\ Has("vencrypt length") /\ vencryptState = 2
        /\ Take
        /\ IF Head(queue).is = "empty" THEN Fail /\ UNCHANGED vencryptState
           ELSE vencryptState' = 3 /\ UNCHANGED <<conn, running>>
        /\ UNCHANGED <<initState, version, scheme, tightVNC, async, owed, history>>
     \/ /\ Has("vencrypt subtypes") /\ vencryptState = 3
        /\ Take
        /\ IF Head(queue).is = "unsupported"
           THEN Fail /\ UNCHANGED <<scheme, owed>>
           ELSE /\ scheme' = Head(queue).is
                /\ Sends(FirstOf(Head(queue).is))
                /\ Return(TRUE) /\ UNCHANGED conn
        /\ UNCHANGED <<initState, version, tightVNC, vencryptState, async, history>>

NegotiateTightTunnels ==
  /\ Authenticating("Tight") /\ ~tightVNC
  /\ \/ Awaits
     \/ /\ Has("tunnels")
        /\ Take
        /\ tightVNC' = TRUE
        /\ CASE Head(queue).is = "other" -> Fail /\ UNCHANGED owed
             [] Head(queue).is = "notunnel" ->
                  Sends("subauth") /\ Return(FALSE) /\ UNCHANGED conn
             [] OTHER -> UNCHANGED <<conn, running, owed>>        \* goes on in the same call
        /\ UNCHANGED <<initState, version, scheme, vencryptState, async, history>>

NegotiateTightSubAuth ==
  /\ Authenticating("Tight") /\ tightVNC
  /\ \/ Awaits
     \/ /\ Has("subauth")
        /\ Take
        /\ LET is == Head(queue).is IN
           CASE is = "empty" -> Goes("SecurityResult", TRUE) /\ UNCHANGED <<scheme, owed>>
             [] is = "noauth" ->
                  Goes("SecurityResult", TRUE) /\ Sends("result") /\ UNCHANGED scheme
             [] is = "vnc" ->
                  Goes(initState, TRUE) /\ scheme' = "VNCAuth" /\ Sends("challenge")
             [] is = "unix" ->
                  Goes(initState, TRUE) /\ scheme' = "UnixLogon" /\ Sends("nothing")
             [] OTHER -> Fail /\ UNCHANGED <<initState, scheme, owed>>
        /\ UNCHANGED <<version, tightVNC, vencryptState, async, history>>

\* fault: the status is not looked at
AnyResultWillDo ==
  /\ Calling("SecurityResult")
  /\ version = "3.3" \/ Whole
  /\ IF version = "3.3" THEN UNCHANGED <<queue, cut, accepted>>
     ELSE Take /\ accepted' = (Head(queue).is = "ok")
  /\ Goes("ClientInitialisation", TRUE)
  /\ UNCHANGED <<version, scheme, tightVNC, vencryptState, async, owed, approved, verified,
                 provoked>>

HandleSecurityResult ==
  /\ Calling("SecurityResult")
  /\ \/ version # "3.3" /\ Awaits
     \/ /\ version = "3.3"
        /\ Goes("ClientInitialisation", TRUE)
        /\ UNCHANGED <<version, scheme, tightVNC, vencryptState, async, stream, history>>
     \/ /\ version # "3.3" /\ Has("result")
        /\ Take
        /\ accepted' = (Head(queue).is = "ok")
        /\ CASE Head(queue).is = "ok" -> Goes("ClientInitialisation", TRUE)
             [] version = "3.8" /\ Head(queue).is = "bad" -> Goes("SecurityReason", TRUE)
             [] OTHER -> Fail /\ UNCHANGED initState
        /\ UNCHANGED <<version, scheme, tightVNC, vencryptState, async, owed, approved,
                       verified, provoked>>

ClientInitialisation ==
  /\ Calling("ClientInitialisation")
  /\ Goes("ServerInitialisation", TRUE)
  /\ Sends("serverinit")
  /\ UNCHANGED <<version, scheme, tightVNC, vencryptState, async, queue, cut, history>>

NegotiateServerInit ==
  /\ Calling("ServerInitialisation")
  /\ \/ Awaits
     \/ /\ Has("serverinit")
        /\ Take
        /\ conn' = IF conn = "connecting" THEN "connected" ELSE conn
        /\ Return(FALSE)
        /\ UNCHANGED <<client, async, owed, history>>

-----------------------------------------------------------------------------
(* RA2: negotiateRA2neAuthAsync.  _initMsg starts it and returns; a message  *)
(* that completes what it waits for lets it go on.                          *)

Ra2Asks == {"1", "2"}
Ra2Needs(subtype) == IF subtype = "1" THEN {"username", "password"} ELSE {"password"}

\* checkInternalEvents wakes a promise that waits for credentials.
NegotiateRA2neAuth ==
  /\ Authenticating("RA2ne")
  /\ ra2' = CASE ra2 = "none" -> "key"
              [] ra2 \in Ra2Asks /\ Knows(Ra2Needs(ra2)) -> "answered"
              [] OTHER -> ra2
  /\ Return(FALSE)
  /\ UNCHANGED <<conn, client, credentials, ard, asked, approving, resumes, stream, history>>

\* fault: the state is left to the caller, which returned long ago
Ra2EndsWithoutState(fails) ==
  /\ ra2' = "none"
  /\ UNCHANGED initState
  /\ conn' = IF fails /\ conn # "connected" THEN "ended" ELSE conn

\* The catch fails the connection; the then after it runs in any case.
Ra2Ends(fails) ==
  /\ ra2' = "none"
  /\ initState' = "SecurityResult"
  /\ conn' = IF fails /\ conn # "connected" THEN "ended" ELSE conn

Ra2Goes(to) == ra2' = to /\ UNCHANGED <<conn, initState>>
Ra2Step(from) == running = "no" /\ conn = "connecting" /\ ra2 = from
Ra2Same == UNCHANGED <<version, scheme, tightVNC, vencryptState, ard, resumes, running, cut>>

Ra2Key ==
  /\ Ra2Step("key") /\ Has("ra2 key")
  /\ Take
  /\ IF Head(queue).is = "bad" THEN Ra2Ends(TRUE) /\ UNCHANGED approving
     ELSE Ra2Goes("approve") /\ approving' = TRUE
  /\ UNCHANGED <<credentials, asked, owed, history>> /\ Ra2Same

ApproveServer ==
  /\ Ra2Step("approve") /\ approving
  /\ approving' = FALSE
  /\ approved' = TRUE
  /\ Sends("ra2 random")
  /\ Ra2Goes("random")
  /\ UNCHANGED <<credentials, asked, queue, verified, accepted, provoked>> /\ Ra2Same

\* Only the length is waited for: of a random that is cut the rest is read
\* from beyond the queue and does not decrypt.
Ra2Random ==
  /\ Ra2Step("random") /\ queue # <<>> /\ Head(queue).kind = "ra2 random"
  /\ Take
  /\ IF Head(queue).is = "bad" \/ ~Whole THEN Ra2Ends(TRUE) /\ UNCHANGED owed
     ELSE Ra2Goes("hash") /\ Sends("ra2 hash")
  /\ UNCHANGED <<credentials, asked, approving, history>> /\ Ra2Same

\* fault: the hash is read and not compared
Ra2HashUnchecked ==
  /\ Ra2Step("hash") /\ Has("ra2 hash")
  /\ Take
  /\ verified' = (Head(queue).is = "ok")
  /\ Ra2Goes("subtype")
  /\ UNCHANGED <<credentials, asked, approving, owed, approved, accepted, provoked>> /\ Ra2Same

Ra2Hash ==
  /\ Ra2Step("hash") /\ Has("ra2 hash")
  /\ Take
  /\ verified' = (Head(queue).is = "ok")
  /\ IF Head(queue).is = "bad" THEN Ra2Ends(TRUE) ELSE Ra2Goes("subtype")
  /\ UNCHANGED <<credentials, asked, approving, owed, approved, accepted, provoked>> /\ Ra2Same

Ra2Subtype ==
  /\ Ra2Step("subtype") /\ Has("ra2 subtype")
  /\ Take
  /\ IF Head(queue).is = "bad"
     THEN Ra2Ends(TRUE) /\ UNCHANGED asked
     ELSE IF Knows(Ra2Needs(Head(queue).is))
     THEN Ra2Goes("answered") /\ UNCHANGED asked
     ELSE Ra2Goes(Head(queue).is) /\ asked' = Ra2Needs(Head(queue).is)
  /\ UNCHANGED <<credentials, approving, owed, history>> /\ Ra2Same

Ra2Credentials ==
  /\ Ra2Step("answered")
  /\ Sends("result")
  /\ Ra2Ends(FALSE)
  /\ UNCHANGED <<credentials, asked, approving, queue, history>> /\ Ra2Same

-----------------------------------------------------------------------------
(* The user and the timers. *)

\* fault: the dialog can be answered again
SendCredentialsAgain ==
  /\ running = "no" /\ asked # {}
  /\ credentials' = UserFields
  /\ resumes' = resumes + 1
  /\ UNCHANGED <<conn, client, ard, ra2, asked, approving, running, stream, history>>

\* fault: nothing resumes the handshake
SendCredentialsOnly ==
  /\ running = "no" /\ asked # {}
  /\ credentials' = UserFields
  /\ asked' = {}
  /\ UNCHANGED <<conn, client, ard, ra2, approving, resumes, running, stream, history>>

SendCredentials ==
  /\ running = "no" /\ asked # {}
  /\ credentials' = UserFields
  /\ asked' = {}
  /\ resumes' = resumes + 1
  /\ UNCHANGED <<conn, client, ard, ra2, approving, running, stream, history>>

\* The timer does not look at the connection's state.
ResumeAuthentication ==
  /\ running = "no" /\ resumes > 0
  /\ resumes' = resumes - 1
  /\ running' = "resume"
  /\ UNCHANGED <<conn, client, credentials, ard, ra2, asked, approving, stream, history>>

\* disconnect(): a pending RA2 promise is rejected, which sets the state.
Disconnect ==
  /\ running = "no" /\ conn = "connecting"
  /\ conn' = "ended"
  /\ provoked' = TRUE
  /\ approving' = FALSE
  /\ initState' = IF ra2 = "none" THEN initState ELSE "SecurityResult"
  /\ ra2' = "none"
  /\ UNCHANGED <<version, scheme, tightVNC, vencryptState, credentials, ard, asked, resumes,
                 running, stream, approved, verified, accepted>>

InitMsg ==
  \/ NegotiateProtocolVersion \/ NegotiateSecurity \/ HandleSecurityReason
  \/ AuthNone \/ AuthUnsupported
  \/ NegotiateStdVNCAuth \/ NegotiateMSLogonIIAuth \/ NegotiateXvpAuth
  \/ NegotiatePlainAuth \/ NegotiateTightUnixAuth \/ NegotiateARDAuth
  \/ NegotiateVeNCryptAuth \/ NegotiateTightTunnels \/ NegotiateTightSubAuth
  \/ NegotiateRA2neAuth
  \/ HandleSecurityResult \/ ClientInitialisation \/ NegotiateServerInit

Promises ==
  \/ NegotiateARDAuthAsync
  \/ Ra2Key \/ Ra2Random \/ Ra2Hash \/ Ra2Subtype \/ Ra2Credentials

User == SendCredentials \/ ApproveServer

HandshakeNext ==
  \/ Arrive \/ ArriveRest
  \/ InitMsg \/ Promises
  \/ User \/ Disconnect
  \/ ResumeAuthentication

\* The browser runs what it has started, the server answers, the user too.
Fairness ==
  /\ WF_vars(InitMsg) /\ WF_vars(Promises) /\ WF_vars(ResumeAuthentication)
  /\ WF_vars(Arrive) /\ WF_vars(ArriveRest)
  /\ WF_vars(User)

Spec == Init /\ [][HandshakeNext]_vars /\ Fairness

-----------------------------------------------------------------------------
(* Properties. *)

Kinds ==
  {"version", "server version", "types", "scheme", "challenge", "ard", "mslogon", "tunnels", "subauth",
   "vencrypt version", "vencrypt ack", "vencrypt length", "vencrypt subtypes",
   "ra2 key", "ra2 random", "ra2 hash", "ra2 subtype", "result", "reason", "serverinit"}

InitStates ==
  {"ProtocolVersion", "Security", "Authentication", "SecurityResult", "SecurityReason",
   "ClientInitialisation", "ServerInitialisation"}

TypeOK ==
  /\ conn \in {"connecting", "connected", "ended"}
  /\ initState \in InitStates
  /\ version \in {"none", "3.3", "3.7", "3.8"}
  /\ scheme \in Schemes \union {"none", "VNCAuth", "UnixLogon"}
  /\ tightVNC \in BOOLEAN /\ vencryptState \in 0 .. 3
  /\ credentials \subseteq Fields
  /\ ard \in {"none", "computing", "ready"}
  /\ ra2 \in {"none", "key", "approve", "random", "hash", "subtype", "answered"}
             \union Ra2Asks
  /\ asked \subseteq Fields /\ approving \in BOOLEAN
  /\ resumes \in 0 .. 2
  /\ running \in {"no", "message", "resume"}
  /\ \A k \in 1 .. Len(queue) : queue[k].kind \in Kinds
  /\ Len(queue) <= 2 /\ cut \in BOOLEAN
  /\ owed \in Kinds \union {"nothing"}
  /\ history \in [1 .. 4 -> BOOLEAN]

\* What the code reads next, by its own state (_initMsg, ra2.js).
Ra2Reads ==
  CASE ra2 \in {"none", "key"} -> "ra2 key"
    [] ra2 = "random" -> "ra2 random"
    [] ra2 = "hash" -> "ra2 hash"
    [] ra2 = "subtype" -> "ra2 subtype"
    [] OTHER -> "nothing"

VeNCryptReads ==
  CASE vencryptState = 0 -> "vencrypt version" [] vencryptState = 1 -> "vencrypt ack"
    [] vencryptState = 2 -> "vencrypt length" [] OTHER -> "vencrypt subtypes"

Reads ==
  CASE initState = "ProtocolVersion" -> "version"
    [] initState = "Security" -> IF version = "3.3" THEN "scheme" ELSE "types"
    [] initState = "SecurityReason" -> "reason"
    [] initState = "SecurityResult" -> "result"
    [] initState = "Authentication" ->
         (CASE scheme = "RA2ne" -> Ra2Reads
            [] scheme = "VeNCrypt" -> VeNCryptReads
            [] scheme = "Tight" -> IF tightVNC THEN "subauth" ELSE "tunnels"
            [] OTHER -> FirstOf(scheme))
    [] OTHER -> "serverinit"

\* However the stream is cut, and whatever timer or promise runs, the client
\* reads an item as what the server sent it as.
InStep == conn = "connecting" /\ queue # <<>> => Head(queue).kind = Reads

\* The client gives up only on a server that refused or a user who left.
GivesUpForAReason == conn = "ended" => provoked

\* A session starts only after a security result that was OK; version 3.3 has
\* none (_handleSecurityResult).
ConnectedIsAccepted == conn = "connected" => accepted \/ version = "3.3"

\* Each end of the handshake has its reason.
OutcomeIsJustified == GivesUpForAReason /\ ConnectedIsAccepted

\* RA2: credentials leave the browser only after the user approved the server's
\* key and the server's hash was right (ra2.js), and the promise that sends
\* them is the last to go on.
Ra2SecretIsGuarded ==
  [][(ra2 = "answered" /\ ra2' = "none" /\ owed' = "result") => approved /\ verified]_vars

\* No question stays open with nothing to answer: the handshake ends, connected
\* or not, when server and user answer (no wake-up is lost to a cut stream, a
\* timer or a promise).
HandshakeEnds == <>(conn # "connecting")
=============================================================================
