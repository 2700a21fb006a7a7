--------------------------- MODULE HandshakeProofs ---------------------------
(***************************************************************************)
(* The handshake stays in step with the server, ends only for a reason, and *)
(* guards the RA2 credentials, for every set of versions, security types    *)
(* and answers of the user.  What a server of version 3.3 decides on is     *)
(* limited to what that version of the protocol has (Rfb33): the code sends *)
(* the answers of the other types and reads no result of them.              *)
(***************************************************************************)
EXTENDS Handshake, SequenceTheorems, TLAPS

Rfb33 == Schemes33 \subseteq {"None", "VNCAuth", "unsupported"}

Items == UNION {ItemsOf(kind) : kind \in Kinds}

\* What the server sends after an item, in version v.
FollowsIn(v, item) ==
  CASE item.kind = "types" /\ item.is = "empty" -> "reason"
    [] item.kind = "scheme" /\ item.is = "refused" -> "reason"
    [] item.kind = "scheme" /\ item.is \notin {"None", "refused"} -> FirstOf(item.is)
    [] item.kind = "result" /\ item.is = "bad" /\ v = "3.8" -> "reason"
    [] item.kind = "vencrypt ack" /\ item.is = "ok" -> "vencrypt length"
    [] item.kind = "vencrypt length" /\ item.is = "ok" -> "vencrypt subtypes"
    [] item.kind = "tunnels" /\ item.is = "none" -> "subauth"
    [] item.kind = "subauth" /\ item.is = "empty" -> "result"
    [] item.kind = "ra2 hash" -> "ra2 subtype"
    [] OTHER -> "nothing"

AsRead(kind) == IF kind = "server version" THEN "version" ELSE kind

LEMMA FollowsInItsVersion == ASSUME NEW item PROVE Follows(item) = FollowsIn(version, item)
BY DEF Follows, FollowsIn

LEMMA FirstIsAKind ==
  ASSUME NEW s
  PROVE  FirstOf(s) \in (Kinds \ {"version", "server version"}) \union {"nothing"}
BY DEF FirstOf, Kinds

LEMMA FollowsIsAKind ==
  ASSUME NEW v, NEW item
  PROVE  FollowsIn(v, item) \in (Kinds \ {"version", "server version"}) \union {"nothing"}
BY FirstIsAKind DEF FollowsIn, Kinds

LEMMA ItemOfKind ==
  ASSUME NEW kind \in Kinds, NEW item \in ItemsOf(kind)
  PROVE  /\ item \in Items /\ item.kind = AsRead(kind)
         /\ item.kind \in Kinds \ {"server version"}
         /\ item.is \in Contents(item.kind)
<1>1. item \in Items
  BY DEF Items
<1>2. CASE kind = "server version"
  <2>1. PICK c \in Versions \ {"repeater"} : item = [kind |-> "version", is |-> c]
    BY <1>2 DEF ItemsOf
  <2>2. Contents("version") = Versions
    BY DEF Contents
  <2> QED
    BY <1>1, <1>2, <2>1, <2>2 DEF AsRead, Kinds
<1>3. CASE kind # "server version"
  <2>1. PICK c \in Contents(kind) : item = [kind |-> kind, is |-> c]
    BY <1>3 DEF ItemsOf
  <2> QED
    BY <1>1, <1>3, <2>1 DEF AsRead
<1> QED
  BY <1>2, <1>3

LEMMA ItemFacts ==
  ASSUME NEW item \in Items
  PROVE  item.kind \in Kinds \ {"server version"} /\ item.is \in Contents(item.kind)
<1>1. PICK kind \in Kinds : item \in ItemsOf(kind)
  BY DEF Items
<1> QED
  BY <1>1, ItemOfKind

(***************************************************************************)
(* The stream: an item that is waiting is what the client reads next, a     *)
(* second one is what the server sends after it unasked, and what is owed   *)
(* follows the last one; with nothing waiting, the server owes at most what *)
(* the client reads next.                                                   *)
(***************************************************************************)
Chained(q, o, v, reads) ==
  /\ q = <<>> => AsRead(o) \in {"nothing", reads}
  /\ q # <<>> => q[1].kind = reads /\ o = FollowsIn(v, q[Len(q)])
  /\ Len(q) = 2 => q[2].kind = FollowsIn(v, q[1])

LEMMA Taken ==
  ASSUME NEW q \in Seq(Items), Len(q) <= 2, q # <<>>, NEW o, NEW v, NEW reads,
         Chained(q, o, v, reads)
  PROVE  /\ Tail(q) \in Seq(Items) /\ Len(Tail(q)) = Len(q) - 1
         /\ FollowsIn(v, q[1]) = "nothing" => Tail(q) = <<>> /\ o = "nothing"
         /\ FollowsIn(v, q[1]) # "nothing" => Chained(Tail(q), o, v, FollowsIn(v, q[1]))
<1> DEFINE f == FollowsIn(v, q[1])
<1>1. Tail(q) \in Seq(Items) /\ Len(Tail(q)) = Len(q) - 1
  OBVIOUS
<1>2. f \in (Kinds \ {"version", "server version"}) \union {"nothing"}
  BY FollowsIsAKind
<1>3. CASE Len(q) = 1
  <2>1. Tail(q) = <<>>
    <3> DEFINE rest == Tail(q)
    <3>1. rest \in Seq(Items) /\ Len(rest) = 0
      BY <1>1, <1>3
    <3> HIDE DEF rest
    <3>2. rest = <<>>
      BY <3>1, EmptySeq
    <3> QED
      BY <3>2 DEF rest
  <2>2. o = f
    BY <1>3 DEF Chained
  <2>3. Chained(<<>>, f, v, f)
    <3> HIDE DEF f
    <3>1. AsRead(f) = f
      BY <1>2 DEF AsRead
    <3>2. Len(<<>>) # 2
      OBVIOUS
    <3> QED
      BY <3>1, <3>2 DEF Chained
  <2> QED
    BY <1>1, <2>1, <2>2, <2>3
<1>4. CASE Len(q) = 2
  <2>1. q[2] \in Items /\ Tail(q)[1] = q[2] /\ Len(Tail(q)) = 1 /\ Tail(q) # <<>>
    BY <1>1, <1>4
  <2>3. q[2].kind = f /\ o = FollowsIn(v, q[2])
    BY <1>4 DEF Chained
  <2>2. f # "nothing"
    BY <2>1, <2>3, ItemFacts DEF Kinds
  <2> HIDE DEF f
  <2> QED
    BY <1>1, <2>1, <2>2, <2>3 DEF Chained, f
<1> QED
  BY <1>1, <1>3, <1>4

-----------------------------------------------------------------------------
(* The inductive invariant. *)

Types ==
  /\ conn \in {"connecting", "connected", "ended"}
  /\ initState \in InitStates
  /\ version \in {"none", "3.3", "3.7", "3.8"}
  /\ scheme \in Schemes \union {"none", "VNCAuth", "UnixLogon"}
  /\ tightVNC \in BOOLEAN /\ vencryptState \in 0 .. 3
  /\ credentials \subseteq Fields
  /\ ard \in {"none", "computing", "ready"}
  /\ ra2 \in {"none", "key", "approve", "random", "hash", "subtype", "answered"}
             \union Ra2Asks
  /\ asked \subseteq Fields /\ approving \in BOOLEAN
  /\ resumes \in Nat
  /\ running \in {"no", "message", "resume"}
  /\ owed \in Kinds \union {"nothing"}
  /\ approved \in BOOLEAN /\ verified \in BOOLEAN /\ accepted \in BOOLEAN
  /\ provoked \in BOOLEAN

QueueOK ==
  /\ queue \in Seq(Items) /\ Len(queue) <= 2
  /\ cut \in BOOLEAN /\ (conn = "connecting" /\ cut => queue # <<>>)

\* What the client reads next, or "nothing" where it reads no more before it
\* has written: version 3.3 has no result.
Expected ==
  IF \/ initState = "ClientInitialisation"
     \/ version = "3.3" /\ initState = "SecurityResult"
     \/ version = "3.3" /\ initState = "Authentication" /\ scheme = "None"
  THEN "nothing" ELSE Reads

InOrder == conn = "connecting" => Chained(queue, owed, version, Expected)

\* Nothing whole is left behind but what waits for the user or a promise.
LeftFor == {"VNCAuth", "MSLogonII", "ARD", "RA2ne"}
Consumed ==
  conn = "connecting" /\ running # "message" /\ Whole =>
    initState = "Authentication" /\ scheme \in LeftFor

\* Timers and questions come from the security types that ask, and last.
Asking == LeftFor \union {"XVP", "Plain", "UnixLogon"}
Later == {"SecurityResult", "SecurityReason", "ClientInitialisation", "ServerInitialisation"}
TimersAreOfAnAnswer ==
  resumes > 0 \/ running = "resume" \/ asked # {} =>
    initState \in Later \/ (initState = "Authentication" /\ scheme \in Asking)

Stages ==
  /\ initState = "ProtocolVersion" <=> version = "none"
  /\ initState \in {"ProtocolVersion", "Security"} =>
       scheme = "none" /\ ~tightVNC /\ vencryptState = 0
  /\ version = "3.3" => scheme \in Schemes33 \union {"none"}
  /\ tightVNC => scheme \in {"Tight", "VNCAuth", "UnixLogon"}
  /\ conn = "connected" => initState = "ServerInitialisation"
  /\ running = "message" => conn = "connecting"

\* The promise of RA2 lives as long as its security type is being negotiated,
\* and the keys of ARD are computed when nothing more is to be read.
PromisesAreOfTheirType ==
  /\ ra2 # "none" => initState = "Authentication" /\ scheme = "RA2ne" /\ conn = "connecting"
  /\ initState = "Authentication" /\ scheme = "RA2ne" =>
       conn = "connecting" /\ (ra2 = "none" => running = "message")
  /\ initState = "Authentication" /\ scheme = "ARD" => Len(queue) <= 1
  /\ ard # "none" =>
       /\ initState = "Authentication" /\ scheme = "ARD" /\ queue = <<>>
       /\ conn = "connecting" => owed = "nothing"

StepInv ==
  /\ Types /\ QueueOK /\ InOrder /\ Consumed
  /\ TimersAreOfAnAnswer /\ Stages /\ PromisesAreOfTheirType

LEMMA InitStep == Init => StepInv
<1> SUFFICES ASSUME Init PROVE StepInv
  OBVIOUS
<1>1. Types
  <2>1. credentials \subseteq Fields /\ asked \subseteq Fields
    BY DEF Init, Fields
  <2>2. initState \in InitStates /\ owed \in Kinds
    BY DEF Init, InitStates, Kinds
  <2> QED
    <3>1. scheme = "none" /\ approved \in BOOLEAN /\ verified \in BOOLEAN
          /\ accepted \in BOOLEAN /\ provoked \in BOOLEAN /\ tightVNC \in BOOLEAN
          /\ approving \in BOOLEAN /\ resumes \in Nat
      BY DEF Init
    <3> QED
      BY <2>1, <2>2, <3>1 DEF Init, Types
<1>2. QueueOK /\ ~Whole
  <2>1. queue = <<>> /\ Len(queue) = 0 /\ queue \in Seq(Items)
    BY EmptySeq DEF Init
  <2>2. ~cut /\ cut \in BOOLEAN
    BY DEF Init
  <2>3. QueueOK
    BY <2>1, <2>2 DEF QueueOK
  <2> QED
    BY <2>1, <2>3 DEF Whole
<1>3. InOrder
  BY DEF Init, InOrder, Chained, Expected, Reads, AsRead
<1>4. TimersAreOfAnAnswer /\ Stages /\ PromisesAreOfTheirType
  BY DEF Init, TimersAreOfAnAnswer, Stages, PromisesAreOfTheirType
<1> QED
  BY <1>1, <1>2, <1>3, <1>4 DEF StepInv, Consumed

\* The queue is left alone.
LEMMA StreamStays ==
  ASSUME StepInv, UNCHANGED <<queue, cut>>,
         conn' = "connecting" =>
           /\ conn = "connecting" /\ version' = version
           /\ \/ Expected' = Expected /\ owed' = owed
              \/ queue = <<>> /\ AsRead(owed') \in {"nothing", Expected'}
  PROVE  QueueOK' /\ InOrder'
<1>1. QueueOK'
  BY DEF StepInv, QueueOK
<1>2. InOrder'
  BY DEF StepInv, InOrder, Chained
<1> QED
  BY <1>1, <1>2

\* The first item is taken.
LEMMA StreamIsTaken ==
  ASSUME StepInv, Whole, Take, NEW f, f = FollowsIn(version, Head(queue)),
         conn' = "connecting" =>
           /\ conn = "connecting"
           /\ f = "nothing" => AsRead(owed') \in {"nothing", Expected'} \/ owed' = owed
           /\ f # "nothing" => version' = version /\ owed' = owed /\ Expected' = f
  PROVE  /\ QueueOK' /\ InOrder'
         /\ conn = "connecting" /\ f = "nothing" => queue' = <<>> /\ owed = "nothing"
<1>1. queue \in Seq(Items) /\ Len(queue) <= 2 /\ queue # <<>> /\ Head(queue) = queue[1]
  BY DEF StepInv, QueueOK, Whole
<1>2. queue' \in Seq(Items) /\ Len(queue') = Len(queue) - 1 /\ queue' = Tail(queue)
  BY <1>1 DEF Take
<1>3. QueueOK'
  <2>1. cut' = cut /\ cut \in BOOLEAN
    BY DEF StepInv, QueueOK, Take
  <2>2. cut => Len(queue) > 1
    BY DEF Whole
  <2>3. queue' = <<>> => Len(queue') = 0
    BY EmptySeq
  <2> QED
    BY <1>1, <1>2, <2>1, <2>2, <2>3 DEF QueueOK
<1>4. conn = "connecting" /\ f = "nothing" => queue' = <<>> /\ owed = "nothing"
  BY <1>1, <1>2, Taken DEF StepInv, InOrder
<1>5. InOrder'
  <2> SUFFICES ASSUME conn' = "connecting" PROVE Chained(queue', owed', version', Expected')
    BY DEF InOrder
  <2>1. CASE f = "nothing"
    <3>1. queue' = <<>> /\ AsRead(owed') \in {"nothing", Expected'}
      BY <1>4, <2>1 DEF AsRead
    <3> QED
      BY <3>1 DEF Chained
  <2>2. CASE f # "nothing"
    BY <1>1, <1>2, <2>2, Taken DEF StepInv, InOrder
  <2> QED
    BY <2>1, <2>2
<1> QED
  BY <1>3, <1>4, <1>5

LEMMA HeadFacts ==
  ASSUME StepInv, Whole
  PROVE  /\ queue # <<>> /\ Head(queue) \in Items
         /\ Head(queue).kind \in Kinds /\ Head(queue).is \in Contents(Head(queue).kind)
         /\ conn = "connecting" => Head(queue).kind = Expected
<1>1. queue \in Seq(Items) /\ queue # <<>> /\ Head(queue) = queue[1] /\ queue[1] \in Items
  BY DEF StepInv, QueueOK, Whole
<1> QED
  BY <1>1, ItemFacts DEF StepInv, InOrder, Chained

\* Waiting for the rest changes nothing but who runs.
LEMMA AwaitsKeeps ==
  ASSUME StepInv, Awaits, initState = "Authentication" => scheme # "RA2ne"
  PROVE  StepInv'
<1>1. /\ ~Whole /\ running' = "no" /\ UNCHANGED <<conn, client, async, stream, history>>
  BY DEF Awaits, Return
<1>2. Expected' = Expected /\ ~Whole'
  BY <1>1 DEF Expected, Reads, Ra2Reads, VeNCryptReads, client, async, stream, Whole
<1>3. QueueOK' /\ InOrder'
  BY <1>1, <1>2, StreamStays DEF stream, client
<1>4. Types'
  BY <1>1 DEF StepInv, Types, client, async, stream, history
<1>5. TimersAreOfAnAnswer' /\ Stages' /\ PromisesAreOfTheirType'
  BY <1>1 DEF StepInv, TimersAreOfAnAnswer, Stages, PromisesAreOfTheirType, client, async,
              stream
<1> QED
  BY <1>2, <1>3, <1>4, <1>5 DEF StepInv, Consumed

LEMMA NothingIsLeft ==
  ASSUME conn' = "connecting" /\ running' # "message" => queue' = <<>>
  PROVE  Consumed'
<1>1. queue' = <<>> => ~Whole'
  BY EmptySeq DEF Whole
<1> QED
  BY <1>1 DEF Consumed

LEMMA NothingAfterArd ==
  ASSUME NEW q \in Seq(Items), Len(q) <= 2, NEW o, NEW v, Chained(q, o, v, "ard")
  PROVE  Len(q) <= 1
<1>0. Len(q) \in Nat /\ DOMAIN q = 1 .. Len(q)
  BY LenProperties
<1> SUFFICES ASSUME Len(q) = 2 PROVE FALSE
  BY <1>0
<1>1. q[2] \in Items /\ q # <<>>
  BY <1>0, ElementOfSeq, EmptySeq
<1>2. q[1].kind = "ard" /\ q[2].kind = FollowsIn(v, q[1])
  BY <1>1 DEF Chained
<1>3. FollowsIn(v, q[1]) = "nothing"
  BY <1>2 DEF FollowsIn
<1> QED
  BY <1>1, <1>2, <1>3, ItemFacts DEF Kinds

LEMMA OneForARD ==
  ASSUME QueueOK', InOrder', conn' = "connecting", initState' = "Authentication",
         scheme' = "ARD"
  PROVE  Len(queue') <= 1
<1>1. Expected' = "ard"
  BY DEF Expected, Reads, FirstOf
<1> QED
  BY <1>1, NothingAfterArd DEF QueueOK, InOrder

LEMMA NegotiateProtocolVersionKeeps ==
  ASSUME StepInv, NegotiateProtocolVersion
  PROVE  StepInv'
<1> USE DEF client, async, stream, history
<1>1. ASSUME Awaits PROVE StepInv'
  BY <1>1, AwaitsKeeps DEF NegotiateProtocolVersion, Calling
<1>2. ASSUME ~Awaits PROVE StepInv'
  <2> DEFINE is == Head(queue).is
  <2>1. /\ initState = "ProtocolVersion" /\ running # "no" /\ Has("version") /\ Take
        /\ UNCHANGED <<scheme, tightVNC, vencryptState, async, history>>
    BY <1>2 DEF NegotiateProtocolVersion, Calling
  <2>2. \/ /\ is = "repeater" /\ owed' = "server version"
           /\ running' \in {running, "no"} /\ UNCHANGED <<conn, initState, version>>
        \/ /\ is = "other" /\ conn' = "ended" /\ running' = "no"
           /\ UNCHANGED <<owed, initState, version>>
        \/ /\ is \in {"3.3", "3.7", "3.8"} /\ version' = is /\ initState' = "Security"
           /\ running' = "no" /\ UNCHANGED conn
           /\ owed' = (IF is = "3.3" THEN "scheme" ELSE "types")
    <3>1. is \in {"3.3", "3.7", "3.8", "repeater", "other"}
      BY <2>1, HeadFacts, HandshakeAssumption DEF Has, Contents
    <3> QED
      BY <1>2, <3>1 DEF NegotiateProtocolVersion, Sends, Return, Fail, Goes
  <2>3. running = "message" /\ ra2 = "none" /\ ard = "none" /\ resumes = 0 /\ asked = {}
        /\ scheme = "none"
    BY <2>1 DEF StepInv, Types, TimersAreOfAnAnswer, PromisesAreOfTheirType, Later, Stages
  <2>4. FollowsIn(version, Head(queue)) = "nothing"
    BY <2>1 DEF FollowsIn, Has
  <2>5. conn' = "connecting" => conn = "connecting" /\ AsRead(owed') = Expected'
    BY <2>1, <2>2 DEF Expected, Reads, AsRead
  <2>6. /\ QueueOK' /\ InOrder'
        /\ conn = "connecting" => queue' = <<>> /\ owed = "nothing"
    BY <2>1, <2>4, <2>5, StreamIsTaken DEF Has
  <2>7. Types'
    <3>1. Types
      BY DEF StepInv
    <3>2. /\ conn' \in {conn, "ended"} /\ initState' \in {initState, "Security"}
          /\ running' \in {running, "no"} /\ version' \in {version, "3.3", "3.7", "3.8"}
          /\ owed' \in {owed, "server version", "scheme", "types"}
      BY <2>2
    <3>3. initState' \in InitStates
      BY <3>1, <3>2 DEF Types, InitStates
    <3>4. owed' \in Kinds \union {owed}
      <4>1. {"server version", "scheme", "types"} \subseteq Kinds
        BY DEF Kinds
      <4> QED
        BY <3>2, <4>1
    <3>5. UNCHANGED <<scheme, tightVNC, vencryptState, credentials, ard, ra2, asked, approving,
                      resumes, approved, verified, accepted, provoked>>
      BY <2>1
    <3>6. /\ conn' \in {"connecting", "connected", "ended"}
          /\ version' \in {"none", "3.3", "3.7", "3.8"}
          /\ running' \in {"no", "message", "resume"} /\ owed' \in Kinds \union {"nothing"}
      BY <3>1, <3>2, <3>4 DEF Types
    <3> QED
      BY <3>1, <3>3, <3>5, <3>6 DEF Types
  <2>8. TimersAreOfAnAnswer' /\ PromisesAreOfTheirType'
    <3>1. /\ ra2' = "none" /\ ard' = "none" /\ resumes' = 0 /\ asked' = {}
          /\ scheme' = "none" /\ running' # "resume"
      BY <2>1, <2>2, <2>3
    <3> QED
      BY <3>1 DEF TimersAreOfAnAnswer, PromisesAreOfTheirType
  <2>9. Stages'
    BY <2>1, <2>2, <2>3 DEF StepInv, Stages
  <2>10. Consumed'
    BY <2>5, <2>6, NothingIsLeft
  <2> QED
    BY <2>6, <2>7, <2>8, <2>9, <2>10 DEF StepInv
<1> QED
  BY <1>1, <1>2

LEMMA NegotiateSecurityKeeps ==
  ASSUME StepInv, Rfb33, NegotiateSecurity
  PROVE  StepInv'
<1> USE DEF client, async, stream, history
<1>1. ASSUME Awaits PROVE StepInv'
  BY <1>1, AwaitsKeeps DEF NegotiateSecurity, Calling
<1>2. ASSUME ~Awaits PROVE StepInv'
  <2> DEFINE is == Head(queue).is
             f == FollowsIn(version, Head(queue))
  <2>1. /\ initState = "Security" /\ running # "no" /\ Take /\ Whole
        /\ Head(queue).kind = (IF version = "3.3" THEN "scheme" ELSE "types")
        /\ UNCHANGED <<version, tightVNC, vencryptState, async, history>>
    BY <1>2 DEF NegotiateSecurity, Calling, Has
  <2>2. \/ /\ is \in {"empty", "refused"} /\ initState' = "SecurityReason"
           /\ running' \in {running, "no"} /\ (running = "message" => running' = running)
           /\ UNCHANGED <<conn, scheme, owed>>
        \/ /\ is = "unsupported" /\ version # "3.3" /\ conn' = "ended" /\ running' = "no"
           /\ UNCHANGED <<initState, scheme, owed>>
        \/ /\ is \notin {"empty", "refused"} /\ scheme' = is /\ initState' = "Authentication"
           /\ (running = "message" => running' = running)
           /\ UNCHANGED conn
           /\ owed' = (IF version = "3.3" THEN owed ELSE FirstOf(is))
    BY <1>2 DEF NegotiateSecurity, Sends, Return, Fail, Goes
  <2>3. /\ running = "message" /\ conn = "connecting" /\ ra2 = "none" /\ ard = "none"
        /\ resumes = 0 /\ asked = {} /\ ~tightVNC /\ vencryptState = 0 /\ version # "none"
    BY <2>1 DEF StepInv, Types, TimersAreOfAnAnswer, PromisesAreOfTheirType, Later, Stages
  <2>4. is \in Contents(Head(queue).kind)
    BY <2>1, HeadFacts
  <2>5. /\ is \notin {"empty", "refused"} => is \in Schemes
        /\ version = "3.3" /\ is # "refused" => is \in Schemes33
    <3>1. version = "3.3" => is \in Schemes33 \union {"refused"}
      BY <2>1, <2>4 DEF Contents
    <3>2. version # "3.3" => is \in Schemes \union {"empty"}
      BY <2>1, <2>4 DEF Contents
    <3> QED
      BY <3>1, <3>2, HandshakeAssumption
  <2>6. conn' = "connecting" =>
           /\ f = "nothing" => AsRead(owed') \in {"nothing", Expected'} \/ owed' = owed
           /\ f # "nothing" => version' = version /\ owed' = owed /\ Expected' = f
    <3> SUFFICES ASSUME conn' = "connecting"
                 PROVE  /\ f = "nothing" => AsRead(owed') \in {"nothing", Expected'} \/ owed' = owed
                        /\ f # "nothing" => version' = version /\ owed' = owed /\ Expected' = f
      OBVIOUS
    <3>1. CASE is \in {"empty", "refused"}
      <4>1. is = "empty" => version # "3.3"
        <5>1. "empty" \notin Schemes33 \union {"refused"}
          BY HandshakeAssumption
        <5> QED
          BY <5>1, <2>1, <2>4 DEF Contents
      <4>2. is = "refused" => version = "3.3"
        <5>1. "refused" \notin Schemes \union {"empty"}
          BY HandshakeAssumption
        <5> QED
          BY <5>1, <2>1, <2>4 DEF Contents
      <4>3. f = "reason"
        <5>1. \/ Head(queue).kind = "types" /\ is = "empty"
              \/ Head(queue).kind = "scheme" /\ is = "refused"
          BY <2>1, <3>1, <4>1, <4>2
        <5> QED
          BY <5>1 DEF FollowsIn
      <4>4. Expected' = "reason" /\ owed' = owed
        BY <2>1, <2>2, <3>1 DEF Expected, Reads
      <4> QED
        BY <2>1, <4>3, <4>4
    <3>2. CASE is \notin {"empty", "refused"} /\ version = "3.3"
      <4>1. is \in {"None", "VNCAuth", "unsupported"} /\ owed' = owed
        BY <2>2, <2>5, <3>2 DEF Rfb33
      <4>2. f = IF is = "None" THEN "nothing" ELSE FirstOf(is)
        BY <2>1, <3>2, <4>1 DEF FollowsIn
      <4>3. Expected' = IF is = "None" THEN "nothing" ELSE FirstOf(is)
        BY <2>1, <2>2, <3>2, <4>1 DEF Expected, Reads
      <4> QED
        BY <2>1, <4>1, <4>2, <4>3
    <3>3. CASE is \notin {"empty", "refused"} /\ version # "3.3"
      <4>1. /\ owed' = FirstOf(is) /\ initState' = "Authentication" /\ scheme' = is
            /\ version' # "3.3" /\ ra2' = "none" /\ ~tightVNC' /\ vencryptState' = 0
        BY <2>1, <2>2, <2>3, <3>3
      <4>2. Expected' = FirstOf(is)
        <5>1. /\ FirstOf("RA2ne") = "ra2 key" /\ FirstOf("VeNCrypt") = "vencrypt version"
              /\ FirstOf("Tight") = "tunnels"
          BY DEF FirstOf
        <5>2. Ra2Reads' = "ra2 key" /\ VeNCryptReads' = "vencrypt version"
          BY <4>1 DEF Ra2Reads, VeNCryptReads
        <5>3. Expected' = Reads'
          BY <4>1 DEF Expected
        <5> QED
          BY <4>1, <5>1, <5>2, <5>3 DEF Reads
      <4>3. AsRead(owed') = Expected'
        BY <4>1, <4>2, FirstIsAKind DEF AsRead
      <4>4. f = "nothing"
        BY <2>1, <3>3 DEF FollowsIn
      <4> QED
        BY <4>3, <4>4
    <3> QED
      BY <3>1, <3>2, <3>3
  <2>7. QueueOK' /\ InOrder'
    <3> HIDE DEF f
    <3> QED
      BY <2>1, <2>3, <2>6, StreamIsTaken DEF f
  <2>8. Types'
    <3>1. owed' \in Kinds \union {"nothing"}
      BY <2>2, FirstIsAKind DEF StepInv, Types
    <3> QED
      BY <2>1, <2>2, <2>3, <2>5, <3>1 DEF StepInv, Types, InitStates
  <2>9. TimersAreOfAnAnswer' /\ PromisesAreOfTheirType'
    <3>1. /\ ra2' = "none" /\ ard' = "none" /\ resumes' = 0 /\ asked' = {}
          /\ running' # "resume" /\ (initState' = "Authentication" => running' = "message")
          /\ (initState' = "Authentication" => conn' = "connecting")
      BY <2>1, <2>2, <2>3
    <3> QED
      BY <2>7, <3>1, OneForARD DEF TimersAreOfAnAnswer, PromisesAreOfTheirType
  <2>10. Stages'
    BY <2>1, <2>2, <2>3, <2>5 DEF StepInv, Stages
  <2>11. Consumed'
    BY <2>2, <2>3, NothingIsLeft
  <2> QED
    BY <2>7, <2>8, <2>9, <2>10, <2>11 DEF StepInv
<1> QED
  BY <1>1, <1>2

LEMMA NothingWaits ==
  ASSUME StepInv, conn = "connecting", Expected = "nothing"
  PROVE  queue = <<>> /\ ~Whole /\ owed = "nothing"
<1>1. queue = <<>>
  <2> SUFFICES ASSUME queue # <<>> PROVE FALSE
    OBVIOUS
  <2>1. queue[1] \in Items
    BY DEF StepInv, QueueOK
  <2> QED
    BY <2>1, ItemFacts DEF StepInv, InOrder, Chained, Kinds
<1>2. AsRead(owed) = "nothing"
  BY <1>1 DEF StepInv, InOrder, Chained
<1>3. ~Whole
  BY <1>1, EmptySeq DEF Whole
<1>4. owed = "nothing"
  BY <1>2 DEF AsRead
<1> QED
  BY <1>1, <1>3, <1>4

\* What ends the connection, with an item or without.
LEMMA FailKeeps ==
  ASSUME StepInv, Fail, UNCHANGED <<client, async, history>>, owed' = owed,
         UNCHANGED <<queue, cut>> \/ (Whole /\ Take),
         initState # "Authentication" \/ scheme # "RA2ne"
  PROVE  StepInv'
<1> USE DEF client, async, history
<1>1. conn' = "ended" /\ running' = "no"
  BY DEF Fail, Return
<1>2. QueueOK' /\ InOrder'
  <2>1. CASE UNCHANGED <<queue, cut>>
    BY <1>1, <2>1, StreamStays
  <2>2. CASE Whole /\ Take
    BY <1>1, <2>2, StreamIsTaken
  <2> QED
    BY <2>1, <2>2
<1>3. (queue = <<>> => queue' = <<>>) /\ Len(queue') <= Len(queue)
  <2>1. CASE UNCHANGED <<queue, cut>>
    BY <2>1 DEF StepInv, QueueOK
  <2>2. CASE Whole /\ Take
    <3>1. queue # <<>>
      BY <2>2, EmptySeq DEF Whole
    <3>2. Len(Tail(queue)) <= Len(queue)
      BY <3>1 DEF StepInv, QueueOK
    <3> QED
      BY <2>2, <3>1, <3>2 DEF Take
  <2> QED
    BY <2>1, <2>2
<1>4. Types'
  BY <1>1 DEF StepInv, Types
<1>5. TimersAreOfAnAnswer'
  BY <1>1 DEF StepInv, TimersAreOfAnAnswer
<1>6. PromisesAreOfTheirType'
  BY <1>1, <1>3 DEF StepInv, PromisesAreOfTheirType
<1>7. Stages'
  BY <1>1 DEF StepInv, Stages
<1> QED
  BY <1>1, <1>2, <1>4, <1>5, <1>6, <1>7, NothingIsLeft DEF StepInv

LEMMA HandleSecurityReasonKeeps ==
  ASSUME StepInv, HandleSecurityReason
  PROVE  StepInv'
<1>1. ASSUME Awaits PROVE StepInv'
  BY <1>1, AwaitsKeeps DEF HandleSecurityReason, Calling
<1>2. ASSUME ~Awaits PROVE StepInv'
  BY <1>2, FailKeeps DEF HandleSecurityReason, Calling, Has
<1> QED
  BY <1>1, <1>2

LEMMA AuthUnsupportedKeeps ==
  ASSUME StepInv, AuthUnsupported
  PROVE  StepInv'
BY FailKeeps DEF AuthUnsupported, Authenticating, Calling, stream

\* A question to the user.
LEMMA AsksKeeps ==
  ASSUME StepInv, NEW fields \in SUBSET Fields, Asks(fields), Authenticating(scheme),
         scheme \in Asking \ {"RA2ne"}
  PROVE  StepInv'
<1> USE DEF client, async, stream, history
<1>1. /\ asked' = fields /\ running' = "no"
      /\ UNCHANGED <<conn, client, credentials, ard, ra2, approving, resumes, stream, history>>
  BY DEF Asks, Ask, Return
<1>2. Expected' = Expected
  BY <1>1 DEF Expected, Reads, Ra2Reads, VeNCryptReads
<1>3. QueueOK' /\ InOrder'
  BY <1>1, <1>2, StreamStays
<1>4. Types'
  BY <1>1 DEF StepInv, Types
<1>5. TimersAreOfAnAnswer' /\ PromisesAreOfTheirType'
  BY <1>1 DEF StepInv, TimersAreOfAnAnswer, PromisesAreOfTheirType, Authenticating, Calling
<1>6. Stages'
  BY <1>1 DEF StepInv, Stages
<1>7. Consumed'
  <2>1. ASSUME scheme \notin LeftFor, conn = "connecting" PROVE queue = <<>>
    <3>1. Expected = "nothing"
      BY <2>1 DEF Asking, Expected, Reads, FirstOf, Authenticating, Calling
    <3> QED
      BY <2>1, <3>1, NothingWaits
  <2>2. queue' = <<>> => ~Whole'
    BY EmptySeq DEF Whole
  <2> QED
    BY <1>1, <2>1, <2>2 DEF Consumed, Authenticating, Calling
<1> QED
  BY <1>3, <1>4, <1>5, <1>6, <1>7 DEF StepInv

\* The answer to a security type is sent, and its result is waited for.
LEMMA AuthenticatedKeeps ==
  ASSUME StepInv, Authenticating(scheme), scheme # "RA2ne", Goes("SecurityResult", TRUE),
         UNCHANGED <<version, scheme, tightVNC, vencryptState, history>>,
         UNCHANGED <<credentials, ra2, asked, approving, resumes>>, ard' = "none",
         owed' \in Kinds \union {"nothing"}, QueueOK', InOrder',
         running # "message" /\ conn = "connecting" => queue' = <<>>
  PROVE  StepInv'
<1> USE DEF history, Goes, Authenticating, Calling
<1>1. /\ initState' = "SecurityResult" /\ conn' = conn
      /\ running' = IF running = "message" THEN "message" ELSE "no"
  BY DEF Return
<1>2. Types'
  BY <1>1 DEF StepInv, Types, InitStates
<1>3. TimersAreOfAnAnswer'
  BY <1>1 DEF TimersAreOfAnAnswer, Later
<1>4. PromisesAreOfTheirType'
  BY <1>1 DEF StepInv, PromisesAreOfTheirType
<1>5. Stages'
  BY <1>1 DEF StepInv, Stages
<1>6. Consumed'
  BY <1>1, NothingIsLeft
<1> QED
  BY <1>2, <1>3, <1>4, <1>5, <1>6 DEF StepInv

\* Only the types of version 3.3 are met in it.
LEMMA TypesOf33 ==
  ASSUME StepInv, Rfb33, scheme \notin {"None", "VNCAuth", "unsupported", "none"}
  PROVE  version # "3.3"
BY DEF StepInv, Stages, Rfb33

LEMMA NoPromise ==
  ASSUME StepInv, scheme \notin {"RA2ne", "ARD"}
  PROVE  ra2 = "none" /\ ard = "none"
BY DEF StepInv, PromisesAreOfTheirType

LEMMA AuthNoneKeeps ==
  ASSUME StepInv, Rfb33, AuthNone
  PROVE  StepInv'
<1> USE DEF client, async, stream, history
<1>1. /\ initState = "Authentication" /\ scheme = "None" /\ running # "no"
      /\ Authenticating(scheme) /\ Goes("SecurityResult", TRUE)
      /\ UNCHANGED <<version, scheme, tightVNC, vencryptState, async, stream, history>>
  BY DEF AuthNone, Authenticating, Calling
<1>2. Expected' = Expected
  BY <1>1 DEF Goes, Expected, Reads, FirstOf
<1>3. QueueOK' /\ InOrder'
  BY <1>1, <1>2, StreamStays DEF Goes
<1>4. running = "message" /\ ard' = "none"
  BY <1>1, NoPromise DEF StepInv, Types, TimersAreOfAnAnswer, Asking, LeftFor, Later
<1>5. owed' \in Kinds \union {"nothing"}
  BY <1>1 DEF StepInv, Types
<1> QED
  BY <1>1, <1>3, <1>4, <1>5, AuthenticatedKeeps

\* The challenge is answered: what is read next is the result, if there is one.
LEMMA AnswersItem ==
  ASSUME StepInv, Authenticating(scheme), scheme \notin {"RA2ne", "ARD"},
         Goes("SecurityResult", TRUE), Whole, Take,
         Head(queue).kind \in {"challenge", "mslogon"},
         owed' = (IF version = "3.3" THEN "nothing" ELSE "result"),
         UNCHANGED <<version, scheme, tightVNC, vencryptState, async, history>>
  PROVE  StepInv'
<1> USE DEF client, async, stream, history
<1>1. FollowsIn(version, Head(queue)) = "nothing"
  BY DEF FollowsIn
<1>2. conn' = conn /\ AsRead(owed') \in {"nothing", Expected'}
  BY DEF Goes, Expected, Reads, AsRead
<1>3. QueueOK' /\ InOrder' /\ (conn = "connecting" => queue' = <<>>)
  BY <1>1, <1>2, StreamIsTaken
<1>4. owed' \in Kinds \union {"nothing"} /\ ard' = "none"
  BY NoPromise DEF Kinds
<1> QED
  BY <1>3, <1>4, AuthenticatedKeeps

LEMMA NegotiateStdVNCAuthKeeps ==
  ASSUME StepInv, NegotiateStdVNCAuth
  PROVE  StepInv'
<1> USE DEF Authenticating, Calling
<1>1. ASSUME Awaits PROVE StepInv'
  BY <1>1, AwaitsKeeps DEF NegotiateStdVNCAuth
<1>2. ASSUME Asks({"password"}) PROVE StepInv'
  BY <1>2, AsksKeeps DEF NegotiateStdVNCAuth, Fields, Asking, LeftFor
<1>3. ASSUME ~Awaits, ~Asks({"password"}) PROVE StepInv'
  BY <1>3, AnswersItem DEF NegotiateStdVNCAuth, Has, Sends
<1> QED
  BY <1>1, <1>2, <1>3

LEMMA NegotiateMSLogonIIAuthKeeps ==
  ASSUME StepInv, Rfb33, NegotiateMSLogonIIAuth
  PROVE  StepInv'
<1> USE DEF Authenticating, Calling
<1> DEFINE fields == {"username", "password"}
<1>1. ASSUME Awaits PROVE StepInv'
  BY <1>1, AwaitsKeeps DEF NegotiateMSLogonIIAuth
<1>2. ASSUME Asks(fields) PROVE StepInv'
  BY <1>2, AsksKeeps DEF NegotiateMSLogonIIAuth, Fields, Asking, LeftFor
<1>3. ASSUME ~Awaits, ~Asks(fields) PROVE StepInv'
  BY <1>3, AnswersItem, TypesOf33 DEF NegotiateMSLogonIIAuth, Has, Sends
<1> QED
  BY <1>1, <1>2, <1>3

\* Types that ask before they read anything.
LEMMA AnswersUnasked ==
  ASSUME StepInv, Rfb33, Authenticating(scheme), scheme \in {"Plain", "UnixLogon"},
         Goes("SecurityResult", TRUE), Sends("result"),
         UNCHANGED <<version, scheme, tightVNC, vencryptState, async, queue, cut, history>>
  PROVE  StepInv'
<1> USE DEF client, async, stream, history
<1>1. conn = "connecting" => queue = <<>>
  BY NothingWaits DEF Expected, Reads, FirstOf, Authenticating, Calling
<1>2. conn' = conn /\ AsRead(owed') = Expected'
  BY TypesOf33 DEF Goes, Sends, Expected, Reads, AsRead
<1>3. QueueOK' /\ InOrder'
  BY <1>1, <1>2, StreamStays
<1>4. owed' \in Kinds \union {"nothing"} /\ ard' = "none"
  BY NoPromise DEF Kinds, Sends
<1> QED
  BY <1>1, <1>3, <1>4, AuthenticatedKeeps

LEMMA NegotiatePlainAuthKeeps ==
  ASSUME StepInv, Rfb33, NegotiatePlainAuth \/ NegotiateTightUnixAuth
  PROVE  StepInv'
<1> USE DEF Authenticating, Calling, NegotiatePlainAuth, NegotiateTightUnixAuth
<1> DEFINE fields == {"username", "password"}
<1>1. ASSUME Asks(fields) PROVE StepInv'
  BY <1>1, AsksKeeps DEF Fields, Asking
<1>2. ASSUME ~Asks(fields) PROVE StepInv'
  BY <1>2, AnswersUnasked
<1> QED
  BY <1>1, <1>2

LEMMA NegotiateXvpAuthKeeps ==
  ASSUME StepInv, Rfb33, NegotiateXvpAuth
  PROVE  StepInv'
<1> USE DEF client, async, stream, history
<1>1. ASSUME Asks(Fields) PROVE StepInv'
  BY <1>1, AsksKeeps DEF NegotiateXvpAuth, Authenticating, Calling, Asking
<1>2. ASSUME ~Asks(Fields) PROVE StepInv'
  <2>1. /\ initState = "Authentication" /\ scheme = "XVP" /\ scheme' = "VNCAuth"
        /\ owed' = "challenge" /\ running' = "no"
        /\ UNCHANGED <<conn, initState, version, tightVNC, vencryptState, async, queue, cut,
                       history>>
    BY <1>2 DEF NegotiateXvpAuth, Authenticating, Calling, Sends, Return
  <2>2. conn = "connecting" => queue = <<>>
    BY <2>1, NothingWaits DEF Expected, Reads, FirstOf
  <2>3. AsRead(owed') = Expected'
    BY <2>1 DEF Expected, Reads, FirstOf, AsRead
  <2>4. QueueOK' /\ InOrder'
    BY <2>1, <2>2, <2>3, StreamStays
  <2>5. ra2 = "none" /\ ard = "none" /\ version # "3.3"
    BY <2>1, NoPromise, TypesOf33
  <2>6. Types'
    <3>1. owed' \in Kinds
      BY <2>1 DEF Kinds
    <3> QED
      BY <2>1, <3>1 DEF StepInv, Types
  <2>7. TimersAreOfAnAnswer' /\ PromisesAreOfTheirType'
    BY <2>1, <2>5 DEF TimersAreOfAnAnswer, PromisesAreOfTheirType, Asking, LeftFor
  <2>8. Stages'
    BY <2>1, <2>5 DEF StepInv, Stages
  <2>9. Consumed'
    BY <2>1, <2>2, NothingIsLeft
  <2> QED
    BY <2>4, <2>6, <2>7, <2>8, <2>9 DEF StepInv
<1> QED
  BY <1>1, <1>2

LEMMA NegotiateARDAuthKeeps ==
  ASSUME StepInv, Rfb33, NegotiateARDAuth
  PROVE  StepInv'
<1> USE DEF client, async, stream, history
<1> DEFINE fields == {"username", "password"}
<1>0. /\ initState = "Authentication" /\ scheme = "ARD" /\ running # "no" /\ version # "3.3"
      /\ Authenticating(scheme)
  BY TypesOf33 DEF NegotiateARDAuth, Authenticating, Calling
<1>1. ASSUME Asks(fields) PROVE StepInv'
  BY <1>0, <1>1, AsksKeeps DEF Fields, Asking, LeftFor
<1>2. ASSUME Awaits PROVE StepInv'
  BY <1>0, <1>2, AwaitsKeeps
<1>3. ASSUME ~Asks(fields), ~Awaits, ard = "ready" PROVE StepInv'
  <2>1. /\ ard' = "none" /\ owed' = "result" /\ Goes("SecurityResult", TRUE)
        /\ UNCHANGED <<version, scheme, tightVNC, vencryptState, credentials, ra2, asked,
                       approving, resumes, queue, cut, history>>
    BY <1>3 DEF NegotiateARDAuth, Sends
  <2>2. queue = <<>>
    BY <1>3 DEF StepInv, PromisesAreOfTheirType
  <2>3. AsRead(owed') = Expected'
    BY <1>0, <2>1 DEF Goes, Expected, Reads, AsRead
  <2>4. QueueOK' /\ InOrder'
    BY <2>1, <2>2, <2>3, StreamStays DEF Goes
  <2> QED
    BY <1>0, <2>1, <2>2, <2>4, AuthenticatedKeeps DEF Kinds
<1>4. ASSUME ~Asks(fields), ~Awaits, ard # "ready" PROVE StepInv'
  <2>1. /\ Has("ard") /\ Take /\ ard' = "computing" /\ running' = "no"
        /\ UNCHANGED <<conn, client, credentials, ra2, asked, approving, resumes, owed,
                       history>>
    BY <1>4 DEF NegotiateARDAuth, Return
  <2>2. FollowsIn(version, Head(queue)) = "nothing"
    BY <2>1 DEF FollowsIn, Has
  <2>3. QueueOK' /\ InOrder' /\ (conn = "connecting" => owed = "nothing")
    BY <2>1, <2>2, StreamIsTaken DEF Has
  <2>4. queue' = <<>>
    <3>1. queue \in Seq(Items) /\ Len(queue) <= 1 /\ queue # <<>>
      BY <1>0, <2>1, HeadFacts DEF StepInv, QueueOK, PromisesAreOfTheirType, Has
    <3>2. Len(queue) = 1
      BY <3>1, EmptySeq
    <3>3. Tail(queue) \in Seq(Items) /\ Len(Tail(queue)) = 0
      BY <3>1, <3>2, HeadTailProperties
    <3> QED
      BY <2>1, <3>3, EmptySeq DEF Take
  <2>5. Types'
    BY <2>1 DEF StepInv, Types
  <2>6. TimersAreOfAnAnswer'
    BY <1>0, <2>1 DEF TimersAreOfAnAnswer, Asking, LeftFor
  <2>7. PromisesAreOfTheirType'
    <3>1. ra2 = "none" /\ Len(queue') = 0
      BY <1>0, <2>4, EmptySeq DEF StepInv, PromisesAreOfTheirType
    <3> QED
      BY <1>0, <2>1, <2>3, <2>4, <3>1 DEF PromisesAreOfTheirType
  <2>8. Stages'
    BY <2>1 DEF StepInv, Stages
  <2>9. Consumed'
    BY <2>4, NothingIsLeft
  <2> QED
    BY <2>3, <2>5, <2>6, <2>7, <2>8, <2>9 DEF StepInv
<1> QED
  BY <1>1, <1>2, <1>3, <1>4

LEMMA NegotiateARDAuthAsyncKeeps ==
  ASSUME StepInv, NegotiateARDAuthAsync
  PROVE  StepInv'
<1> USE DEF client, async, stream, history
<1>1. /\ running = "no" /\ ard = "computing" /\ ard' = "ready" /\ resumes' = resumes + 1
      /\ UNCHANGED <<conn, client, credentials, ra2, asked, approving, running, stream, history>>
  BY DEF NegotiateARDAuthAsync
<1>2. initState = "Authentication" /\ scheme = "ARD" /\ queue = <<>>
  BY <1>1 DEF StepInv, PromisesAreOfTheirType
<1>3. Expected' = Expected
  BY <1>1, <1>2 DEF Expected, Reads
<1>4. QueueOK' /\ InOrder'
  BY <1>1, <1>3, StreamStays
<1>5. Types'
  BY <1>1 DEF StepInv, Types
<1>6. TimersAreOfAnAnswer' /\ PromisesAreOfTheirType'
  BY <1>1, <1>2 DEF StepInv, TimersAreOfAnAnswer, PromisesAreOfTheirType, Asking, LeftFor
<1>7. Stages'
  BY <1>1 DEF StepInv, Stages
<1>8. Consumed'
  BY <1>1, <1>2, NothingIsLeft
<1> QED
  BY <1>4, <1>5, <1>6, <1>7, <1>8 DEF StepInv

\* In a type that asks nothing, a message is being handled and nothing is pending.
LEMMA NothingPending ==
  ASSUME StepInv, Authenticating(scheme), scheme \notin Asking
  PROVE  /\ running = "message" /\ conn = "connecting" /\ ra2 = "none" /\ ard = "none"
         /\ resumes = 0 /\ asked = {} /\ initState = "Authentication"
<1>1. initState = "Authentication" /\ running # "no"
  BY DEF Authenticating, Calling
<1>2. ~(resumes > 0 \/ running = "resume" \/ asked # {})
  BY <1>1 DEF StepInv, TimersAreOfAnAnswer, Later
<1>3. running = "message" /\ resumes = 0 /\ asked = {}
  BY <1>1, <1>2 DEF StepInv, Types
<1> QED
  BY <1>1, <1>3, NoPromise DEF StepInv, Stages, Asking, LeftFor

\* A step of such a type.
LEMMA NegotiatesOn ==
  ASSUME StepInv, Rfb33, Authenticating(scheme), scheme \in {"VeNCrypt", "Tight"},
         UNCHANGED <<version, async, history>>,
         conn' \in {"connecting", "ended"},
         initState' \in {"Authentication", "SecurityResult"},
         \/ scheme' = scheme /\ vencryptState' \in 0 .. 3 /\ (scheme = "VeNCrypt" => ~tightVNC')
         \/ scheme = "VeNCrypt" /\ scheme' \in Schemes /\ ~tightVNC'
            /\ vencryptState' = vencryptState
         \/ scheme = "Tight" /\ scheme' \in {"VNCAuth", "UnixLogon"}
            /\ vencryptState' = vencryptState,
         tightVNC' \in BOOLEAN, owed' \in Kinds \union {"nothing"}, QueueOK', InOrder',
         \/ running' = "message" /\ conn' = "connecting"
         \/ running' = "no" /\ scheme' = scheme /\ (conn' = "connecting" => queue' = <<>>)
  PROVE  StepInv'
<1> USE DEF async, history
<1>1. /\ running = "message" /\ conn = "connecting" /\ ra2 = "none" /\ ard = "none"
      /\ resumes = 0 /\ asked = {} /\ initState = "Authentication" /\ version # "3.3"
  BY NothingPending, TypesOf33 DEF Asking, LeftFor
<1>2. Types'
  BY <1>1 DEF StepInv, Types, InitStates
<1>3. TimersAreOfAnAnswer'
  BY <1>1 DEF TimersAreOfAnAnswer
<1>4. PromisesAreOfTheirType'
  BY <1>1, OneForARD DEF PromisesAreOfTheirType
<1>5. Stages'
  BY <1>1 DEF StepInv, Stages
<1>6. Consumed'
  BY NothingIsLeft
<1> QED
  BY <1>2, <1>3, <1>4, <1>5, <1>6 DEF StepInv

LEMMA NegotiateVeNCryptAuthKeeps ==
  ASSUME StepInv, Rfb33, NegotiateVeNCryptAuth
  PROVE  StepInv'
<1> USE DEF client, async, stream, history
<1> DEFINE is == Head(queue).is
           kind == Head(queue).kind
<1>1. ASSUME Awaits PROVE StepInv'
  BY <1>1, AwaitsKeeps DEF NegotiateVeNCryptAuth, Authenticating
<1>2. ASSUME ~Awaits PROVE StepInv'
  <2>1. /\ Authenticating(scheme) /\ scheme = "VeNCrypt" /\ Whole /\ Take
        /\ UNCHANGED <<initState, version, tightVNC, async, history>>
    BY <1>2 DEF NegotiateVeNCryptAuth, Authenticating, Has
  <2>2. /\ running = "message" /\ conn = "connecting" /\ ra2 = "none"
        /\ initState = "Authentication" /\ version # "3.3" /\ ~tightVNC /\ tightVNC \in BOOLEAN
    BY <2>1, NothingPending, TypesOf33 DEF Asking, LeftFor, StepInv, Stages, Types
  <2>3. is \in Contents(kind)
    BY <2>1, HeadFacts
  <2>4. ASSUME Fail, UNCHANGED <<scheme, vencryptState, owed>> PROVE StepInv'
    BY <2>1, <2>4, FailKeeps
  <2>5. ASSUME kind = "vencrypt version", is # "bad", vencryptState = 0 PROVE StepInv'
    <3>1. /\ vencryptState' = 1 /\ UNCHANGED <<conn, running, scheme>>
      BY <1>2, <2>5 DEF NegotiateVeNCryptAuth, Has
    <3>0. owed' = "vencrypt ack"
      BY <1>2, <2>5 DEF NegotiateVeNCryptAuth, Has, Sends
    <3>2. Expected' = "vencrypt ack"
      <4>1. VeNCryptReads' = "vencrypt ack"
        BY <3>1 DEF VeNCryptReads
      <4>2. Expected' = VeNCryptReads'
        BY <2>1, <2>2, <3>1 DEF Expected, Reads
      <4> QED
        BY <4>1, <4>2
    <3>3. FollowsIn(version, Head(queue)) = "nothing"
      BY <2>5 DEF FollowsIn
    <3>4. AsRead(owed') = Expected' /\ owed' \in Kinds \union {"nothing"}
      BY <3>0, <3>2 DEF AsRead, Kinds
    <3>5. QueueOK' /\ InOrder'
      BY <2>1, <2>2, <3>1, <3>3, <3>4, StreamIsTaken
    <3>6. vencryptState' \in 0 .. 3 /\ running' = "message" /\ conn' = "connecting"
      BY <2>2, <3>1
    <3> QED
      BY <2>1, <2>2, <3>1, <3>4, <3>5, <3>6, NegotiatesOn
  <2>6. ASSUME kind = "vencrypt ack", is # "bad", vencryptState = 1 PROVE StepInv'
    <3>1. /\ vencryptState' = 2 /\ owed' = owed /\ UNCHANGED <<conn, running, scheme>>
      BY <1>2, <2>6 DEF NegotiateVeNCryptAuth, Has, Sends
    <3>2. Expected' = "vencrypt length"
      <4>1. VeNCryptReads' = "vencrypt length"
        BY <3>1 DEF VeNCryptReads
      <4>2. Expected' = VeNCryptReads'
        BY <2>1, <2>2, <3>1 DEF Expected, Reads
      <4> QED
        BY <4>1, <4>2
    <3>3. FollowsIn(version, Head(queue)) = Expected'
      BY <2>3, <2>6, <3>2 DEF FollowsIn, Contents
    <3>4. owed' \in Kinds \union {"nothing"}
      BY <3>1 DEF StepInv, Types
    <3>5. QueueOK' /\ InOrder'
      BY <2>1, <2>2, <3>1, <3>2, <3>3, StreamIsTaken
    <3>6. vencryptState' \in 0 .. 3 /\ running' = "message" /\ conn' = "connecting"
      BY <2>2, <3>1
    <3> QED
      BY <2>1, <2>2, <3>1, <3>4, <3>5, <3>6, NegotiatesOn
  <2>7. ASSUME kind = "vencrypt length", is # "empty", vencryptState = 2 PROVE StepInv'
    <3>1. /\ vencryptState' = 3 /\ owed' = owed /\ UNCHANGED <<conn, running, scheme>>
      BY <1>2, <2>7 DEF NegotiateVeNCryptAuth, Has, Sends
    <3>2. Expected' = "vencrypt subtypes"
      <4>1. VeNCryptReads' = "vencrypt subtypes"
        BY <3>1 DEF VeNCryptReads
      <4>2. Expected' = VeNCryptReads'
        BY <2>1, <2>2, <3>1 DEF Expected, Reads
      <4> QED
        BY <4>1, <4>2
    <3>3. FollowsIn(version, Head(queue)) = Expected'
      BY <2>3, <2>7, <3>2 DEF FollowsIn, Contents
    <3>4. owed' \in Kinds \union {"nothing"}
      BY <3>1 DEF StepInv, Types
    <3>5. QueueOK' /\ InOrder'
      BY <2>1, <2>2, <3>1, <3>2, <3>3, StreamIsTaken
    <3>6. vencryptState' \in 0 .. 3 /\ running' = "message" /\ conn' = "connecting"
      BY <2>2, <3>1
    <3> QED
      BY <2>1, <2>2, <3>1, <3>4, <3>5, <3>6, NegotiatesOn
  <2>8. ASSUME kind = "vencrypt subtypes", is # "unsupported", vencryptState = 3 PROVE StepInv'
    <3>1. /\ scheme' = is /\ owed' = FirstOf(is) /\ running' = "message" /\ conn' = conn
          /\ vencryptState' = vencryptState
      BY <1>2, <2>2, <2>8 DEF NegotiateVeNCryptAuth, Has, Sends, Return
    <3>2. is \in Schemes \ {"VeNCrypt"}
      BY <2>3, <2>8 DEF Contents
    <3>3. Expected' = FirstOf(is)
      <4>1. FirstOf("RA2ne") = "ra2 key" /\ FirstOf("Tight") = "tunnels"
        BY DEF FirstOf
      <4>2. Ra2Reads' = "ra2 key"
        BY <2>1, <2>2 DEF Ra2Reads
      <4>3. Expected' = Reads'
        BY <2>1, <2>2 DEF Expected
      <4> QED
        BY <2>1, <2>2, <3>1, <3>2, <4>1, <4>2, <4>3 DEF Reads
    <3>4. FollowsIn(version, Head(queue)) = "nothing"
      BY <2>8 DEF FollowsIn
    <3>5. AsRead(owed') = Expected' /\ owed' \in Kinds \union {"nothing"}
      BY <3>1, <3>3, FirstIsAKind DEF AsRead
    <3>6. QueueOK' /\ InOrder'
      BY <2>1, <2>2, <3>1, <3>4, <3>5, StreamIsTaken
    <3> QED
      BY <2>1, <2>2, <3>1, <3>2, <3>5, <3>6, NegotiatesOn
  <2> QED
    BY <1>2, <2>4, <2>5, <2>6, <2>7, <2>8 DEF NegotiateVeNCryptAuth, Has
<1> QED
  BY <1>1, <1>2

LEMMA NegotiateTightTunnelsKeeps ==
  ASSUME StepInv, Rfb33, NegotiateTightTunnels
  PROVE  StepInv'
<1> USE DEF client, async, stream, history
<1> DEFINE is == Head(queue).is
           f == FollowsIn(version, Head(queue))
<1>1. ASSUME Awaits PROVE StepInv'
  BY <1>1, AwaitsKeeps DEF NegotiateTightTunnels, Authenticating
<1>2. ASSUME ~Awaits PROVE StepInv'
  <2>1. /\ Authenticating(scheme) /\ scheme = "Tight" /\ Whole /\ Take /\ tightVNC' = TRUE
        /\ Head(queue).kind = "tunnels"
        /\ UNCHANGED <<initState, version, scheme, vencryptState, async, history>>
    BY <1>2 DEF NegotiateTightTunnels, Authenticating, Has
  <2>2. /\ running = "message" /\ conn = "connecting" /\ initState = "Authentication"
        /\ vencryptState \in 0 .. 3
    BY <2>1, NothingPending DEF Asking, LeftFor, StepInv, Types
  <2>3. is \in {"none", "notunnel", "other"}
    BY <2>1, HeadFacts DEF Contents
  <2>4. \/ is = "other" /\ conn' = "ended" /\ running' = "no" /\ owed' = owed
        \/ is = "notunnel" /\ owed' = "subauth" /\ running' = "no" /\ conn' = conn
        \/ is = "none" /\ owed' = owed /\ running' = running /\ conn' = conn
    BY <1>2, <2>3 DEF NegotiateTightTunnels, Fail, Return, Sends
  <2>5. f = IF is = "none" THEN "subauth" ELSE "nothing"
    BY <2>1, <2>3 DEF FollowsIn
  <2>6. Expected' = "subauth"
    BY <2>1, <2>2 DEF Expected, Reads
  <2>7. QueueOK' /\ InOrder' /\ (f = "nothing" => queue' = <<>>)
    <3>1. AsRead("subauth") = "subauth"
      BY DEF AsRead
    <3> HIDE DEF f
    <3> QED
      BY <2>1, <2>2, <2>4, <2>5, <2>6, <3>1, StreamIsTaken DEF f
  <2>8. owed' \in Kinds \union {"nothing"}
    <3>1. owed' = owed \/ owed' = "subauth"
      BY <2>4
    <3> QED
      BY <3>1 DEF StepInv, Types, Kinds
  <2>9. \/ running' = "message" /\ conn' = "connecting"
        \/ running' = "no" /\ conn' \in {"connecting", "ended"}
           /\ (conn' = "connecting" => queue' = <<>>)
    BY <2>2, <2>4, <2>5, <2>7
  <2> QED
    BY <2>1, <2>2, <2>7, <2>8, <2>9, NegotiatesOn
<1> QED
  BY <1>1, <1>2

LEMMA NegotiateTightSubAuthKeeps ==
  ASSUME StepInv, Rfb33, NegotiateTightSubAuth
  PROVE  StepInv'
<1> USE DEF client, async, stream, history
<1> DEFINE is == Head(queue).is
           f == FollowsIn(version, Head(queue))
<1>1. ASSUME Awaits PROVE StepInv'
  BY <1>1, AwaitsKeeps DEF NegotiateTightSubAuth, Authenticating
<1>2. ASSUME ~Awaits PROVE StepInv'
  <2>1. /\ Authenticating(scheme) /\ scheme = "Tight" /\ Whole /\ Take
        /\ Head(queue).kind = "subauth"
        /\ UNCHANGED <<version, tightVNC, vencryptState, async, history>>
    BY <1>2 DEF NegotiateTightSubAuth, Authenticating, Has
  <2>2. /\ running = "message" /\ conn = "connecting" /\ initState = "Authentication"
        /\ vencryptState \in 0 .. 3 /\ tightVNC \in BOOLEAN
    BY <2>1, NothingPending DEF Asking, LeftFor, StepInv, Types
  <2>3. version # "3.3"
    BY <2>1, TypesOf33
  <2>4. is \in {"empty", "noauth", "vnc", "unix", "unsupported"}
    BY <2>1, HeadFacts, HandshakeAssumption DEF Contents
  <2>5. f = IF is = "empty" THEN "result" ELSE "nothing"
    BY <2>1, <2>4 DEF FollowsIn
  <2>6. ASSUME is = "unsupported" PROVE StepInv'
    BY <1>2, <2>1, <2>6, FailKeeps DEF NegotiateTightSubAuth
  <2>7. ASSUME is # "unsupported"
        PROVE  /\ running' = "message" /\ conn' = "connecting"
               /\ \/ is \in {"empty", "noauth"} /\ initState' = "SecurityResult"
                     /\ scheme' = scheme
                     /\ owed' = (IF is = "empty" THEN owed ELSE "result")
                  \/ is = "vnc" /\ initState' = "Authentication" /\ scheme' = "VNCAuth"
                     /\ owed' = "challenge"
                  \/ is = "unix" /\ initState' = "Authentication" /\ scheme' = "UnixLogon"
                     /\ owed' = "nothing"
    BY <1>2, <2>2, <2>4, <2>7 DEF NegotiateTightSubAuth, Goes, Return, Sends
  <2>8. ASSUME is # "unsupported" PROVE StepInv'
    <3>1. /\ is \in {"empty", "noauth"} => Expected' = "result"
          /\ is = "vnc" => Expected' = "challenge"
          /\ is = "unix" => Expected' = "nothing"
      BY <2>1, <2>3, <2>7, <2>8 DEF Expected, Reads, FirstOf
    <3>2. AsRead("result") = "result" /\ AsRead("challenge") = "challenge"
          /\ AsRead("nothing") = "nothing"
      BY DEF AsRead
    <3>3. QueueOK' /\ InOrder'
      <4> HIDE DEF f
      <4> QED
        BY <2>1, <2>2, <2>4, <2>5, <2>7, <2>8, <3>1, <3>2, StreamIsTaken DEF f
    <3>4. owed' \in Kinds \union {"nothing"}
      <4>1. owed' = owed \/ owed' \in {"result", "challenge", "nothing"}
        BY <2>7, <2>8
      <4> QED
        BY <4>1 DEF StepInv, Types, Kinds
    <3>5. /\ initState' \in {"Authentication", "SecurityResult"}
          /\ scheme' = scheme \/ scheme' \in {"VNCAuth", "UnixLogon"}
      BY <2>7, <2>8
    <3> QED
      BY <2>1, <2>2, <2>7, <2>8, <3>3, <3>4, <3>5, NegotiatesOn
  <2> QED
    BY <2>6, <2>8
<1> QED
  BY <1>1, <1>2

LEMMA NegotiateRA2neAuthKeeps ==
  ASSUME StepInv, Rfb33, NegotiateRA2neAuth
  PROVE  StepInv'
<1> USE DEF client, async, stream, history
<1>1. /\ initState = "Authentication" /\ scheme = "RA2ne" /\ running # "no" /\ running' = "no"
      /\ UNCHANGED <<conn, client, credentials, ard, asked, approving, resumes, stream, history>>
  BY DEF NegotiateRA2neAuth, Authenticating, Calling, Return
<1>2. \/ ra2 = "none" /\ ra2' = "key"
      \/ ra2 \in Ra2Asks /\ ra2' = "answered"
      \/ ra2 # "none" /\ ra2' = ra2
  BY DEF NegotiateRA2neAuth, Ra2Asks
<1>3. Ra2Reads' = Ra2Reads
  BY <1>2 DEF Ra2Reads, Ra2Asks
<1>4. Expected' = Expected
  BY <1>1, <1>3 DEF Expected, Reads
<1>5. QueueOK' /\ InOrder'
  BY <1>1, <1>4, StreamStays
<1>6. Types'
  BY <1>1, <1>2 DEF StepInv, Types
<1>7. TimersAreOfAnAnswer'
  BY <1>1 DEF StepInv, TimersAreOfAnAnswer
<1>8. PromisesAreOfTheirType'
  BY <1>1, <1>2 DEF StepInv, PromisesAreOfTheirType, Ra2Asks
<1>9. Stages'
  BY <1>1 DEF StepInv, Stages
<1>10. Consumed'
  BY <1>1 DEF Consumed, LeftFor
<1> QED
  BY <1>5, <1>6, <1>7, <1>8, <1>9, <1>10 DEF StepInv

\* After the authentication there is no promise and no question.
LEMMA LaterKeeps ==
  ASSUME StepInv, initState \in Later, initState' \in Later,
         UNCHANGED <<version, scheme, tightVNC, vencryptState, async>>,
         UNCHANGED <<approved, verified, provoked>>, accepted' \in BOOLEAN,
         \/ conn' = conn /\ (conn = "connected" => initState' = "ServerInitialisation")
         \/ conn' = "ended"
         \/ conn' = "connected" /\ initState' = "ServerInitialisation",
         running' = "no" \/ (running' = running /\ conn' = conn),
         owed' \in Kinds \union {"nothing"}, QueueOK', InOrder',
         conn' = "connecting" /\ running' # "message" => queue' = <<>>
  PROVE  StepInv'
<1> USE DEF async
<1>1. Types'
  <2>1. initState' \in InitStates
    BY DEF Later, InitStates
  <2> QED
    BY <2>1 DEF StepInv, Types
<1>2. TimersAreOfAnAnswer'
  BY DEF TimersAreOfAnAnswer
<1>3. PromisesAreOfTheirType'
  BY DEF StepInv, PromisesAreOfTheirType, Later
<1>4. Stages'
  BY DEF StepInv, Stages, Later
<1>5. Consumed'
  BY NothingIsLeft
<1> QED
  BY <1>1, <1>2, <1>3, <1>4, <1>5 DEF StepInv

LEMMA HandleSecurityResultKeeps ==
  ASSUME StepInv, HandleSecurityResult
  PROVE  StepInv'
<1> USE DEF client, async, stream, history
<1>1. ASSUME Awaits PROVE StepInv'
  BY <1>1, AwaitsKeeps DEF HandleSecurityResult, Calling
<1>2. /\ initState = "SecurityResult" /\ running # "no"
      /\ conn # "connected" /\ owed \in Kinds \union {"nothing"}
  BY DEF HandleSecurityResult, Calling, StepInv, Stages, Types
<1>3. ASSUME version = "3.3" PROVE StepInv'
  <2>1. /\ initState' = "ClientInitialisation" /\ conn' = conn
        /\ running' = "no" \/ running' = running
        /\ running' = "no" => running # "message"
        /\ UNCHANGED <<version, scheme, tightVNC, vencryptState, async, stream, history>>
    BY <1>2, <1>3 DEF HandleSecurityResult, Goes, Return
  <2>2. Expected = "nothing" /\ Expected' = "nothing"
    BY <1>2, <1>3, <2>1 DEF Expected
  <2>3. QueueOK' /\ InOrder'
    BY <2>1, <2>2, StreamStays
  <2>4. conn = "connecting" => queue' = <<>>
    BY <2>1, <2>2, NothingWaits
  <2>5. accepted' \in BOOLEAN
    BY <2>1 DEF StepInv, Types
  <2> QED
    BY <1>2, <2>1, <2>3, <2>4, <2>5, LaterKeeps DEF Later
<1>4. ASSUME version # "3.3", ~Awaits PROVE StepInv'
  <2> DEFINE is == Head(queue).is
             f == FollowsIn(version, Head(queue))
  <2>1. /\ Whole /\ Head(queue).kind = "result" /\ Take /\ accepted' = (is = "ok")
        /\ UNCHANGED <<version, scheme, tightVNC, vencryptState, async, owed, approved,
                       verified, provoked>>
    BY <1>4 DEF HandleSecurityResult, Has
  <2>2. is \in {"ok", "bad"}
    BY <2>1, HeadFacts DEF Contents
  <2>3. \/ /\ is = "ok" /\ initState' = "ClientInitialisation" /\ conn' = conn
           /\ running' = "no" \/ running' = running
           /\ running' = "no" => running # "message"
        \/ /\ is = "bad" /\ version = "3.8" /\ initState' = "SecurityReason" /\ conn' = conn
           /\ running' = "no" \/ running' = running
           /\ running' = "no" => running # "message"
        \/ /\ is = "bad" /\ version # "3.8" /\ initState' = initState /\ conn' = "ended"
           /\ running' = "no"
    BY <1>2, <1>4, <2>2 DEF HandleSecurityResult, Goes, Return, Fail
  <2>4. f = IF is = "bad" /\ version = "3.8" THEN "reason" ELSE "nothing"
    BY <2>1, <2>2 DEF FollowsIn
  <2>5. f # "nothing" => Expected' = "reason"
    BY <2>3, <2>4 DEF Expected, Reads
  <2>6. QueueOK' /\ InOrder'
    <3>1. conn' = "connecting" => conn = "connecting"
      BY <2>3
    <3> HIDE DEF f
    <3> QED
      BY <2>1, <2>4, <2>5, <3>1, StreamIsTaken DEF f
  <2>7. conn' = "connecting" => running' = running /\ running = "message"
    BY <1>2, <2>1, <2>3 DEF StepInv, Consumed
  <2>8. /\ initState' \in Later /\ accepted' \in BOOLEAN
        /\ conn' = conn \/ conn' = "ended"
        /\ running' = "no" \/ (running' = running /\ conn' = conn)
    BY <1>2, <2>1, <2>3 DEF Later
  <2> QED
    BY <1>2, <2>1, <2>6, <2>7, <2>8, LaterKeeps DEF Later
<1> QED
  BY <1>1, <1>3, <1>4

LEMMA ClientInitialisationKeeps ==
  ASSUME StepInv, ClientInitialisation
  PROVE  StepInv'
<1> USE DEF client, async, stream, history
<1>1. /\ initState = "ClientInitialisation" /\ initState' = "ServerInitialisation"
      /\ conn' = conn /\ owed' = "serverinit" /\ running # "no"
      /\ running' = "no" \/ running' = running
      /\ UNCHANGED <<version, scheme, tightVNC, vencryptState, async, queue, cut, history>>
  BY DEF ClientInitialisation, Calling, Goes, Sends, Return
<1>2. conn = "connecting" => queue = <<>>
  BY <1>1, NothingWaits DEF Expected
<1>3. AsRead(owed') = Expected'
  BY <1>1 DEF Expected, Reads, AsRead
<1>4. QueueOK' /\ InOrder'
  BY <1>1, <1>2, <1>3, StreamStays
<1>5. accepted' \in BOOLEAN /\ owed' \in Kinds
  BY <1>1 DEF StepInv, Types, Kinds
<1> QED
  BY <1>1, <1>2, <1>4, <1>5, LaterKeeps DEF Later

LEMMA NegotiateServerInitKeeps ==
  ASSUME StepInv, NegotiateServerInit
  PROVE  StepInv'
<1> USE DEF client, async, stream, history
<1>1. ASSUME Awaits PROVE StepInv'
  BY <1>1, AwaitsKeeps DEF NegotiateServerInit, Calling
<1>2. ASSUME ~Awaits PROVE StepInv'
  <2>1. /\ initState = "ServerInitialisation" /\ Whole /\ Take /\ running' = "no"
        /\ conn' = IF conn = "connecting" THEN "connected" ELSE conn
        /\ UNCHANGED <<client, async, owed, history>>
    BY <1>2 DEF NegotiateServerInit, Calling, Has, Return
  <2>2. conn' # "connecting"
    BY <2>1
  <2>3. QueueOK' /\ InOrder'
    BY <2>1, <2>2, StreamIsTaken
  <2>4. accepted' \in BOOLEAN /\ owed' \in Kinds \union {"nothing"}
    BY <2>1 DEF StepInv, Types
  <2> QED
    BY <2>1, <2>2, <2>3, <2>4, LaterKeeps DEF Later
<1> QED
  BY <1>1, <1>2

\* A step of the RA2 promise: it goes on, or is over and the result is read next.
LEMMA Ra2Keeps ==
  ASSUME StepInv, running = "no", conn = "connecting", ra2 # "none", Ra2Same,
         UNCHANGED <<credentials, accepted, provoked>>,
         asked' \subseteq Fields, approving' \in BOOLEAN, approved' \in BOOLEAN,
         verified' \in BOOLEAN, owed' \in Kinds \union {"nothing"}, QueueOK', InOrder',
         \/ /\ initState' = initState /\ conn' = conn
            /\ ra2' \in {"key", "approve", "random", "hash", "subtype", "answered"} \union Ra2Asks
         \/ /\ initState' = "SecurityResult" /\ ra2' = "none"
            /\ conn' = "ended" \/ (conn' = "connecting" /\ queue' = <<>>)
  PROVE  StepInv'
<1> USE DEF Ra2Same
<1>1. initState = "Authentication" /\ scheme = "RA2ne" /\ ard = "none"
  BY DEF StepInv, PromisesAreOfTheirType
<1>2. Types'
  BY DEF StepInv, Types, InitStates
<1>3. TimersAreOfAnAnswer'
  BY <1>1 DEF TimersAreOfAnAnswer, Asking, LeftFor, Later
<1>4. PromisesAreOfTheirType'
  BY <1>1 DEF PromisesAreOfTheirType, Ra2Asks
<1>5. Stages'
  BY <1>1 DEF StepInv, Stages
<1>6. Consumed'
  <2>1. CASE initState' = initState
    BY <1>1, <2>1 DEF Consumed, LeftFor
  <2>2. CASE initState' # initState
    BY <2>2, NothingIsLeft
  <2> QED
    BY <2>1, <2>2
<1> QED
  BY <1>2, <1>3, <1>4, <1>5, <1>6 DEF StepInv

Ra2Waits(from) ==
  /\ initState = "Authentication" /\ scheme = "RA2ne" /\ version # "3.3"
  /\ running = "no" /\ conn = "connecting" /\ ra2 = from
  /\ asked \subseteq Fields /\ approving \in BOOLEAN /\ approved \in BOOLEAN
  /\ verified \in BOOLEAN /\ owed \in Kinds \union {"nothing"}

LEMMA Ra2State ==
  ASSUME StepInv, Rfb33, NEW from, Ra2Step(from), from # "none"
  PROVE  Ra2Waits(from)
<1>1. initState = "Authentication" /\ scheme = "RA2ne" /\ ra2 = from
  BY DEF Ra2Step, StepInv, PromisesAreOfTheirType
<1> QED
  BY <1>1, TypesOf33 DEF Ra2Step, StepInv, Types, Ra2Waits

LEMMA Ra2KeyKeeps ==
  ASSUME StepInv, Rfb33, Ra2Key
  PROVE  StepInv'
<1> USE DEF history, Ra2Same
<1>1. /\ Ra2Step("key") /\ Whole /\ Take /\ Head(queue).kind = "ra2 key"
      /\ UNCHANGED <<credentials, asked, owed, history>> /\ Ra2Same
      /\ \/ /\ ra2' = "none" /\ initState' = "SecurityResult" /\ conn' = "ended"
            /\ approving' = approving
         \/ /\ ra2' = "approve" /\ UNCHANGED <<conn, initState>> /\ approving' = TRUE
  BY DEF Ra2Key, Has, Ra2Ends, Ra2Goes, Ra2Step
<1>0. Ra2Waits("key")
  BY <1>1, Ra2State
<1>2. FollowsIn(version, Head(queue)) = "nothing"
  BY <1>1 DEF FollowsIn
<1>3. QueueOK' /\ InOrder'
  BY <1>1, <1>2, StreamIsTaken DEF Ra2Step
<1> QED
  BY <1>0, <1>1, <1>3, Ra2Keeps DEF Ra2Waits

LEMMA ApproveServerKeeps ==
  ASSUME StepInv, Rfb33, ApproveServer
  PROVE  StepInv'
<1> USE DEF Ra2Same
<1>1. /\ Ra2Step("approve") /\ approving' = FALSE /\ approved' = TRUE
      /\ owed' = "ra2 random" /\ ra2' = "random" /\ UNCHANGED <<conn, initState>>
      /\ UNCHANGED <<credentials, asked, queue, verified, accepted, provoked>> /\ Ra2Same
  BY DEF ApproveServer, Sends, Ra2Goes
<1>0. Ra2Waits("approve")
  BY <1>1, Ra2State
<1>2. queue = <<>>
  BY <1>0, NothingWaits DEF Ra2Waits, Expected, Reads, Ra2Reads
<1>3. AsRead(owed') = Expected'
  BY <1>0, <1>1 DEF Ra2Waits, Expected, Reads, Ra2Reads, AsRead
<1>4. QueueOK' /\ InOrder'
  BY <1>1, <1>2, <1>3, StreamStays DEF Ra2Step
<1>5. owed' \in Kinds
  BY <1>1 DEF Kinds
<1> QED
  BY <1>0, <1>1, <1>4, <1>5, Ra2Keeps DEF Ra2Waits

LEMMA Ra2RandomKeeps ==
  ASSUME StepInv, Rfb33, Ra2Random
  PROVE  StepInv'
<1> USE DEF history, Ra2Same
<1>1. /\ Ra2Step("random") /\ queue # <<>> /\ Head(queue).kind = "ra2 random" /\ Take
      /\ UNCHANGED <<credentials, asked, approving, history>> /\ Ra2Same
      /\ \/ /\ ra2' = "none" /\ initState' = "SecurityResult" /\ conn' = "ended"
            /\ owed' = owed
         \/ /\ ra2' = "hash" /\ UNCHANGED <<conn, initState>> /\ owed' = "ra2 hash" /\ Whole
  BY DEF Ra2Random, Ra2Ends, Ra2Goes, Ra2Step, Sends
<1>0. Ra2Waits("random")
  BY <1>1, Ra2State
<1>2. FollowsIn(version, Head(queue)) = "nothing"
  BY <1>1 DEF FollowsIn
<1>3. QueueOK' /\ InOrder'
  <2>1. CASE Whole
    <3>1. conn' = "connecting" => AsRead(owed') = Expected'
      BY <1>0, <1>1 DEF Ra2Waits, Expected, Reads, Ra2Reads, AsRead
    <3> QED
      BY <1>1, <1>2, <2>1, <3>1, StreamIsTaken DEF Ra2Step
  <2>2. CASE ~Whole
    <3>1. queue \in Seq(Items) /\ Len(queue) <= 2 /\ cut' \in BOOLEAN /\ conn' = "ended"
      BY <1>1, <2>2 DEF StepInv, QueueOK
    <3>2. queue' \in Seq(Items) /\ Len(queue') <= 2
      <4>1. Tail(queue) \in Seq(Items) /\ Len(Tail(queue)) = Len(queue) - 1
        BY <1>1, <3>1, HeadTailProperties
      <4>2. Len(queue) \in Nat
        BY <3>1, LenProperties
      <4>3. queue' = Tail(queue)
        BY <1>1 DEF Take
      <4>4. Len(Tail(queue)) <= 2
        BY <3>1, <4>1, <4>2
      <4> QED
        BY <4>1, <4>3, <4>4
    <3> QED
      BY <3>1, <3>2 DEF QueueOK, InOrder
  <2> QED
    BY <2>1, <2>2
<1>4. owed' \in Kinds \union {"nothing"}
  BY <1>0, <1>1 DEF Ra2Waits, Kinds
<1> QED
  BY <1>0, <1>1, <1>3, <1>4, Ra2Keeps DEF Ra2Waits

LEMMA Ra2HashKeeps ==
  ASSUME StepInv, Rfb33, Ra2Hash
  PROVE  StepInv'
<1> USE DEF history, Ra2Same
<1>1. /\ Ra2Step("hash") /\ Whole /\ Head(queue).kind = "ra2 hash" /\ Take
      /\ verified' \in BOOLEAN
      /\ UNCHANGED <<credentials, asked, approving, owed, approved, accepted, provoked>>
      /\ Ra2Same
      /\ \/ ra2' = "none" /\ initState' = "SecurityResult" /\ conn' = "ended"
         \/ ra2' = "subtype" /\ UNCHANGED <<conn, initState>>
  BY DEF Ra2Hash, Has, Ra2Ends, Ra2Goes, Ra2Step
<1>0. Ra2Waits("hash")
  BY <1>1, Ra2State
<1>2. FollowsIn(version, Head(queue)) = "ra2 subtype"
  BY <1>1 DEF FollowsIn
<1>3. conn' = "connecting" => Expected' = "ra2 subtype"
  BY <1>0, <1>1 DEF Ra2Waits, Expected, Reads, Ra2Reads
<1>4. QueueOK' /\ InOrder'
  BY <1>1, <1>2, <1>3, StreamIsTaken DEF Ra2Step
<1> QED
  BY <1>0, <1>1, <1>4, Ra2Keeps DEF Ra2Waits

LEMMA Ra2SubtypeKeeps ==
  ASSUME StepInv, Rfb33, Ra2Subtype
  PROVE  StepInv'
<1> USE DEF history, Ra2Same
<1>1. /\ Ra2Step("subtype") /\ Whole /\ Head(queue).kind = "ra2 subtype" /\ Take
      /\ UNCHANGED <<credentials, approving, owed, history>> /\ Ra2Same
  BY DEF Ra2Subtype, Has
<1>0. Ra2Waits("subtype")
  BY <1>1, Ra2State
<1>2. Head(queue).is \in {"1", "2", "bad"}
  BY <1>1, HeadFacts DEF Contents
<1>3. \/ ra2' = "none" /\ initState' = "SecurityResult" /\ conn' = "ended" /\ asked' = asked
      \/ /\ ra2' \in {"answered"} \union Ra2Asks /\ UNCHANGED <<conn, initState>>
         /\ asked' = asked \/ asked' \in SUBSET Fields
  BY <1>1, <1>2 DEF Ra2Subtype, Ra2Ends, Ra2Goes, Ra2Step, Ra2Asks, Ra2Needs, Fields
<1>4. FollowsIn(version, Head(queue)) = "nothing"
  BY <1>1 DEF FollowsIn
<1>5. conn' = "connecting" => conn = "connecting"
  BY <1>3
<1>6. QueueOK' /\ InOrder'
  BY <1>1, <1>4, <1>5, StreamIsTaken
<1> QED
  BY <1>0, <1>1, <1>3, <1>6, Ra2Keeps DEF Ra2Waits

LEMMA Ra2CredentialsKeeps ==
  ASSUME StepInv, Rfb33, Ra2Credentials
  PROVE  StepInv'
<1> USE DEF history, Ra2Same
<1>1. /\ Ra2Step("answered") /\ owed' = "result" /\ ra2' = "none"
      /\ initState' = "SecurityResult" /\ conn' = conn
      /\ UNCHANGED <<credentials, asked, approving, queue, history>> /\ Ra2Same
  BY DEF Ra2Credentials, Sends, Ra2Ends
<1>0. Ra2Waits("answered")
  BY <1>1, Ra2State
<1>2. queue = <<>>
  BY <1>0, NothingWaits DEF Ra2Waits, Expected, Reads, Ra2Reads
<1>3. AsRead(owed') = Expected'
  BY <1>0, <1>1 DEF Ra2Waits, Expected, Reads, AsRead
<1>4. QueueOK' /\ InOrder'
  BY <1>1, <1>2, <1>3, StreamStays
<1>5. owed' \in Kinds
  BY <1>1 DEF Kinds
<1> QED
  BY <1>0, <1>1, <1>2, <1>4, <1>5, Ra2Keeps DEF Ra2Waits

LEMMA UserAndTimersKeep ==
  ASSUME StepInv, SendCredentials \/ ResumeAuthentication
  PROVE  StepInv'
<1> USE DEF client, async, stream, history
<1>1. /\ running = "no" /\ running' \in {"no", "resume"} /\ resumes' \in Nat
      /\ resumes > 0 \/ asked # {}
      /\ credentials' \subseteq Fields /\ asked' \subseteq Fields
      /\ UNCHANGED <<conn, client, ard, ra2, approving, stream, history>>
  <2>1. CASE SendCredentials
    BY <2>1, HandshakeAssumption DEF SendCredentials, StepInv, Types
  <2>2. CASE ResumeAuthentication
    BY <2>2 DEF ResumeAuthentication, StepInv, Types
  <2> QED
    BY <2>1, <2>2
<1>2. Expected' = Expected
  BY <1>1 DEF Expected, Reads, Ra2Reads, VeNCryptReads
<1>3. QueueOK' /\ InOrder'
  BY <1>1, <1>2, StreamStays
<1>4. Types'
  BY <1>1 DEF StepInv, Types
<1>5. TimersAreOfAnAnswer'
  BY <1>1 DEF StepInv, TimersAreOfAnAnswer
<1>6. PromisesAreOfTheirType'
  BY <1>1 DEF StepInv, PromisesAreOfTheirType
<1>7. Stages'
  BY <1>1 DEF StepInv, Stages
<1>8. Consumed'
  <2>1. Whole' <=> Whole
    BY <1>1 DEF Whole
  <2> QED
    BY <1>1, <2>1 DEF StepInv, Consumed
<1> QED
  BY <1>3, <1>4, <1>5, <1>6, <1>7, <1>8 DEF StepInv

LEMMA DisconnectKeeps ==
  ASSUME StepInv, Disconnect
  PROVE  StepInv'
<1> USE DEF stream
<1>1. /\ running = "no" /\ conn' = "ended" /\ provoked' = TRUE /\ approving' = FALSE
      /\ initState' = (IF ra2 = "none" THEN initState ELSE "SecurityResult") /\ ra2' = "none"
      /\ UNCHANGED <<version, scheme, tightVNC, vencryptState, credentials, ard, asked, resumes,
                     running, stream, approved, verified, accepted>>
  BY DEF Disconnect
<1>2. ra2 # "none" => initState = "Authentication" /\ scheme = "RA2ne"
  BY DEF StepInv, PromisesAreOfTheirType
<1>3. QueueOK' /\ InOrder'
  BY <1>1, StreamStays
<1>4. Types'
  <2>1. Types
    BY DEF StepInv
  <2>2. initState' \in InitStates
    BY <1>1, <2>1 DEF Types, InitStates
  <2>3. conn' \in {"connecting", "connected", "ended"} /\ ra2' = "none"
    BY <1>1
  <2>4. /\ approving' \in BOOLEAN /\ provoked' \in BOOLEAN
        /\ running' \in {"no", "message", "resume"}
    BY <1>1
  <2>5. /\ version' \in {"none", "3.3", "3.7", "3.8"}
        /\ scheme' \in Schemes \union {"none", "VNCAuth", "UnixLogon"}
        /\ tightVNC' \in BOOLEAN /\ vencryptState' \in 0 .. 3
        /\ credentials' \subseteq Fields /\ ard' \in {"none", "computing", "ready"}
    BY <1>1, <2>1 DEF Types
  <2>6. /\ asked' \subseteq Fields /\ resumes' \in Nat
        /\ owed' \in Kinds \union {"nothing"}
        /\ approved' \in BOOLEAN /\ verified' \in BOOLEAN /\ accepted' \in BOOLEAN
    BY <1>1, <2>1 DEF Types
  <2> QED
    BY <2>2, <2>3, <2>4, <2>5, <2>6 DEF Types
<1>5. TimersAreOfAnAnswer'
  BY <1>1, <1>2 DEF StepInv, TimersAreOfAnAnswer, Later
<1>6. PromisesAreOfTheirType'
  BY <1>1, <1>2 DEF StepInv, PromisesAreOfTheirType
<1>7. Stages'
  BY <1>1, <1>2 DEF StepInv, Stages
<1> QED
  BY <1>1, <1>3, <1>4, <1>5, <1>6, <1>7, NothingIsLeft DEF StepInv

LEMMA OneOrTwo ==
  /\ \A n \in Nat : n <= 2 /\ n # 0 => n = 1 \/ n = 2
  /\ \A n : n = 1 => 1 \in 1 .. n /\ n + 1 = 2
  /\ \A n : n = 2 => n <= 2
OBVIOUS

\* With nobody handling a message, what may still come follows an RA2 hash.
LEMMA RoomForMore ==
  ASSUME StepInv, Listening, ~cut, owed # "nothing", queue # <<>>
  PROVE  Len(queue) = 1 /\ queue[1].kind = "ra2 hash" /\ owed = "ra2 subtype"
<1>1. queue \in Seq(Items) /\ Len(queue) <= 2 /\ Len(queue) \in Nat
  BY LenProperties DEF StepInv, QueueOK
<1>2. Len(queue) = 1 \/ Len(queue) = 2
  <2>1. Len(queue) # 0
    BY <1>1, EmptySeq
  <2> QED
    BY <1>1, <2>1, OneOrTwo
<1>3. Whole /\ conn = "connecting" /\ running = "no"
  <2>1. Len(queue) = 1 \/ Len(queue) > 1
    BY <1>2
  <2> QED
    BY <2>1 DEF Whole, Listening
<1>4. initState = "Authentication" /\ scheme \in LeftFor
  BY <1>3 DEF StepInv, Consumed
<1>5. Expected \in {"challenge", "mslogon", "ard", "ra2 key", "ra2 random", "ra2 hash",
                   "ra2 subtype", "nothing"}
  BY <1>4 DEF Expected, Reads, Ra2Reads, FirstOf, LeftFor
<1>6. /\ queue[1].kind = Expected /\ owed = FollowsIn(version, queue[Len(queue)])
      /\ Len(queue) = 2 => queue[2].kind = FollowsIn(version, queue[1])
  BY <1>3 DEF StepInv, InOrder, Chained
<1>7. FollowsIn(version, queue[1]) =
        IF queue[1].kind = "ra2 hash" THEN "ra2 subtype" ELSE "nothing"
  BY <1>5, <1>6 DEF FollowsIn
<1>8. CASE Len(queue) = 1
  BY <1>6, <1>7, <1>8
<1>9. CASE Len(queue) = 2
  <2>1. queue[2] \in Items /\ queue[2].kind \in Kinds
    <3>1. 2 \in 1 .. Len(queue)
      BY <1>9
    <3>2. queue[2] \in Items
      BY <1>1, <3>1, ElementOfSeq
    <3> QED
      BY <3>2, ItemFacts
  <2>2. queue[2].kind = "ra2 subtype"
    BY <1>6, <1>7, <1>9, <2>1 DEF Kinds
  <2>3. FollowsIn(version, queue[2]) = "nothing"
    BY <2>2 DEF FollowsIn
  <2> QED
    BY <1>6, <1>9, <2>3
<1> QED
  BY <1>2, <1>8, <1>9

\* One item, or two, come in.
LEMMA Appended ==
  ASSUME NEW q \in Seq(Items), NEW item \in Items
  PROVE  /\ q \o <<item>> \in Seq(Items) /\ Len(q \o <<item>>) = Len(q) + 1
         /\ (q \o <<item>>)[Len(q) + 1] = item /\ q \o <<item>> # <<>>
         /\ \A k \in 1 .. Len(q) : (q \o <<item>>)[k] = q[k]
<1>1. <<item>> \in Seq(Items) /\ Len(<<item>>) = 1 /\ <<item>>[1] = item
  OBVIOUS
<1>2. Len(q) \in Nat
  BY LenProperties
<1>3. q \o <<item>> \in Seq(Items) /\ Len(q \o <<item>>) = Len(q) + 1
  BY <1>1, ConcatProperties
<1>4. \A i \in 1 .. Len(q) + Len(<<item>>) :
        (q \o <<item>>)[i] = IF i <= Len(q) THEN q[i] ELSE <<item>>[i - Len(q)]
  BY <1>1, ConcatProperties
<1>5. q \o <<item>> # <<>>
  BY <1>2, <1>3, EmptySeq
<1> QED
  BY <1>1, <1>2, <1>3, <1>4, <1>5

LEMMA MessageKeeps ==
  ASSUME StepInv, Listening, NEW items, NEW isCut \in BOOLEAN,
         NEW next \in Kinds \union {"nothing"}, Message(items, isCut, next),
         QueueOK', InOrder', ard = "none"
  PROVE  StepInv'
<1> USE DEF client, async
<1>1. /\ running = "no" /\ conn = "connecting" /\ running' = "message" /\ owed' = next
      /\ provoked' \in BOOLEAN
      /\ UNCHANGED <<conn, client, async, approved, verified, accepted>>
  BY DEF Listening, Message, StepInv, Types
<1>2. Types'
  BY <1>1 DEF StepInv, Types
<1>3. TimersAreOfAnAnswer' /\ Stages'
  BY <1>1 DEF StepInv, TimersAreOfAnAnswer, Stages
<1>4. PromisesAreOfTheirType'
  BY <1>1, OneForARD DEF StepInv, PromisesAreOfTheirType
<1>5. Consumed'
  BY <1>1 DEF Consumed
<1> QED
  BY <1>2, <1>3, <1>4, <1>5 DEF StepInv

LEMMA ArriveKeeps ==
  ASSUME StepInv, Arrive
  PROVE  StepInv'
<1> USE DEF client, async
<1>1. /\ Listening /\ ~cut /\ owed # "nothing" /\ conn = "connecting" /\ owed \in Kinds
      /\ queue \in Seq(Items) /\ Chained(queue, owed, version, Expected)
  BY DEF Arrive, Listening, StepInv, Types, QueueOK, InOrder
<1>2. ard = "none"
  BY <1>1 DEF StepInv, PromisesAreOfTheirType
<1>3. PICK item \in ItemsOf(owed) :
        \/ Message(<<item>>, FALSE, Follows(item))
        \/ Message(<<item>>, TRUE, Follows(item))
        \/ /\ Follows(item) # "nothing"
           /\ \E second \in ItemsOf(Follows(item)) :
                Message(<<item, second>>, FALSE, Follows(second))
  BY DEF Arrive
<1>4. item \in Items /\ item.kind = AsRead(owed) /\ item.kind \in Kinds
  BY <1>1, ItemOfKind
<1> DEFINE f == FollowsIn(version, item)
<1>5. Follows(item) = f /\ f \in (Kinds \ {"version", "server version"}) \union {"nothing"}
  BY FollowsInItsVersion, FollowsIsAKind
<1> HIDE DEF f
<1>6. ASSUME NEW isCut \in BOOLEAN, Message(<<item>>, isCut, f) PROVE StepInv'
  <2>1. queue' = queue \o <<item>> /\ cut' = isCut /\ owed' = f /\ version' = version
        /\ Expected' = Expected /\ conn' = conn
    BY <1>6 DEF Message, Expected, Reads, Ra2Reads, VeNCryptReads
  <2>2. CASE queue = <<>>
    <3>1. queue' \in Seq(Items) /\ Len(queue') = 1 /\ queue'[1] = item /\ queue' # <<>>
      <4>1. Len(queue) = 0
        BY <2>2, EmptySeq
      <4> QED
        BY <1>1, <1>4, <2>1, <4>1, Appended
    <3>2. QueueOK'
      BY <2>1, <3>1 DEF QueueOK
    <3>3. AsRead(owed) = Expected
      BY <1>1, <1>4, <2>2 DEF Chained, Kinds
    <3>4. Chained(queue', owed', version', Expected')
      BY <1>4, <2>1, <3>1, <3>3 DEF Chained, f
    <3> QED
      BY <1>1, <1>2, <1>5, <1>6, <3>2, <3>4, MessageKeeps DEF InOrder
  <2>3. CASE queue # <<>>
    <3>1. Len(queue) = 1 /\ queue[1].kind = "ra2 hash" /\ owed = "ra2 subtype"
      BY <1>1, <2>3, RoomForMore
    <3>2. queue' \in Seq(Items) /\ Len(queue') = 2 /\ queue'[1] = queue[1] /\ queue'[2] = item
          /\ queue' # <<>>
      <4>1. 1 \in 1 .. Len(queue) /\ Len(queue) + 1 = 2
        BY <3>1, OneOrTwo
      <4>2. /\ queue' \in Seq(Items) /\ Len(queue') = Len(queue) + 1
            /\ queue'[Len(queue) + 1] = item /\ queue' # <<>>
            /\ \A k \in 1 .. Len(queue) : queue'[k] = queue[k]
        BY <1>1, <1>4, <2>1, Appended
      <4> QED
        BY <4>1, <4>2
    <3>3. QueueOK'
      BY <2>1, <3>2 DEF QueueOK
    <3>4. item.kind = "ra2 subtype" /\ FollowsIn(version, queue[1]) = "ra2 subtype"
      BY <1>4, <3>1 DEF AsRead, FollowsIn
    <3>5. queue[1].kind = Expected
      BY <1>1, <2>3 DEF Chained
    <3>6. Chained(queue', owed', version', Expected')
      BY <2>1, <3>2, <3>4, <3>5 DEF Chained, f
    <3> QED
      BY <1>1, <1>2, <1>5, <1>6, <3>3, <3>6, MessageKeeps DEF InOrder
  <2> QED
    BY <2>2, <2>3
<1>7. ASSUME f # "nothing", NEW second \in ItemsOf(f),
             Message(<<item, second>>, FALSE, Follows(second))
      PROVE  StepInv'
  <2> DEFINE g == FollowsIn(version, second)
  <2>1. second \in Items /\ second.kind = f
    BY <1>5, <1>7, ItemOfKind DEF AsRead
  <2>2. Follows(second) = g /\ g \in Kinds \union {"nothing"}
    BY FollowsInItsVersion, FollowsIsAKind
  <2> HIDE DEF g
  <2>3. queue' = queue \o <<item, second>> /\ cut' = FALSE /\ owed' = g /\ version' = version
        /\ Expected' = Expected /\ conn' = conn
    BY <1>7, <2>2 DEF Message, Expected, Reads, Ra2Reads, VeNCryptReads
  <2>4. queue = <<>>
    <3> SUFFICES ASSUME queue # <<>> PROVE FALSE
      OBVIOUS
    <3>1. owed = "ra2 subtype"
      BY <1>1, RoomForMore
    <3>2. item.kind = "ra2 subtype"
      BY <1>4, <3>1 DEF AsRead
    <3> QED
      BY <1>7, <3>2 DEF f, FollowsIn
  <2>5. queue' = <<item, second>>
    <3>1. <<item, second>> \in Seq(Items)
      BY <1>4, <2>1
    <3> QED
      BY <2>3, <2>4, <3>1, ConcatEmptySeq
  <2>6. queue' \in Seq(Items) /\ Len(queue') = 2 /\ queue'[1] = item /\ queue'[2] = second
        /\ queue' # <<>>
    BY <1>4, <2>1, <2>5
  <2>7. QueueOK'
    <3>1. Len(queue') <= 2
      BY <2>6, OneOrTwo
    <3>2. cut' = FALSE
      BY <2>3
    <3> QED
      BY <2>6, <3>1, <3>2 DEF QueueOK
  <2>8. AsRead(owed) = Expected
    BY <1>1, <1>4, <2>4 DEF Chained, Kinds
  <2>9. Chained(queue', owed', version', Expected')
    BY <1>4, <2>1, <2>3, <2>6, <2>8 DEF Chained, f, g
  <2> QED
    BY <1>1, <1>2, <1>7, <2>2, <2>7, <2>9, MessageKeeps DEF InOrder
<1> QED
  BY <1>3, <1>5, <1>6, <1>7

LEMMA ArriveRestKeeps ==
  ASSUME StepInv, ArriveRest
  PROVE  StepInv'
<1> USE DEF client, async
<1>1. /\ Listening /\ cut /\ conn = "connecting" /\ Message(<<>>, FALSE, owed)
      /\ owed \in Kinds \union {"nothing"} /\ queue \in Seq(Items) /\ queue # <<>>
  BY DEF ArriveRest, Listening, StepInv, Types, QueueOK
<1>2. ard = "none"
  BY <1>1 DEF StepInv, PromisesAreOfTheirType
<1>3. /\ queue' = queue /\ cut' = FALSE /\ owed' = owed /\ version' = version /\ conn' = conn
      /\ Expected' = Expected
  BY <1>1, ConcatEmptySeq DEF Message, Expected, Reads, Ra2Reads, VeNCryptReads
<1>4. QueueOK'
  BY <1>3 DEF StepInv, QueueOK
<1>5. InOrder'
  BY <1>3 DEF StepInv, InOrder
<1> QED
  BY <1>1, <1>2, <1>4, <1>5, MessageKeeps

LEMMA StepKeeps ==
  ASSUME StepInv, Rfb33, [HandshakeNext]_vars
  PROVE  StepInv'
<1>1. ASSUME InitMsg PROVE StepInv'
  BY <1>1, NegotiateProtocolVersionKeeps, NegotiateSecurityKeeps, HandleSecurityReasonKeeps,
     AuthNoneKeeps, AuthUnsupportedKeeps, NegotiateStdVNCAuthKeeps,
     NegotiateMSLogonIIAuthKeeps, NegotiateXvpAuthKeeps, NegotiatePlainAuthKeeps,
     NegotiateARDAuthKeeps, NegotiateVeNCryptAuthKeeps, NegotiateTightTunnelsKeeps,
     NegotiateTightSubAuthKeeps, NegotiateRA2neAuthKeeps, HandleSecurityResultKeeps,
     ClientInitialisationKeeps, NegotiateServerInitKeeps DEF InitMsg
<1>2. ASSUME Promises PROVE StepInv'
  BY <1>2, NegotiateARDAuthAsyncKeeps, Ra2KeyKeeps, Ra2RandomKeeps, Ra2HashKeeps,
     Ra2SubtypeKeeps, Ra2CredentialsKeeps DEF Promises
<1>3. ASSUME UNCHANGED vars PROVE StepInv'
  <2> USE <1>3 DEF vars, client, async, stream, history
  <2>1. Types' /\ QueueOK'
    BY DEF StepInv, Types, QueueOK
  <2>2. InOrder'
    BY DEF StepInv, InOrder, Expected, Reads, Ra2Reads, VeNCryptReads
  <2>3. Consumed'
    BY DEF StepInv, Consumed, Whole
  <2>4. TimersAreOfAnAnswer' /\ Stages' /\ PromisesAreOfTheirType'
    BY DEF StepInv, TimersAreOfAnAnswer, Stages, PromisesAreOfTheirType
  <2> QED
    BY <2>1, <2>2, <2>3, <2>4 DEF StepInv
<1> QED
  BY <1>1, <1>2, <1>3, ArriveKeeps, ArriveRestKeeps, ApproveServerKeeps, UserAndTimersKeep,
     DisconnectKeeps DEF HandshakeNext, User

LEMMA Step == ASSUME Rfb33 PROVE Spec => []StepInv
<1>1. StepInv /\ [HandshakeNext]_vars => StepInv'
  BY StepKeeps
<1> QED
  BY <1>1, InitStep, PTL DEF Spec

(***************************************************************************)
(* However the stream is cut and whatever timer or promise runs, the client *)
(* reads each item as what the server sent it as (_initMsg and ra2.js).     *)
(***************************************************************************)
THEOREM StaysInStep == ASSUME Rfb33 PROVE Spec => []InStep
<1>1. StepInv => InStep
  <2> SUFFICES ASSUME StepInv, conn = "connecting", queue # <<>>
               PROVE  Head(queue).kind = Reads
    BY DEF InStep
  <2>1. Head(queue) = queue[1] /\ queue[1] \in Items /\ queue[1].kind = Expected
    BY DEF StepInv, QueueOK, InOrder, Chained
  <2>2. Expected # "nothing"
    BY <2>1, ItemFacts DEF Kinds
  <2> QED
    BY <2>1, <2>2 DEF Expected
<1> QED
  BY <1>1, Step, PTL

-----------------------------------------------------------------------------
(* Types: with a user who answers all that is asked, no question is asked   *)
(* twice and at most two timers resume the handshake, that of the answer    *)
(* and that of the ARD keys.                                                *)

TimersAreFew ==
  /\ credentials \in {{}, {"password"}, Fields}
  /\ credentials # Fields => resumes = 0 /\ ard = "none"
  /\ asked # {} => credentials # Fields
  /\ ard # "ready" => resumes <= 1
  /\ resumes <= 2
  /\ ard = "ready" /\ running # "no" => running = "resume" /\ resumes <= 1

\* A step of _initMsg asks, computes the ARD keys or leaves all that alone.
LEMMA InitMsgAsks ==
  ASSUME InitMsg
  PROVE  \/ /\ running' \in {running, "no"}
            /\ UNCHANGED <<credentials, ard, asked, resumes>>
         \/ NegotiateARDAuth
         \/ \E fields \in SUBSET Fields : Asks(fields)
<1> USE DEF async, Awaits, Return, Goes, Fail
<1> DEFINE Goal == \/ /\ running' \in {running, "no"}
                      /\ UNCHANGED <<credentials, ard, asked, resumes>>
                   \/ NegotiateARDAuth
                   \/ \E fields \in SUBSET Fields : Asks(fields)
<1>1. NegotiateProtocolVersion => Goal
  BY DEF NegotiateProtocolVersion
<1>2. NegotiateSecurity => Goal
  BY DEF NegotiateSecurity
<1>3. HandleSecurityReason \/ AuthNone \/ AuthUnsupported => Goal
  BY DEF HandleSecurityReason, AuthNone, AuthUnsupported
<1>4. NegotiateStdVNCAuth => Goal
  BY DEF NegotiateStdVNCAuth, Fields
<1>5. NegotiateMSLogonIIAuth => Goal
  BY DEF NegotiateMSLogonIIAuth, Fields
<1>6. NegotiateXvpAuth => Goal
  BY DEF NegotiateXvpAuth
<1>7. NegotiatePlainAuth \/ NegotiateTightUnixAuth => Goal
  BY DEF NegotiatePlainAuth, NegotiateTightUnixAuth, Fields
<1>8. NegotiateVeNCryptAuth => Goal
  BY DEF NegotiateVeNCryptAuth
<1>9. NegotiateTightTunnels => Goal
  BY DEF NegotiateTightTunnels
<1>10. NegotiateTightSubAuth => Goal
  BY DEF NegotiateTightSubAuth
<1>11. NegotiateRA2neAuth => Goal
  BY DEF NegotiateRA2neAuth
<1>12. HandleSecurityResult => Goal
  BY DEF HandleSecurityResult
<1>13. ClientInitialisation \/ NegotiateServerInit => Goal
  BY DEF ClientInitialisation, NegotiateServerInit
<1> QED
  BY <1>1, <1>2, <1>3, <1>4, <1>5, <1>6, <1>7, <1>8, <1>9, <1>10, <1>11, <1>12, <1>13
     DEF InitMsg

LEMMA FewKept ==
  ASSUME StepInv, TimersAreFew, UserFields = Fields, [HandshakeNext]_vars
  PROVE  TimersAreFew'
<1> DEFINE Same == UNCHANGED <<credentials, ard, asked, resumes>>
<1>0. resumes \in Nat /\ ard \in {"none", "computing", "ready"}
  BY DEF StepInv, Types
<1>1. ASSUME Same, running' \in {running, "no"} PROVE TimersAreFew'
  BY <1>1 DEF TimersAreFew
<1>2. ASSUME NEW fields \in SUBSET Fields, Asks(fields) PROVE TimersAreFew'
  BY <1>2 DEF TimersAreFew, Asks, Ask, Return
<1>3. ASSUME NegotiateARDAuth PROVE TimersAreFew'
  <2>1. ASSUME ~Asks({"username", "password"}), running # "no" PROVE credentials = Fields
    BY <1>3, <2>1 DEF NegotiateARDAuth, Knows, TimersAreFew, Fields
  <2>2. running # "no"
    BY <1>3 DEF NegotiateARDAuth, Authenticating, Calling
  <2>3. ASSUME ~Asks({"username", "password"}) PROVE TimersAreFew'
    <3>1. credentials = Fields
      BY <2>1, <2>2, <2>3
    <3>2. /\ UNCHANGED <<credentials, asked, resumes>>
          /\ \/ ard' = "none" /\ ard = "ready"
             \/ ard' = ard /\ ard # "ready"
             \/ ard' = "computing" /\ ard # "ready"
      BY <1>3, <2>3 DEF NegotiateARDAuth, Awaits, async
    <3> QED
      BY <1>0, <2>2, <3>1, <3>2 DEF TimersAreFew
  <2> QED
    BY <1>2, <2>3 DEF Fields
<1>4. ASSUME InitMsg PROVE TimersAreFew'
  BY <1>1, <1>2, <1>3, <1>4, InitMsgAsks
<1>5. ASSUME NegotiateARDAuthAsync PROVE TimersAreFew'
  BY <1>0, <1>5 DEF NegotiateARDAuthAsync, TimersAreFew
<1>6. ASSUME Ra2Subtype PROVE TimersAreFew'
  <2>1. /\ UNCHANGED <<credentials, ard, resumes, running>>
        /\ asked' = asked \/ credentials # Fields
    BY <1>6 DEF Ra2Subtype, Ra2Same, Knows, Ra2Needs, Fields
  <2> QED
    BY <2>1 DEF TimersAreFew
<1>7. ASSUME Ra2Key \/ Ra2Random \/ Ra2Hash \/ Ra2Credentials \/ ApproveServer
      PROVE  TimersAreFew'
  BY <1>1, <1>7 DEF Ra2Key, Ra2Random, Ra2Hash, Ra2Credentials, ApproveServer, Ra2Same
<1>8. ASSUME SendCredentials PROVE TimersAreFew'
  BY <1>0, <1>8 DEF SendCredentials, TimersAreFew
<1>9. ASSUME ResumeAuthentication PROVE TimersAreFew'
  BY <1>0, <1>9 DEF ResumeAuthentication, TimersAreFew
<1>10. ASSUME Disconnect PROVE TimersAreFew'
  BY <1>1, <1>10 DEF Disconnect
<1>11. ASSUME Arrive \/ ArriveRest PROVE TimersAreFew'
  <2>1. /\ Same /\ running = "no"
    BY <1>11 DEF Arrive, ArriveRest, Message, async, Listening
  <2>2. ard = "none"
    <3>1. conn = "connecting" /\ (owed # "nothing" \/ cut)
      BY <1>11 DEF Arrive, ArriveRest, Listening
    <3> QED
      BY <3>1 DEF StepInv, PromisesAreOfTheirType, QueueOK
  <2> QED
    BY <2>1, <2>2 DEF TimersAreFew
<1>12. ASSUME UNCHANGED vars PROVE TimersAreFew'
  BY <1>1, <1>12 DEF vars, async
<1> QED
  BY <1>4, <1>5, <1>6, <1>7, <1>8, <1>9, <1>10, <1>11, <1>12 DEF HandshakeNext, Promises, User

(***************************************************************************)
(* Every variable keeps its type; of the timers that resume the handshake   *)
(* there are never more than two (_resumeAuthentication).                   *)
(***************************************************************************)
THEOREM TypeCorrect == ASSUME Rfb33, UserFields = Fields PROVE Spec => []TypeOK
<1>1. Init => TimersAreFew
  BY DEF Init, TimersAreFew
<1>2. StepInv /\ TimersAreFew /\ [HandshakeNext]_vars => TimersAreFew'
  BY FewKept
<1>3. StepInv /\ TimersAreFew => TypeOK
  <2> SUFFICES ASSUME StepInv, TimersAreFew PROVE TypeOK
    OBVIOUS
  <2>1. \A k \in 1 .. Len(queue) : queue[k].kind \in Kinds
    <3>1. \A k \in 1 .. Len(queue) : queue[k] \in Items
      BY ElementOfSeq DEF StepInv, QueueOK
    <3> QED
      BY <3>1, ItemFacts
  <2>2. resumes \in 0 .. 2
    BY DEF StepInv, Types, TimersAreFew
  <2>3. history \in [1 .. 4 -> BOOLEAN]
    BY DEF StepInv, Types, history
  <2> QED
    BY <2>1, <2>2, <2>3 DEF StepInv, Types, QueueOK, TypeOK
<1> QED
  BY <1>1, <1>2, <1>3, Step, PTL DEF Spec

-----------------------------------------------------------------------------
(* The outcome: whatever can make the code give up was sent by the server   *)
(* as a refusal, and is known as one from its arrival on.  This needs       *)
(* neither the order of the stream nor a limit on version 3.3; that the      *)
(* code gives up for a reason needs that the one item it reads without      *)
(* waiting for all of it is never cut.                                      *)

RefusalsAreKnown ==
  /\ queue \in Seq(Items)
  /\ \A k \in 1 .. Len(queue) : Refuses(queue[k]) => provoked
  /\ RandomIsWhole /\ cut => queue # <<>> /\ queue[Len(queue)].kind # "ra2 random"
  /\ initState = "SecurityReason" => provoked
  /\ scheme = "unsupported" => provoked

AcceptedFirst ==
  /\ initState \in {"ClientInitialisation", "ServerInitialisation"} =>
       accepted \/ version = "3.3"
  /\ conn = "connected" => initState = "ServerInitialisation"

EndInv ==
  /\ RefusalsAreKnown /\ AcceptedFirst
  /\ RandomIsWhole => GivesUpForAReason
  /\ ConnectedIsAccepted
  /\ owed \in Kinds \union {"nothing"} /\ provoked \in BOOLEAN /\ cut \in BOOLEAN

LEMMA EmptyFacts ==
  ASSUME NEW q, q = <<>>
  PROVE  q \in Seq(Items) /\ \A k \in 1 .. Len(q) : FALSE
<1>1. Len(q) = 0
  OBVIOUS
<1> QED
  BY <1>1

LEMMA InitEnd == Init => EndInv
<1> SUFFICES ASSUME Init PROVE EndInv
  OBVIOUS
<1>1. queue = <<>> /\ cut = FALSE /\ initState = "ProtocolVersion" /\ scheme = "none"
      /\ conn = "connecting" /\ owed = "version" /\ provoked = FALSE
  BY DEF Init
<1>2. queue \in Seq(Items) /\ \A k \in 1 .. Len(queue) : Refuses(queue[k]) => provoked
  BY <1>1, EmptyFacts
<1>3. RefusalsAreKnown
  BY <1>1, <1>2 DEF RefusalsAreKnown
<1> QED
  BY <1>1, <1>3 DEF EndInv, AcceptedFirst, GivesUpForAReason, ConnectedIsAccepted, Kinds

\* The first item of a queue, and the rest of it.
LEMMA FirstAndRest ==
  ASSUME NEW q \in Seq(Items), q # <<>>
  PROVE  /\ Len(q) \in Nat /\ Len(q) # 0 /\ 1 \in 1 .. Len(q) /\ Head(q) = q[1]
         /\ Head(q) \in Items /\ Head(q).is \in Contents(Head(q).kind)
         /\ Tail(q) \in Seq(Items) /\ Len(Tail(q)) = Len(q) - 1
         /\ \A k \in 1 .. Len(Tail(q)) : Tail(q)[k] = q[k + 1] /\ k + 1 \in 1 .. Len(q)
         /\ Len(q) > 1 => Tail(q) # <<>> /\ Tail(q)[Len(Tail(q))] = q[Len(q)]
<1>1. Len(q) \in Nat /\ Len(q) # 0
  BY LenProperties, EmptySeq
<1>2. Head(q) \in Items /\ Tail(q) \in Seq(Items) /\ Len(Tail(q)) = Len(q) - 1
      /\ \A k \in 1 .. Len(Tail(q)) : Tail(q)[k] = q[k + 1]
  BY HeadTailProperties
<1>3. 1 \in 1 .. Len(q) /\ Head(q) = q[1]
  BY <1>1
<1>4. Head(q).is \in Contents(Head(q).kind)
  BY <1>2, ItemFacts
<1>5. \A k \in 1 .. Len(Tail(q)) : k + 1 \in 1 .. Len(q)
  BY <1>1, <1>2
<1>6. ASSUME Len(q) > 1 PROVE Tail(q) # <<>> /\ Tail(q)[Len(Tail(q))] = q[Len(q)]
  <2>1. Len(Tail(q)) \in 1 .. Len(Tail(q)) /\ Len(Tail(q)) + 1 = Len(q) /\ Len(Tail(q)) # 0
    BY <1>1, <1>2, <1>6
  <2> QED
    BY <1>2, <2>1, EmptySeq
<1> QED
  BY <1>1, <1>2, <1>3, <1>4, <1>5, <1>6

LEMMA HeadIsKnown ==
  ASSUME RefusalsAreKnown, queue # <<>>
  PROVE  /\ Head(queue).is \in Contents(Head(queue).kind)
         /\ Refuses(Head(queue)) => provoked
<1>1. queue \in Seq(Items) /\ 1 \in 1 .. Len(queue) /\ Head(queue) = queue[1]
      /\ Head(queue).is \in Contents(Head(queue).kind)
  BY FirstAndRest DEF RefusalsAreKnown
<1> QED
  BY <1>1 DEF RefusalsAreKnown

LEMMA WholeIsSome == ASSUME queue \in Seq(Items), Whole PROVE queue # <<>>
<1>1. ASSUME queue = <<>> PROVE FALSE
  <2>1. Len(queue) = 0
    BY <1>1
  <2> QED
    BY <2>1 DEF Whole
<1> QED
  BY <1>1

\* What is left of the queue was known before.
LEMMA TakenIsKnown ==
  ASSUME RefusalsAreKnown, cut \in BOOLEAN, queue # <<>>, Take, provoked' = provoked,
         RandomIsWhole /\ cut => Len(queue) > 1,
         initState' = "SecurityReason" => provoked, scheme' = "unsupported" => provoked
  PROVE  RefusalsAreKnown'
<1>1. queue \in Seq(Items) /\ queue' = Tail(queue) /\ cut' = cut
  BY DEF RefusalsAreKnown, Take
<1>2. queue' \in Seq(Items)
  BY <1>1, FirstAndRest
<1>3. ASSUME NEW k \in 1 .. Len(queue'), Refuses(queue'[k]) PROVE provoked'
  <2>1. queue'[k] = queue[k + 1] /\ k + 1 \in 1 .. Len(queue)
    BY <1>1, FirstAndRest
  <2> QED
    BY <1>3, <2>1 DEF RefusalsAreKnown
<1>4. ASSUME RandomIsWhole, cut' PROVE queue' # <<>> /\ queue'[Len(queue')].kind # "ra2 random"
  <2>1. queue' # <<>> /\ queue'[Len(queue')] = queue[Len(queue)]
    BY <1>1, <1>4, FirstAndRest
  <2> QED
    BY <1>1, <1>4, <2>1 DEF RefusalsAreKnown
<1> QED
  BY <1>2, <1>3, <1>4 DEF RefusalsAreKnown

LEMMA UntakenIsKnown ==
  ASSUME RefusalsAreKnown, UNCHANGED <<queue, cut>>, provoked => provoked',
         initState' = "SecurityReason" => provoked', scheme' = "unsupported" => provoked'
  PROVE  RefusalsAreKnown'
BY DEF RefusalsAreKnown

\* A step that ends the handshake only for a reason, and accepts nothing.
LEMMA EndKept ==
  ASSUME EndInv, RefusalsAreKnown', owed' \in Kinds \union {"nothing"},
         cut' \in BOOLEAN, provoked' \in BOOLEAN, provoked => provoked',
         UNCHANGED <<version, accepted>>,
         conn' = conn \/ (conn' = "ended" /\ (RandomIsWhole => provoked')),
         conn = "connected" => initState' = initState,
         initState' \in {"ClientInitialisation", "ServerInitialisation"} =>
           initState \in {"ClientInitialisation", "ServerInitialisation"}
  PROVE  EndInv'
BY DEF EndInv, AcceptedFirst, GivesUpForAReason, ConnectedIsAccepted

\* A step of _initMsg: what holds where it is called.
LEMMA CalledFacts ==
  ASSUME EndInv, NEW state, Calling(state), state # "ServerInitialisation"
  PROVE  conn # "connected" /\ initState = state
BY DEF EndInv, AcceptedFirst, Calling

LEMMA WholeFacts ==
  ASSUME EndInv, Whole
  PROVE  /\ queue # <<>> /\ (cut => Len(queue) > 1)
         /\ Head(queue).is \in Contents(Head(queue).kind)
         /\ Refuses(Head(queue)) => provoked
<1>1. queue # <<>>
  BY WholeIsSome DEF EndInv, RefusalsAreKnown
<1>2. cut => Len(queue) > 1
  BY DEF Whole
<1> QED
  BY <1>1, <1>2, HeadIsKnown DEF EndInv

LEMMA FirstOfIsAKind == \A s : FirstOf(s) \in Kinds \union {"nothing"}
BY DEF FirstOf, Kinds

LEMMA NothingDone == ASSUME EndInv, Awaits PROVE EndInv'
<1>1. UNCHANGED <<queue, cut, initState, scheme, provoked, owed, version, accepted, conn>>
  BY DEF Awaits, client, stream, history
<1>2. RefusalsAreKnown'
  BY <1>1, UntakenIsKnown DEF EndInv, RefusalsAreKnown
<1> QED
  BY <1>1, <1>2, EndKept DEF EndInv

LEMMA OnlyAsked == ASSUME EndInv, NEW fields, Asks(fields) PROVE EndInv'
<1>1. UNCHANGED <<queue, cut, initState, scheme, provoked, owed, version, accepted, conn>>
  BY DEF Asks, client, stream, history
<1>2. RefusalsAreKnown'
  BY <1>1, UntakenIsKnown DEF EndInv, RefusalsAreKnown
<1> QED
  BY <1>1, <1>2, EndKept DEF EndInv

\* A step of _initMsg or of a promise that takes an item.
LEMMA TakingKeeps ==
  ASSUME EndInv, queue # <<>>, RandomIsWhole /\ cut => Len(queue) > 1, Take,
         UNCHANGED provoked,
         initState' = "SecurityReason" => provoked, scheme' = "unsupported" => provoked,
         owed' \in Kinds \union {"nothing"}, UNCHANGED <<version, accepted>>,
         conn' = conn \/ (conn' = "ended" /\ (RandomIsWhole => provoked)), conn # "connected",
         initState' \in {"ClientInitialisation", "ServerInitialisation"} =>
           initState \in {"ClientInitialisation", "ServerInitialisation"}
  PROVE  EndInv'
<1>1. RefusalsAreKnown'
  BY TakenIsKnown DEF EndInv
<1>2. cut' = cut
  BY DEF Take
<1> QED
  BY <1>1, <1>2, EndKept DEF EndInv

\* The same without one.
LEMMA LeavingKeeps ==
  ASSUME EndInv, UNCHANGED <<queue, cut, provoked>>,
         initState' = "SecurityReason" => provoked, scheme' = "unsupported" => provoked,
         owed' \in Kinds \union {"nothing"}, UNCHANGED <<version, accepted>>,
         conn' = conn \/ (conn' = "ended" /\ (RandomIsWhole => provoked)),
         conn = "connected" => initState' = initState,
         initState' \in {"ClientInitialisation", "ServerInitialisation"} =>
           initState \in {"ClientInitialisation", "ServerInitialisation"}
  PROVE  EndInv'
<1>1. RefusalsAreKnown'
  BY UntakenIsKnown DEF EndInv
<1> QED
  BY <1>1, EndKept DEF EndInv

LEMMA ProtocolVersionEnds == ASSUME EndInv, NegotiateProtocolVersion PROVE EndInv'
<1>1. SUFFICES ASSUME ~Awaits PROVE EndInv'
  BY NothingDone
<1>2. Has("version") /\ Take /\ Calling("ProtocolVersion") /\ UNCHANGED <<scheme, history>>
  BY <1>1 DEF NegotiateProtocolVersion
<1>3. /\ conn # "connected" /\ initState = "ProtocolVersion" /\ Whole
      /\ Head(queue).kind = "version"
  BY <1>2, CalledFacts DEF Has
<1>4. UNCHANGED <<provoked, accepted>>
  BY <1>2 DEF history
<1>5. scheme' = "unsupported" => provoked
  BY <1>2 DEF EndInv, RefusalsAreKnown
<1>6. CASE Head(queue).is = "repeater"
  <2>1. owed' = "server version" /\ UNCHANGED <<conn, initState, version>>
    BY <1>1, <1>6 DEF NegotiateProtocolVersion, Sends
  <2> QED
    BY <1>2, <1>3, <1>4, <1>5, <2>1, WholeFacts, TakingKeeps DEF Kinds
<1>7. CASE Head(queue).is = "other"
  <2>1. conn' = "ended" /\ UNCHANGED <<owed, initState, version>>
    BY <1>1, <1>7 DEF NegotiateProtocolVersion, Fail
  <2>2. provoked
    BY <1>3, <1>7, WholeFacts DEF Refuses, Refusals
  <2> QED
    BY <1>2, <1>3, <1>4, <1>5, <2>1, <2>2, WholeFacts, TakingKeeps DEF EndInv
<1>8. CASE Head(queue).is \notin {"repeater", "other"}
  <2>1. owed' \in {"scheme", "types"} /\ initState' = "Security" /\ conn' = conn
    BY <1>1, <1>8 DEF NegotiateProtocolVersion, Sends, Goes
  <2>2. RefusalsAreKnown'
    BY <1>2, <1>3, <1>4, <1>5, <2>1, WholeFacts, TakenIsKnown DEF EndInv
  <2>3. cut' = cut
    BY <1>2 DEF Take
  <2>4. owed' \in Kinds
    BY <2>1 DEF Kinds
  <2> QED
    BY <1>3, <1>4, <2>1, <2>2, <2>3, <2>4
       DEF EndInv, AcceptedFirst, GivesUpForAReason, ConnectedIsAccepted
<1> QED
  BY <1>6, <1>7, <1>8

LEMMA SecurityEnds == ASSUME EndInv, NegotiateSecurity PROVE EndInv'
<1>1. SUFFICES ASSUME ~Awaits PROVE EndInv'
  BY NothingDone
<1>2. Whole /\ Take /\ Calling("Security") /\ UNCHANGED <<version, history>>
      /\ Head(queue).kind \in {"scheme", "types"}
  BY <1>1 DEF NegotiateSecurity, Has
<1>3. conn # "connected" /\ initState = "Security"
  BY <1>2, CalledFacts
<1>4. UNCHANGED <<provoked, accepted>>
  BY <1>2 DEF history
<1>5. Head(queue).is \in {"empty", "refused", "unsupported"} => provoked
  BY <1>2, WholeFacts DEF Refuses, Refusals
<1>6. scheme = "unsupported" => provoked
  BY DEF EndInv, RefusalsAreKnown
<1>7. CASE Head(queue).is \in {"empty", "refused"}
  <2>1. initState' = "SecurityReason" /\ UNCHANGED <<conn, scheme, owed>>
    BY <1>1, <1>7 DEF NegotiateSecurity, Goes
  <2> QED
    BY <1>2, <1>3, <1>4, <1>5, <1>6, <1>7, <2>1, WholeFacts, TakingKeeps DEF EndInv
<1>8. CASE Head(queue).is \notin {"empty", "refused"}
  <2>1. CASE Head(queue).is = "unsupported" /\ version # "3.3"
    <3>1. conn' = "ended" /\ UNCHANGED <<initState, scheme, owed>>
      BY <1>1, <1>8, <2>1 DEF NegotiateSecurity, Fail
    <3> QED
      BY <1>2, <1>3, <1>4, <1>5, <1>6, <2>1, <3>1, WholeFacts, TakingKeeps DEF EndInv
  <2>2. CASE ~(Head(queue).is = "unsupported" /\ version # "3.3")
    <3>1. /\ scheme' = Head(queue).is /\ initState' = "Authentication" /\ conn' = conn
          /\ owed' = owed \/ owed' = FirstOf(Head(queue).is)
      BY <1>1, <1>8, <2>2 DEF NegotiateSecurity, Goes, Sends
    <3>2. owed' \in Kinds \union {"nothing"}
      BY <3>1, FirstOfIsAKind DEF EndInv
    <3> QED
      BY <1>2, <1>3, <1>4, <1>5, <3>1, <3>2, WholeFacts, TakingKeeps
  <2> QED
    BY <2>1, <2>2
<1> QED
  BY <1>7, <1>8

LEMMA SecurityReasonEnds == ASSUME EndInv, HandleSecurityReason PROVE EndInv'
<1>1. SUFFICES ASSUME ~Awaits PROVE EndInv'
  BY NothingDone
<1>2. Whole /\ Take /\ Calling("SecurityReason") /\ UNCHANGED <<client, owed, history>>
      /\ conn' = "ended"
  BY <1>1 DEF HandleSecurityReason, Has, Fail
<1>3. conn # "connected" /\ initState = "SecurityReason"
  BY <1>2, CalledFacts
<1>4. UNCHANGED <<provoked, accepted, version, scheme, initState>>
  BY <1>2 DEF history, client
<1>5. provoked /\ owed \in Kinds \union {"nothing"}
  BY <1>3 DEF EndInv, RefusalsAreKnown
<1> QED
  BY <1>2, <1>3, <1>4, <1>5, WholeFacts, TakingKeeps

\* Authentication, of every type but VeNCrypt, Tight and RA2, which go on in it.
LEMMA AuthenticationEnds ==
  ASSUME EndInv,
         \/ AuthNone \/ AuthUnsupported \/ NegotiateStdVNCAuth \/ NegotiateMSLogonIIAuth
         \/ NegotiateXvpAuth \/ NegotiatePlainAuth \/ NegotiateTightUnixAuth
         \/ NegotiateARDAuth
  PROVE  EndInv'
<1> DEFINE Asked == \E fields \in SUBSET Fields : Asks(fields)
<1>1. SUFFICES ASSUME ~Awaits, ~Asked PROVE EndInv'
  BY NothingDone, OnlyAsked
<1>2. ~Asks({"password"}) /\ ~Asks({"username", "password"}) /\ ~Asks(Fields)
  BY <1>1 DEF Fields
<1> HIDE DEF Asked
<1>3. Calling("Authentication")
  BY DEF AuthNone, AuthUnsupported, NegotiateStdVNCAuth, NegotiateMSLogonIIAuth,
         NegotiateXvpAuth, NegotiatePlainAuth, NegotiateTightUnixAuth, NegotiateARDAuth,
         Authenticating
<1>4. conn # "connected" /\ initState = "Authentication"
  BY <1>3, CalledFacts
<1>5. (scheme = "unsupported" => provoked) /\ owed \in Kinds \union {"nothing"}
  BY DEF EndInv, RefusalsAreKnown
<1>6. CASE AuthUnsupported
  <2>1. /\ conn' = "ended" /\ scheme = "unsupported"
        /\ UNCHANGED <<initState, scheme, version, queue, cut, owed, accepted, provoked>>
    BY <1>6 DEF AuthUnsupported, Authenticating, Fail, client, stream, history
  <2> QED
    BY <1>4, <1>5, <2>1, LeavingKeeps
<1>7. CASE AuthNone \/ NegotiatePlainAuth \/ NegotiateTightUnixAuth \/ NegotiateXvpAuth
  <2>1. /\ owed' \in {owed, "result", "challenge"} /\ initState' \in {initState, "SecurityResult"}
        /\ scheme' \in {scheme, "VNCAuth"}
        /\ UNCHANGED <<conn, version, queue, cut, accepted, provoked>>
    BY <1>2, <1>7 DEF AuthNone, NegotiatePlainAuth, NegotiateTightUnixAuth, NegotiateXvpAuth,
                      Goes, Sends, stream, history
  <2>2. owed' \in Kinds \union {"nothing"}
    BY <1>5, <2>1 DEF Kinds
  <2> QED
    BY <1>4, <1>5, <2>1, <2>2, LeavingKeeps
<1>8. CASE NegotiateStdVNCAuth \/ NegotiateMSLogonIIAuth
  <2>1. /\ Whole /\ Take /\ owed' \in {"nothing", "result"} /\ initState' = "SecurityResult"
        /\ UNCHANGED <<conn, version, scheme, history>>
    BY <1>1, <1>2, <1>8 DEF NegotiateStdVNCAuth, NegotiateMSLogonIIAuth, Goes, Sends, Has
  <2>2. owed' \in Kinds \union {"nothing"}
    BY <2>1 DEF Kinds
  <2>3. UNCHANGED <<provoked, accepted>>
    BY <2>1 DEF history
  <2> QED
    BY <1>4, <1>5, <2>1, <2>2, <2>3, WholeFacts, TakingKeeps
<1>9. CASE NegotiateARDAuth
  <2>1. CASE ard = "ready"
    <3>1. /\ owed' = "result" /\ initState' = "SecurityResult"
          /\ UNCHANGED <<conn, version, scheme, queue, cut, history>>
      BY <1>1, <1>2, <1>9, <2>1 DEF NegotiateARDAuth, Goes, Sends
    <3>2. UNCHANGED <<provoked, accepted>> /\ owed' \in Kinds
      BY <3>1 DEF history, Kinds
    <3> QED
      BY <1>4, <1>5, <3>1, <3>2, LeavingKeeps
  <2>2. CASE ard # "ready"
    <3>1. /\ Whole /\ Take
          /\ UNCHANGED <<conn, client, owed, history>>
      BY <1>1, <1>2, <1>9, <2>2 DEF NegotiateARDAuth, Has
    <3>2. UNCHANGED <<provoked, accepted, version, scheme, initState>>
      BY <3>1 DEF history, client
    <3> QED
      BY <1>4, <1>5, <3>1, <3>2, WholeFacts, TakingKeeps
  <2> QED
    BY <2>1, <2>2
<1> QED
  BY <1>6, <1>7, <1>8, <1>9

LEMMA VeNCryptEnds == ASSUME EndInv, NegotiateVeNCryptAuth PROVE EndInv'
<1>1. SUFFICES ASSUME ~Awaits PROVE EndInv'
  BY NothingDone
<1>2. Whole /\ Take /\ Calling("Authentication") /\ UNCHANGED <<version, initState, history>>
  BY <1>1 DEF NegotiateVeNCryptAuth, Has, Authenticating
<1>3. conn # "connected" /\ initState = "Authentication"
  BY <1>2, CalledFacts
<1>4. UNCHANGED <<provoked, accepted>>
  BY <1>2 DEF history
<1>5. (scheme = "unsupported" => provoked) /\ owed \in Kinds \union {"nothing"}
  BY DEF EndInv, RefusalsAreKnown
<1>6. /\ conn' = conn \/ (conn' = "ended" /\ Refuses(Head(queue)))
      /\ scheme' = scheme \/ scheme' # "unsupported"
      /\ owed' \in {owed, "vencrypt ack", FirstOf(Head(queue).is)}
  BY <1>1 DEF NegotiateVeNCryptAuth, Has, Fail, Sends, Refuses, Refusals
<1>7. owed' \in Kinds \union {"nothing"}
  BY <1>5, <1>6, FirstOfIsAKind DEF Kinds
<1> QED
  BY <1>2, <1>3, <1>4, <1>5, <1>6, <1>7, WholeFacts, TakingKeeps

LEMMA TightEnds ==
  ASSUME EndInv, NegotiateTightTunnels \/ NegotiateTightSubAuth
  PROVE  EndInv'
<1>1. SUFFICES ASSUME ~Awaits PROVE EndInv'
  BY NothingDone
<1>2. Whole /\ Take /\ Calling("Authentication") /\ UNCHANGED <<version, history>>
  BY <1>1 DEF NegotiateTightTunnels, NegotiateTightSubAuth, Has, Authenticating
<1>3. conn # "connected" /\ initState = "Authentication" /\ conn # "connected"
  BY <1>2, CalledFacts
<1>4. UNCHANGED <<provoked, accepted>>
  BY <1>2 DEF history
<1>5. (scheme = "unsupported" => provoked) /\ owed \in Kinds \union {"nothing"}
  BY DEF EndInv, RefusalsAreKnown
<1>6. /\ conn' = conn \/ (conn' = "ended" /\ Refuses(Head(queue)))
      /\ scheme' \in {scheme, "VNCAuth", "UnixLogon"}
      /\ initState' \in {initState, "SecurityResult"}
      /\ owed' \in {owed, "subauth", "result", "challenge", "nothing"}
  <2>1. CASE NegotiateTightTunnels
    BY <1>1, <2>1 DEF NegotiateTightTunnels, Has, Fail, Sends, Refuses, Refusals
  <2>2. CASE NegotiateTightSubAuth
    <3>1. Head(queue).kind = "subauth"
      BY <1>1, <2>2 DEF NegotiateTightSubAuth, Has
    <3>2. Head(queue).is \in {"empty", "noauth", "vnc", "unix", "unsupported"}
      BY <1>2, <3>1, WholeFacts, HandshakeAssumption DEF Contents
    <3>3. Head(queue).is = "unsupported" => Refuses(Head(queue))
      BY DEF Refuses, Refusals
    <3> QED
      BY <1>1, <2>2, <3>2, <3>3 DEF NegotiateTightSubAuth, Fail, Sends, Goes
  <2> QED
    BY <2>1, <2>2
<1>7. owed' \in Kinds \union {"nothing"}
  BY <1>5, <1>6 DEF Kinds
<1> QED
  BY <1>2, <1>3, <1>4, <1>5, <1>6, <1>7, WholeFacts, TakingKeeps

LEMMA RA2neAuthEnds == ASSUME EndInv, NegotiateRA2neAuth \/ NegotiateARDAuthAsync PROVE EndInv'
<1>1. UNCHANGED <<queue, cut, initState, scheme, provoked, owed, version, accepted, conn>>
  BY DEF NegotiateRA2neAuth, NegotiateARDAuthAsync, client, stream, history
<1> QED
  BY <1>1, LeavingKeeps DEF EndInv, RefusalsAreKnown

\* The one step that accepts: only a status that is OK leads on.
LEMMA SecurityResultEnds == ASSUME EndInv, HandleSecurityResult PROVE EndInv'
<1>1. SUFFICES ASSUME ~Awaits PROVE EndInv'
  BY NothingDone
<1>2. Calling("SecurityResult") /\ UNCHANGED <<version, scheme, owed>>
  BY <1>1 DEF HandleSecurityResult, stream
<1>3. conn # "connected" /\ initState = "SecurityResult"
  BY <1>2, CalledFacts
<1>4. (scheme = "unsupported" => provoked) /\ owed \in Kinds \union {"nothing"}
      /\ provoked \in BOOLEAN /\ cut \in BOOLEAN
  BY DEF EndInv, RefusalsAreKnown
<1>5. CASE version = "3.3"
  <2>1. UNCHANGED <<conn, stream, history>> /\ initState' = "ClientInitialisation"
    BY <1>1, <1>5 DEF HandleSecurityResult, Goes
  <2>2. UNCHANGED <<queue, cut, provoked, accepted>>
    BY <2>1 DEF stream, history
  <2>3. RefusalsAreKnown'
    BY <1>2, <1>4, <2>1, <2>2, UntakenIsKnown DEF EndInv
  <2> QED
    BY <1>2, <1>3, <1>4, <1>5, <2>1, <2>2, <2>3
       DEF EndInv, AcceptedFirst, GivesUpForAReason, ConnectedIsAccepted
<1>6. CASE version # "3.3"
  <2>1. Has("result") /\ Take /\ accepted' = (Head(queue).is = "ok") /\ UNCHANGED provoked
    BY <1>1, <1>6 DEF HandleSecurityResult
  <2>2. Whole /\ Head(queue).kind = "result"
    BY <2>1 DEF Has
  <2>3. Head(queue).is \in {"ok", "bad"}
    BY <2>2, WholeFacts DEF Contents
  <2>4. Head(queue).is = "bad" => provoked
    BY <2>2, WholeFacts DEF Refuses, Refusals
  <2>5. \/ Head(queue).is = "ok" /\ conn' = conn /\ initState' = "ClientInitialisation"
        \/ Head(queue).is = "bad" /\ conn' = conn /\ initState' = "SecurityReason"
        \/ Head(queue).is = "bad" /\ conn' = "ended" /\ initState' = initState
    BY <1>1, <1>6, <2>3 DEF HandleSecurityResult, Goes, Fail
  <2>6. RefusalsAreKnown'
    BY <1>2, <1>3, <1>4, <2>1, <2>2, <2>4, <2>5, WholeFacts, TakenIsKnown DEF EndInv
  <2>7. cut' = cut
    BY <2>1 DEF Take
  <2>8. accepted' \/ initState' # "ClientInitialisation"
    BY <1>3, <2>1, <2>5
  <2> QED
    BY <1>2, <1>3, <1>4, <2>1, <2>4, <2>5, <2>6, <2>7, <2>8
       DEF EndInv, AcceptedFirst, GivesUpForAReason, ConnectedIsAccepted
<1> QED
  BY <1>5, <1>6

LEMMA ClientInitialisationEnds == ASSUME EndInv, ClientInitialisation PROVE EndInv'
<1>1. /\ Calling("ClientInitialisation") /\ initState' = "ServerInitialisation"
      /\ owed' = "serverinit"
      /\ UNCHANGED <<conn, version, scheme, queue, cut, accepted, provoked>>
  BY DEF ClientInitialisation, Goes, Sends, history
<1>2. conn # "connected" /\ initState = "ClientInitialisation"
  BY <1>1, CalledFacts
<1>3. owed' \in Kinds
  BY <1>1 DEF Kinds
<1> QED
  BY <1>1, <1>2, <1>3, LeavingKeeps DEF EndInv, RefusalsAreKnown

LEMMA ServerInitEnds == ASSUME EndInv, NegotiateServerInit PROVE EndInv'
<1>1. SUFFICES ASSUME ~Awaits PROVE EndInv'
  BY NothingDone
<1>2. /\ Whole /\ Take /\ initState = "ServerInitialisation"
      /\ conn' = (IF conn = "connecting" THEN "connected" ELSE conn)
      /\ UNCHANGED <<client, owed, history>>
  BY <1>1 DEF NegotiateServerInit, Has, Calling
<1>3. UNCHANGED <<provoked, accepted, version, scheme, initState>>
  BY <1>2 DEF history, client
<1>4. RefusalsAreKnown'
  BY <1>2, <1>3, WholeFacts, TakenIsKnown DEF EndInv, RefusalsAreKnown
<1>5. cut' = cut
  BY <1>2 DEF Take
<1> QED
  BY <1>2, <1>3, <1>4, <1>5
     DEF EndInv, AcceptedFirst, GivesUpForAReason, ConnectedIsAccepted

LEMMA MoreThanOne == \A n \in Nat : n # 0 /\ n # 1 => n > 1
OBVIOUS

\* A random that is there but not whole would be the cut one.
LEMMA RandomIsWholeHere ==
  ASSUME EndInv, RandomIsWhole, queue # <<>>, Head(queue).kind = "ra2 random"
  PROVE  Whole
<1>1. queue \in Seq(Items) /\ Len(queue) \in Nat /\ Len(queue) # 0 /\ Head(queue) = queue[1]
  BY FirstAndRest DEF EndInv, RefusalsAreKnown
<1>2. CASE Len(queue) = 1
  <2>1. ~cut
    BY <1>1, <1>2 DEF EndInv, RefusalsAreKnown
  <2> QED
    BY <1>2, <2>1 DEF Whole
<1>3. CASE Len(queue) # 1
  <2>1. Len(queue) > 1
    BY <1>1, <1>3, MoreThanOne
  <2> QED
    BY <2>1 DEF Whole
<1> QED
  BY <1>2, <1>3

LEMMA Ra2Ended ==
  ASSUME EndInv, Ra2Key \/ Ra2Random \/ Ra2Hash \/ Ra2Subtype
  PROVE  EndInv'
<1>1. queue # <<>> /\ (RandomIsWhole => Whole)
  <2>1. CASE Ra2Random
    BY <2>1, RandomIsWholeHere DEF Ra2Random
  <2>2. CASE ~Ra2Random
    BY <2>2, WholeFacts DEF Ra2Key, Ra2Hash, Ra2Subtype, Has
  <2> QED
    BY <2>1, <2>2
<1>2. /\ Take /\ conn = "connecting" /\ UNCHANGED <<version, scheme, accepted, provoked>>
      /\ owed' \in {owed, "ra2 hash"} /\ initState' \in {initState, "SecurityResult"}
  <2>1. CASE Ra2Key
    BY <2>1 DEF Ra2Key, Ra2Same, Ra2Step, Ra2Ends, Ra2Goes, Sends, history
  <2>2. CASE Ra2Random
    BY <2>2 DEF Ra2Random, Ra2Same, Ra2Step, Ra2Ends, Ra2Goes, Sends, history
  <2>3. CASE Ra2Hash
    BY <2>3 DEF Ra2Hash, Ra2Same, Ra2Step, Ra2Ends, Ra2Goes
  <2>4. CASE Ra2Subtype
    BY <2>4 DEF Ra2Subtype, Ra2Same, Ra2Step, Ra2Ends, Ra2Goes, history
  <2> QED
    BY <2>1, <2>2, <2>3, <2>4
<1>3. conn' = conn \/ (conn' = "ended" /\ (RandomIsWhole => Refuses(Head(queue))))
  <2> USE <1>1 DEF Ra2Step, Ra2Ends, Ra2Goes, Has, Refuses, Refusals
  <2>1. CASE Ra2Key
    BY <2>1 DEF Ra2Key
  <2>2. CASE Ra2Random
    BY <2>2 DEF Ra2Random
  <2>3. CASE Ra2Hash
    BY <2>3 DEF Ra2Hash
  <2>4. CASE Ra2Subtype
    BY <2>4 DEF Ra2Subtype
  <2> QED
    BY <2>1, <2>2, <2>3, <2>4
<1>4. /\ scheme = "unsupported" => provoked
      /\ initState = "SecurityReason" => provoked
      /\ owed \in Kinds \union {"nothing"}
  BY DEF EndInv, RefusalsAreKnown
<1>5. owed' \in Kinds \union {"nothing"}
  BY <1>2, <1>4 DEF Kinds
<1>6. RandomIsWhole => (cut => Len(queue) > 1) /\ (Refuses(Head(queue)) => provoked)
  BY <1>1, WholeFacts
<1> QED
  BY <1>1, <1>2, <1>3, <1>4, <1>5, <1>6, TakingKeeps

LEMMA Ra2AnswersEnd ==
  ASSUME EndInv, Ra2Credentials \/ ApproveServer
  PROVE  EndInv'
<1>1. /\ conn = "connecting" /\ conn' = conn
      /\ UNCHANGED <<version, scheme, accepted, provoked, queue, cut>>
      /\ owed' \in {"result", "ra2 random"} /\ initState' \in {initState, "SecurityResult"}
  BY DEF Ra2Credentials, ApproveServer, Ra2Same, Ra2Step, Ra2Ends, Ra2Goes, Sends, history
<1>2. owed' \in Kinds
  BY <1>1 DEF Kinds
<1> QED
  BY <1>1, <1>2, LeavingKeeps DEF EndInv, RefusalsAreKnown

LEMMA OthersEnd ==
  ASSUME EndInv, SendCredentials \/ ResumeAuthentication \/ UNCHANGED vars
  PROVE  EndInv'
<1>1. UNCHANGED <<queue, cut, initState, scheme, provoked, owed, version, accepted, conn>>
  BY DEF SendCredentials, ResumeAuthentication, vars, client, stream, history
<1> QED
  BY <1>1, LeavingKeeps DEF EndInv, RefusalsAreKnown

LEMMA DisconnectEnds == ASSUME EndInv, Disconnect PROVE EndInv'
<1>1. /\ conn = "connecting" /\ conn' = "ended" /\ provoked' = TRUE
      /\ initState' \in {initState, "SecurityResult"}
      /\ UNCHANGED <<version, scheme, accepted, queue, cut, owed>>
  BY DEF Disconnect, stream
<1>2. RefusalsAreKnown'
  BY <1>1, UntakenIsKnown DEF EndInv
<1> QED
  BY <1>1, <1>2, EndKept DEF EndInv

\* An item of a joined sequence is of one of its parts; the last is the last.
LEMMA Joined ==
  ASSUME NEW q \in Seq(Items), NEW r \in Seq(Items)
  PROVE  /\ q \o r \in Seq(Items)
         /\ \A k \in 1 .. Len(q \o r) :
              \/ k \in 1 .. Len(q) /\ (q \o r)[k] = q[k]
              \/ \E j \in 1 .. Len(r) : (q \o r)[k] = r[j]
         /\ r # <<>> => q \o r # <<>> /\ (q \o r)[Len(q \o r)] = r[Len(r)]
<1>1. Len(q) \in Nat /\ Len(r) \in Nat
  BY LenProperties
<1>2. /\ q \o r \in Seq(Items) /\ Len(q \o r) = Len(q) + Len(r)
      /\ \A k \in 1 .. Len(q) + Len(r) :
           (q \o r)[k] = IF k <= Len(q) THEN q[k] ELSE r[k - Len(q)]
  BY ConcatProperties
<1>3. ASSUME NEW k \in 1 .. Len(q \o r)
      PROVE  \/ k \in 1 .. Len(q) /\ (q \o r)[k] = q[k]
             \/ \E j \in 1 .. Len(r) : (q \o r)[k] = r[j]
  <2>1. CASE k <= Len(q)
    BY <1>1, <1>2, <2>1
  <2>2. CASE ~(k <= Len(q))
    <3>1. k - Len(q) \in 1 .. Len(r)
      BY <1>1, <1>2, <2>2
    <3>2. (q \o r)[k] = r[k - Len(q)]
      BY <1>1, <1>2, <2>2
    <3> QED
      BY <3>1, <3>2
  <2> QED
    BY <2>1, <2>2
<1>4. ASSUME r # <<>> PROVE q \o r # <<>> /\ (q \o r)[Len(q \o r)] = r[Len(r)]
  <2>1. Len(r) # 0
    BY <1>4, EmptySeq
  <2>2. Len(q \o r) # 0 /\ Len(q) + Len(r) \in 1 .. Len(q) + Len(r)
        /\ ~(Len(q) + Len(r) <= Len(q)) /\ Len(q) + Len(r) - Len(q) = Len(r)
    BY <1>1, <1>2, <2>1
  <2> QED
    BY <1>2, <2>2, EmptySeq
<1> QED
  BY <1>2, <1>3, <1>4

\* What comes in is known for what it is.
LEMMA MoreIsKnown ==
  ASSUME EndInv, NEW items \in Seq(Items), NEW isCut \in BOOLEAN,
         NEW next \in Kinds \union {"nothing"}, Message(items, isCut, next),
         RandomIsWhole /\ isCut => items # <<>> /\ items[Len(items)].kind # "ra2 random"
  PROVE  EndInv'
<1>1. /\ queue \in Seq(Items) /\ queue' = queue \o items /\ cut' = isCut /\ owed' = next
      /\ provoked' = (provoked \/ \E k \in 1 .. Len(items) : Refuses(items[k]))
      /\ UNCHANGED <<conn, initState, version, scheme, accepted>>
  BY DEF Message, client, EndInv, RefusalsAreKnown
<1>2. provoked \in BOOLEAN /\ provoked' \in BOOLEAN /\ (provoked => provoked')
  BY <1>1 DEF EndInv
<1>3. queue' \in Seq(Items)
  BY <1>1, Joined
<1>4. ASSUME NEW k \in 1 .. Len(queue'), Refuses(queue'[k]) PROVE provoked'
  <2>1. \/ k \in 1 .. Len(queue) /\ queue'[k] = queue[k]
        \/ \E j \in 1 .. Len(items) : queue'[k] = items[j]
    BY <1>1, Joined
  <2>2. CASE k \in 1 .. Len(queue) /\ queue'[k] = queue[k]
    <3>1. Refuses(queue[k]) => provoked
      BY <2>2 DEF EndInv, RefusalsAreKnown
    <3>2. Refuses(queue[k])
      BY <1>4, <2>2
    <3>3. provoked
      BY <3>1, <3>2
    <3> QED
      BY <1>2, <3>3
  <2>3. CASE \E j \in 1 .. Len(items) : queue'[k] = items[j]
    <3>1. PICK j \in 1 .. Len(items) : queue'[k] = items[j]
      BY <2>3
    <3>2. \E i \in 1 .. Len(items) : Refuses(items[i])
      <4>1. Refuses(items[j])
        BY <1>4, <3>1
      <4> QED
        BY <4>1
    <3>3. provoked' = TRUE
      BY <1>1, <3>2, Zenon
    <3> QED
      BY <1>2, <3>3
  <2> QED
    BY <2>1, <2>2, <2>3
<1>5. ASSUME RandomIsWhole, isCut PROVE queue' # <<>> /\ queue'[Len(queue')].kind # "ra2 random"
  BY <1>1, <1>5, Joined
<1>6. RefusalsAreKnown'
  <2>1. initState' = "SecurityReason" \/ scheme' = "unsupported" => provoked'
    BY <1>1, <1>2 DEF EndInv, RefusalsAreKnown
  <2> QED
    BY <1>1, <1>3, <1>4, <1>5, <2>1 DEF RefusalsAreKnown
<1> QED
  BY <1>1, <1>2, <1>6, EndKept

LEMMA OneAndTwo ==
  ASSUME NEW item \in Items, NEW second \in Items
  PROVE  /\ <<>> \in Seq(Items)
         /\ <<item>> \in Seq(Items) /\ <<item>> # <<>> /\ <<item>>[Len(<<item>>)] = item
         /\ <<item, second>> \in Seq(Items)
OBVIOUS

LEMMA ArrivalsEnd ==
  ASSUME EndInv, Arrive \/ ArriveRest
  PROVE  EndInv'
<1>1. CASE ArriveRest
  <2>1. Message(<<>>, FALSE, owed)
    BY <1>1 DEF ArriveRest
  <2> QED
    BY <2>1, EmptyFacts, MoreIsKnown DEF EndInv
<1>2. CASE Arrive
  <2>1. owed \in Kinds
    BY <1>2 DEF Arrive, EndInv
  <2>2. PICK item \in ItemsOf(owed) :
          \/ Message(<<item>>, FALSE, Follows(item))
          \/ /\ item.kind = "ra2 random" => ~RandomIsWhole
             /\ Message(<<item>>, TRUE, Follows(item))
          \/ /\ Follows(item) # "nothing"
             /\ \E second \in ItemsOf(Follows(item)) :
                  Message(<<item, second>>, FALSE, Follows(second))
    BY <1>2 DEF Arrive
  <2>3. item \in Items
    BY <2>1, ItemOfKind
  <2>4. \A any : Follows(any) \in Kinds \union {"nothing"}
    BY FollowsIsAKind, FollowsInItsVersion
  <2>5. <<item>> \in Seq(Items) /\ <<item>> # <<>> /\ <<item>>[Len(<<item>>)] = item
    BY <2>3, OneAndTwo
  <2>6. CASE Message(<<item>>, FALSE, Follows(item))
    BY <2>4, <2>5, <2>6, MoreIsKnown
  <2>7. CASE /\ item.kind = "ra2 random" => ~RandomIsWhole
             /\ Message(<<item>>, TRUE, Follows(item))
    <3>1. RandomIsWhole => <<item>>[Len(<<item>>)].kind # "ra2 random"
      BY <2>5, <2>7
    <3> QED
      BY <2>4, <2>5, <2>7, <3>1, MoreIsKnown
  <2>8. CASE /\ Follows(item) # "nothing"
             /\ \E second \in ItemsOf(Follows(item)) :
                  Message(<<item, second>>, FALSE, Follows(second))
    <3>1. Follows(item) \in Kinds
      BY <2>4, <2>8
    <3>2. PICK second \in ItemsOf(Follows(item)) :
            Message(<<item, second>>, FALSE, Follows(second))
      BY <2>8
    <3>3. <<item, second>> \in Seq(Items)
      BY <2>3, <3>1, ItemOfKind, OneAndTwo
    <3> QED
      BY <2>4, <3>2, <3>3, MoreIsKnown
  <2> QED
    BY <2>2, <2>6, <2>7, <2>8
<1> QED
  BY <1>1, <1>2

LEMMA End == Spec => []EndInv
<1>1. EndInv /\ [HandshakeNext]_vars => EndInv'
  <2> SUFFICES ASSUME EndInv, [HandshakeNext]_vars PROVE EndInv'
    OBVIOUS
  <2>1. ASSUME InitMsg PROVE EndInv'
    BY <2>1, ProtocolVersionEnds, SecurityEnds, SecurityReasonEnds, AuthenticationEnds,
       VeNCryptEnds, TightEnds, RA2neAuthEnds, SecurityResultEnds, ClientInitialisationEnds,
       ServerInitEnds DEF InitMsg
  <2>2. ASSUME Promises PROVE EndInv'
    BY <2>2, RA2neAuthEnds, Ra2Ended, Ra2AnswersEnd DEF Promises
  <2> QED
    BY <2>1, <2>2, Ra2AnswersEnd, OthersEnd, DisconnectEnds, ArrivalsEnd
       DEF HandshakeNext, User
<1> QED
  BY <1>1, InitEnd, PTL DEF Spec

(***************************************************************************)
(* Each end of the handshake has its reason: the client gives up only on a  *)
(* server that refused or a user who left (every _fail of _initMsg and      *)
(* ra2.js), and connects only after a security result that was OK           *)
(* (_handleSecurityResult; version 3.3 has none).  Of the stream only the   *)
(* server's RA2 random must not be cut: of it the code waits for the length *)
(* alone.                                                                   *)
(***************************************************************************)
THEOREM EndsForAReason == ASSUME RandomIsWhole PROVE Spec => []OutcomeIsJustified
<1>1. EndInv => OutcomeIsJustified
  BY DEF EndInv, OutcomeIsJustified
<1> QED
  BY <1>1, End, PTL

-----------------------------------------------------------------------------
(* RA2: the states the promise goes through after the approval, and after   *)
(* the hash.                                                                *)

Ra2Order ==
  /\ ra2 \in {"random", "hash", "subtype", "answered"} \union Ra2Asks => approved
  /\ ra2 \in {"subtype", "answered"} \union Ra2Asks => verified

(***************************************************************************)
(* RA2: credentials leave the browser only after the user approved the      *)
(* server's key and the server's hash was right (negotiateRA2neAuthAsync).  *)
(***************************************************************************)
THEOREM SecretIsGuarded == Spec => Ra2SecretIsGuarded
<1>1. Init => Ra2Order
  BY DEF Init, Ra2Order, Ra2Asks
<1>2. EndInv /\ Ra2Order /\ [HandshakeNext]_vars => Ra2Order'
  <2> SUFFICES ASSUME EndInv, Ra2Order, [HandshakeNext]_vars PROVE Ra2Order'
    OBVIOUS
  <2>1. ASSUME UNCHANGED <<ra2, approved, verified>> PROVE Ra2Order'
    BY <2>1 DEF Ra2Order
  <2>2. ASSUME NegotiateRA2neAuth PROVE Ra2Order'
    BY <2>2 DEF NegotiateRA2neAuth, history, Ra2Order, Ra2Asks
  <2>3. ASSUME Ra2Key \/ Ra2Random \/ Ra2Subtype \/ Ra2Credentials PROVE Ra2Order'
    BY <2>3 DEF Ra2Key, Ra2Random, Ra2Subtype, Ra2Credentials, Ra2Step, Ra2Ends, Ra2Goes,
                history, Ra2Order, Ra2Asks
  <2>4. ASSUME Ra2Hash PROVE Ra2Order'
    <3>1. Whole /\ Head(queue).kind = "ra2 hash"
      BY <2>4 DEF Ra2Hash, Has
    <3>2. Head(queue).is \in {"ok", "bad"}
      BY <3>1, WholeFacts DEF Contents
    <3>3. /\ ra2 = "hash" /\ approved' = approved
          /\ ra2' = "none" \/ (ra2' = "subtype" /\ verified' = (Head(queue).is = "ok")
                             /\ Head(queue).is # "bad")
      BY <2>4 DEF Ra2Hash, Ra2Step, Ra2Ends, Ra2Goes
    <3>4. ra2' = "none" \/ (ra2' = "subtype" /\ verified')
      BY <3>2, <3>3
    <3>5. approved
      BY <3>3 DEF Ra2Order
    <3> QED
      BY <3>3, <3>4, <3>5 DEF Ra2Order, Ra2Asks
  <2>5. ASSUME ApproveServer PROVE Ra2Order'
    BY <2>5 DEF ApproveServer, Ra2Step, Ra2Goes, Ra2Order, Ra2Asks
  <2>6. ASSUME Disconnect PROVE Ra2Order'
    BY <2>6 DEF Disconnect, Ra2Order, Ra2Asks
  <2>7. ASSUME InitMsg, ~NegotiateRA2neAuth PROVE UNCHANGED <<ra2, approved, verified>>
    <3> USE DEF async, history, Awaits, Asks, Ask
    <3>1. NegotiateProtocolVersion \/ NegotiateSecurity \/ HandleSecurityReason =>
            UNCHANGED <<ra2, approved, verified>>
      BY DEF NegotiateProtocolVersion, NegotiateSecurity, HandleSecurityReason
    <3>2. AuthNone \/ AuthUnsupported \/ NegotiateStdVNCAuth \/ NegotiateMSLogonIIAuth
          \/ NegotiateXvpAuth \/ NegotiatePlainAuth \/ NegotiateTightUnixAuth =>
            UNCHANGED <<ra2, approved, verified>>
      BY DEF AuthNone, AuthUnsupported, NegotiateStdVNCAuth, NegotiateMSLogonIIAuth,
             NegotiateXvpAuth, NegotiatePlainAuth, NegotiateTightUnixAuth
    <3>3. NegotiateARDAuth \/ NegotiateTightTunnels \/ NegotiateTightSubAuth =>
            UNCHANGED <<ra2, approved, verified>>
      BY DEF NegotiateARDAuth, NegotiateTightTunnels, NegotiateTightSubAuth
    <3>4. NegotiateVeNCryptAuth => UNCHANGED <<ra2, approved, verified>>
      BY DEF NegotiateVeNCryptAuth
    <3>5. HandleSecurityResult \/ ClientInitialisation \/ NegotiateServerInit =>
            UNCHANGED <<ra2, approved, verified>>
      BY DEF HandleSecurityResult, ClientInitialisation, NegotiateServerInit
    <3> QED
      BY <2>7, <3>1, <3>2, <3>3, <3>4, <3>5 DEF InitMsg
  <2>8. ASSUME \/ Arrive \/ ArriveRest \/ NegotiateARDAuthAsync \/ SendCredentials
               \/ ResumeAuthentication \/ UNCHANGED vars
        PROVE  UNCHANGED <<ra2, approved, verified>>
    BY <2>8 DEF Arrive, ArriveRest, Message, NegotiateARDAuthAsync, SendCredentials,
                ResumeAuthentication, vars, async, history
  <2> QED
    BY <2>1, <2>2, <2>3, <2>4, <2>5, <2>6, <2>7, <2>8 DEF HandshakeNext, Promises, User
<1>3. Ra2Order /\ [HandshakeNext]_vars =>
        [(ra2 = "answered" /\ ra2' = "none" /\ owed' = "result") => approved /\ verified]_vars
  BY DEF Ra2Order
<1> QED
  BY <1>1, <1>2, <1>3, End, PTL DEF Spec, Ra2SecretIsGuarded
=============================================================================
