------------------------------ MODULE Repeater ------------------------------
(***************************************************************************)
(* The repeater's parent process (repeater.cpp): one loop that accepts a   *)
(* viewer and a server, pairs the ends that sent the same code by forking  *)
(* a child that relays between them, removes ends that waited too long or  *)
(* have gone, reaps children, and hands queued events to a sender process. *)
(* Between any two steps of the loop peers leave and children end.         *)
(*                                                                         *)
(* Left out: sockets and addresses but for "has the peer gone", the buffered *)
(* handshake, and every check that closes a new connection before a table  *)
(* is touched (a bad or unlisted id, a failed read), which is              *)
(* NobodyConnects.                                                         *)
(***************************************************************************)
EXTENDS Integers

CONSTANTS
  MaxSessions,       \* length of the tables, maxsessions in uvncrepeater.ini
  Codes,             \* ids that viewers and servers send in mode 2
  AllowedModes,      \* 1: the repeater connects to the server; 2: both connect
  MinInventedCode,   \* least code of a mode 1 session, -1000000
  MaxFifoEvents,     \* length of the event queue, 500
  CleanupSeconds,    \* passes of the loop between two cleanups, 5
  Pids,              \* process ids of children
  Signals,           \* whether a child may be ended by a signal
  ForkFails          \* whether a fork may fail

ASSUME RepeaterAssumption ==
  /\ MaxSessions \in Nat \ {0}
  /\ Codes \subseteq Nat \ {0}
  /\ AllowedModes \subseteq {1, 2}
  /\ MinInventedCode \in Int
  /\ MinInventedCode < 0
  /\ MaxFifoEvents \in Nat \ {0}
  /\ CleanupSeconds \in Nat \ {0}
  /\ Pids \subseteq Nat \ {0}
  /\ Signals \in BOOLEAN
  /\ ForkFails \in BOOLEAN

VARIABLES
  servers, viewers,  \* the tables of connections
  procs,             \* repeaterProcs: the child of each session
  child,             \* what the system knows of each process
  mode1ConnCode,     \* the code invented last
  itemsInFifo,       \* events queued
  sending,           \* whether a sender process is running (eventProc # 0)
  told,              \* what the events queued so far say of each code's server
  stopped,
  phase, ind,        \* the step of the loop that is next, and its table index
  seconds            \* passes since the last cleanup

tables == <<servers, viewers, procs, child>>
events == <<itemsInFifo, told>>
vars == <<tables, mode1ConnCode, events, sending, stopped, phase, ind, seconds>>

Slots == 0 .. (MaxSessions - 1)

Invented == MinInventedCode .. (-1)

\* The levels A, B and C of an entry.
Free == [code |-> 0, active |-> FALSE, gone |-> FALSE]
Waiting(c) == [code |-> c, active |-> FALSE, gone |-> FALSE]
Activated(entry) == [entry EXCEPT !.active = TRUE]

NoProc == [code |-> 0, pid |-> 0]

Init ==
  /\ servers = [i \in Slots |-> Free]
  /\ viewers = [i \in Slots |-> Free]
  /\ procs = [i \in Slots |-> NoProc]
  /\ child = [p \in Pids |-> "none"]
  /\ mode1ConnCode = 0
  /\ itemsInFifo = 1
  /\ sending = FALSE
  /\ told = [c \in Codes \union Invented |-> "absent"]
  /\ stopped = FALSE
  /\ phase = "select"
  /\ ind = 0
  /\ seconds = 0

(***************************************************************************)
(* The tables are searched from index 0.  A free entry has code 0.         *)
(***************************************************************************)

Has(t, c) == \E i \in Slots : t[i].code = c

IsFirst(t, c, i) == t[i].code = c /\ \A j \in Slots : j < i => t[j].code # c

\* Table t with its first entry of code c replaced; unchanged if there is none.
Replace(t, c, entry) ==
  [i \in Slots |-> IF IsFirst(t, c, i) THEN entry ELSE t[i]]

add(t, c) == Replace(t, 0, Waiting(c))
remove(t, c) == Replace(t, c, Free)
setActive(t, c) ==
  [i \in Slots |-> IF IsFirst(t, c, i) THEN Activated(t[i]) ELSE t[i]]

\* Mutant: the queue is not checked for room.
queueAnyway(n) == itemsInFifo' = itemsInFifo + n

\* Queue n events; the last says of code c's server what news is.
queue(n) ==
  itemsInFifo' = IF itemsInFifo + n <= MaxFifoEvents
                   THEN itemsInFifo + n ELSE MaxFifoEvents

sendRepeaterEvent(n, c, news) ==
  /\ queue(n)
  /\ told' = [told EXCEPT ![c] =
                IF itemsInFifo + n <= MaxFifoEvents THEN news ELSE "unknown"]

\* Mutant: the child is not entered in repeaterProcs.
forkUntracked(c) ==
  /\ \E p \in Pids :
       /\ child[p] = "none"
       /\ child' = [child EXCEPT ![p] = "running"]
  /\ UNCHANGED <<procs, stopped>>

\* A failed fork ends the program.
forkRepeater(c) ==
  \/ \E p \in Pids :
       /\ child[p] = "none"
       /\ child' = [child EXCEPT ![p] = "running"]
       /\ procs' = Replace(procs, 0, [code |-> c, pid |-> p])
       /\ UNCHANGED stopped
  \/ /\ ForkFails
     /\ stopped' = TRUE
     /\ UNCHANGED <<child, procs>>

(***************************************************************************)
(* acceptConnection                                                        *)
(***************************************************************************)

Select ==
  /\ phase = "select"
  /\ ~ stopped
  /\ phase' = "viewer"
  /\ UNCHANGED <<tables, mode1ConnCode, events, sending, stopped, ind, seconds>>

\* Cleanup is due in every CleanupSeconds-th pass.
AfterAccept ==
  IF phase = "viewer"
  THEN phase' = "server" /\ UNCHANGED <<ind, seconds>>
  ELSE /\ ind' = 0
       /\ IF seconds + 1 >= CleanupSeconds
          THEN phase' = "removeViewer" /\ seconds' = 0
          ELSE phase' = "heartbeat" /\ seconds' = seconds + 1

NobodyConnects ==
  /\ phase \in {"viewer", "server"}
  /\ AfterAccept
  /\ UNCHANGED <<tables, mode1ConnCode, events, sending, stopped>>

ViewerConnects(c) ==
  /\ phase = "viewer"
  /\ 2 \in AllowedModes
  /\ ~ Has(viewers, c)
  /\ Has(viewers, 0)
  /\ \/ /\ ~ Has(servers, c)
        /\ viewers' = add(viewers, c)
        /\ queue(1)
        /\ UNCHANGED <<servers, procs, child, told, stopped>>
     \/ /\ Has(servers, c)
        /\ viewers' = setActive(add(viewers, c), c)
        /\ servers' = setActive(servers, c)
        /\ forkRepeater(c)
        /\ sendRepeaterEvent(2, c, "session")
  /\ AfterAccept
  /\ UNCHANGED <<mode1ConnCode, sending>>

ServerConnects(c) ==
  /\ phase = "server"
  /\ 2 \in AllowedModes
  /\ ~ Has(servers, c)
  /\ Has(servers, 0)
  /\ \/ /\ ~ Has(viewers, c)
        /\ servers' = add(servers, c)
        /\ sendRepeaterEvent(1, c, "waiting")
        /\ UNCHANGED <<viewers, procs, child, stopped>>
     \/ /\ Has(viewers, c)
        /\ servers' = setActive(add(servers, c), c)
        /\ viewers' = setActive(viewers, c)
        /\ forkRepeater(c)
        /\ sendRepeaterEvent(2, c, "session")
  /\ AfterAccept
  /\ UNCHANGED <<mode1ConnCode, sending>>

NextInventedCode ==
  IF mode1ConnCode - 1 < MinInventedCode THEN -1 ELSE mode1ConnCode - 1

\* A viewer that sent an address: both ends get an entry, if there is room.
Mode1Connects ==
  LET c == NextInventedCode IN
  /\ phase = "viewer"
  /\ 1 \in AllowedModes
  /\ mode1ConnCode' = c
  /\ viewers' = IF Has(viewers, 0) THEN setActive(add(viewers, c), c) ELSE viewers
  /\ servers' = IF Has(servers, 0) THEN setActive(add(servers, c), c) ELSE servers
  /\ IF Has(viewers, 0) /\ Has(servers, 0)
     THEN forkRepeater(c) /\ sendRepeaterEvent(3, c, "session")
     ELSE UNCHANGED <<procs, child, events, stopped>>
  /\ AfterAccept
  /\ UNCHANGED sending

(***************************************************************************)
(* removeOldOrBrokenConnections, one table entry a step, and the heartbeat *)
(***************************************************************************)

\* Mutant: an entry in use is removed too when its peer has gone.
removerOfAny(entry, removed) ==
  /\ removed => entry.code # 0
  /\ entry.code # 0 /\ entry.gone => removed

\* Mutant: only entries that are too old are removed.
removerOfOld(entry, removed) == removed => entry.code # 0 /\ ~ entry.active

\* An idle entry goes when its peer has, or when it is too old at this moment.
connectionRemover(entry, removed) ==
  LET idle == entry.code # 0 /\ ~ entry.active IN
  /\ removed => idle
  /\ idle /\ entry.gone => removed

RemoveViewer ==
  /\ phase = "removeViewer"
  /\ \E removed \in BOOLEAN :
       /\ connectionRemover(viewers[ind], removed)
       /\ IF removed
          THEN viewers' = remove(viewers, viewers[ind].code) /\ queue(1)
          ELSE UNCHANGED <<viewers, itemsInFifo>>
  /\ phase' = "removeServer"
  /\ UNCHANGED <<servers, procs, child, mode1ConnCode, told, sending, stopped,
                 ind, seconds>>

NextIndex(again, after) ==
  IF ind + 1 \in Slots
  THEN ind' = ind + 1 /\ phase' = again
  ELSE ind' = 0 /\ phase' = after

\* Mutant: no SERVER_DISCONNECT is queued.
RemoveServerSilently ==
  /\ phase = "removeServer"
  /\ \E removed \in BOOLEAN :
       /\ connectionRemover(servers[ind], removed)
       /\ servers' = IF removed THEN remove(servers, servers[ind].code) ELSE servers
  /\ NextIndex("removeViewer", "heartbeat")
  /\ UNCHANGED <<viewers, procs, child, mode1ConnCode, events, sending, stopped, seconds>>

RemoveServer ==
  /\ phase = "removeServer"
  /\ \E removed \in BOOLEAN :
       /\ connectionRemover(servers[ind], removed)
       /\ IF removed
          THEN /\ servers' = remove(servers, servers[ind].code)
               /\ sendRepeaterEvent(1, servers[ind].code, "absent")
          ELSE UNCHANGED <<servers, events>>
  /\ NextIndex("removeViewer", "heartbeat")
  /\ UNCHANGED <<viewers, procs, child, mode1ConnCode, sending, stopped, seconds>>

Heartbeat ==
  /\ phase = "heartbeat"
  /\ queue(1) \/ UNCHANGED itemsInFifo
  /\ phase' = "reap"
  /\ UNCHANGED <<tables, mode1ConnCode, told, sending, stopped, ind, seconds>>

(***************************************************************************)
(* cleanUpAfterRepeaterProcs, one table entry a step                       *)
(***************************************************************************)

\* Mutant: the viewer's entry is forgotten.
cleanUpServerOnly(p, c) ==
  IF Has(servers, c) /\ Has(viewers, c)
  THEN /\ procs' = [i \in Slots |-> IF procs[i].pid = p THEN NoProc ELSE procs[i]]
       /\ sendRepeaterEvent(1, c, "absent")
       /\ servers' = IF child[p] = "returned" THEN remove(servers, c) ELSE servers
       /\ UNCHANGED viewers
  ELSE UNCHANGED <<procs, servers, viewers, events>>

\* waitpid has reported process p, of the session with code c.
cleanUpAfterRepeaterProcExit(p, c) ==
  IF Has(servers, c) /\ Has(viewers, c)
  THEN /\ procs' = [i \in Slots |-> IF procs[i].pid = p THEN NoProc ELSE procs[i]]
       /\ sendRepeaterEvent(1, c, "absent")
       /\ IF child[p] = "returned"
          THEN /\ servers' = remove(servers, c)
               /\ viewers' = remove(viewers, c)
          ELSE UNCHANGED <<servers, viewers>>
  ELSE UNCHANGED <<procs, servers, viewers, events>>

Reap ==
  LET p == procs[ind].pid IN
  /\ phase = "reap"
  /\ IF procs[ind].code # 0 /\ child[p] \in {"returned", "killed"}
     THEN /\ child' = [child EXCEPT ![p] = "none"]
          /\ cleanUpAfterRepeaterProcExit(p, procs[ind].code)
     ELSE UNCHANGED <<tables, events>>
  /\ NextIndex("reap", "events")
  /\ UNCHANGED <<mode1ConnCode, sending, stopped, seconds>>

(***************************************************************************)
(* handleRepeaterEvents, and the end of main                               *)
(***************************************************************************)

handleRepeaterEvents(queued) ==
  \/ /\ ~ sending
     /\ sending' = (queued > 0)
     /\ itemsInFifo' = 0
     /\ UNCHANGED stopped
  \/ /\ ForkFails /\ ~ sending /\ queued > 0
     /\ stopped' = TRUE
     /\ itemsInFifo' = queued
     /\ UNCHANGED sending
  \/ /\ sending
     /\ sending' \in BOOLEAN          \* waitpid finds it ended, or not
     /\ itemsInFifo' = queued
     /\ UNCHANGED stopped

HandleEvents ==
  /\ phase = "events"
  /\ handleRepeaterEvents(itemsInFifo)
  /\ phase' = "select"
  /\ UNCHANGED <<tables, mode1ConnCode, told, ind, seconds>>

\* The shutdown event is queued and the queue handled once more.
Shutdown ==
  /\ phase = "select"
  /\ stopped
  /\ handleRepeaterEvents(IF itemsInFifo < MaxFifoEvents
                            THEN itemsInFifo + 1 ELSE itemsInFifo)
  /\ phase' = "done"
  /\ UNCHANGED <<tables, mode1ConnCode, told, ind, seconds>>

Loop ==
  \/ Select
  \/ NobodyConnects
  \/ \E c \in Codes : ViewerConnects(c) \/ ServerConnects(c)
  \/ Mode1Connects
  \/ RemoveViewer
  \/ RemoveServer
  \/ Heartbeat
  \/ Reap
  \/ HandleEvents
  \/ Shutdown

(***************************************************************************)
(* Everyone else                                                           *)
(***************************************************************************)

\* A peer closes its connection.
ServerGoes(i) ==
  /\ servers[i].code # 0
  /\ ~ servers[i].gone
  /\ servers' = [servers EXCEPT ![i].gone = TRUE]
  /\ UNCHANGED <<viewers, procs, child, mode1ConnCode, events, sending, stopped,
                 phase, ind, seconds>>

ViewerGoes(i) ==
  /\ viewers[i].code # 0
  /\ ~ viewers[i].gone
  /\ viewers' = [viewers EXCEPT ![i].gone = TRUE]
  /\ UNCHANGED <<servers, procs, child, mode1ConnCode, events, sending, stopped,
                 phase, ind, seconds>>

ChildEnds(p, how) ==
  /\ child[p] = "running"
  /\ child' = [child EXCEPT ![p] = how]
  /\ UNCHANGED <<servers, viewers, procs, mode1ConnCode, events, sending, stopped,
                 phase, ind, seconds>>

\* doRepeater returns when it finds an end closed.
NoticesClose(p) ==
  /\ \E i, j \in Slots :
       /\ procs[i].pid = p
       /\ \/ servers[j].code = procs[i].code /\ servers[j].gone
          \/ viewers[j].code = procs[i].code /\ viewers[j].gone
  /\ ChildEnds(p, "returned")

\* ctrl+c; the flag it sets is looked at in phase "select" only.
handleSigInt ==
  /\ phase = "select"
  /\ ~ stopped
  /\ stopped' = TRUE
  /\ UNCHANGED <<tables, mode1ConnCode, events, sending, phase, ind, seconds>>

Environment ==
  \/ \E i \in Slots : ServerGoes(i) \/ ViewerGoes(i)
  \/ \E p \in Pids : ChildEnds(p, "returned") \/ (Signals /\ ChildEnds(p, "killed"))
  \/ handleSigInt

Next == Loop \/ Environment

Spec == Init /\ [][Next]_vars

\* The parent runs; a child whose select() reports an end of file returns.
Fairness ==
  /\ WF_vars(Loop)
  /\ \A p \in Pids : WF_vars(NoticesClose(p))

FairSpec == Spec /\ Fairness

-----------------------------------------------------------------------------
(* Properties *)

Entries(codes) == [code : codes \union {0}, active : BOOLEAN, gone : BOOLEAN]

AllCodes == Codes \union Invented

\* Every variable has a value the code can give it.
TypeOK ==
  /\ servers \in [Slots -> Entries(AllCodes)]
  /\ viewers \in [Slots -> Entries(AllCodes)]
  /\ procs \in [Slots -> [code : AllCodes \union {0}, pid : Pids \union {0}]]
  /\ child \in [Pids -> {"none", "running", "returned", "killed"}]
  /\ mode1ConnCode \in Invented \union {0}
  /\ itemsInFifo \in 0 .. MaxFifoEvents
  /\ sending \in BOOLEAN
  /\ told \in [AllCodes -> {"absent", "waiting", "session", "unknown"}]
  /\ stopped \in BOOLEAN
  /\ phase \in {"select", "viewer", "server", "removeViewer", "removeServer",
                "heartbeat", "reap", "events", "done"}
  /\ ind \in Slots
  /\ seconds \in 0 .. (CleanupSeconds - 1)

\* A code is in a table once.
CodesUnique(t) == \A i, j \in Slots : t[i].code # 0 /\ t[i].code = t[j].code => i = j

\* The entries of a session are activated and freed together.
Active(t, c) == \E i \in Slots : t[i].code = c /\ t[i].active

EndsTogether == \A c \in AllCodes : Active(servers, c) <=> Active(viewers, c)

\* Two ends that could be paired do not both wait.
NobodyWaitsForAWaiter ==
  \A c \in AllCodes : Has(servers, c) /\ Has(viewers, c) => Active(servers, c)

\* A child is in the table from its fork to its end, with a session of its own.
ChildrenTracked ==
  /\ \A i \in Slots : procs[i].code # 0 =>
       /\ child[procs[i].pid] # "none"
       /\ Active(servers, procs[i].code)
  /\ \A i \in Slots : (procs[i].code = 0) <=> (procs[i].pid = 0)
  /\ \A i, j \in Slots :
       procs[i].code # 0 /\ i # j =>
         procs[i].code # procs[j].code /\ procs[i].pid # procs[j].pid
  /\ \A p \in Pids : child[p] # "none" => \E i \in Slots : procs[i].pid = p

(***************************************************************************)
(* The tables agree with each other and with the children, whatever leaves *)
(* or ends between two steps of the loop.                                  *)
(***************************************************************************)
TablesAgree ==
  /\ CodesUnique(servers)
  /\ CodesUnique(viewers)
  /\ EndsTogether
  /\ NobodyWaitsForAWaiter
  /\ ChildrenTracked

(***************************************************************************)
(* The tables of the repeater do what the two ends of a connection expect. *)
(***************************************************************************)
EndOf(t, c) ==
  IF ~ Has(t, c) THEN "absent" ELSE IF Active(t, c) THEN "paired" ELSE "waiting"

Ends == INSTANCE Pairing WITH
  server <- [c \in Codes |-> EndOf(servers, c)],
  viewer <- [c \in Codes |-> EndOf(viewers, c)]

PairsEnds == Ends!Spec

(***************************************************************************)
(* An active entry has a child that relays for it ("doRepeater() running on *)
(* viewer/server connection", repeater.cpp) unless a fork has failed.      *)
(***************************************************************************)
ActiveHasChild ==
  ~ stopped =>
    \A i \in Slots : \A entry \in {servers[i], viewers[i]} : entry.active =>
      \E j \in Slots : procs[j].code = entry.code

(***************************************************************************)
(* Who has seen every event queued knows which servers wait and which are  *)
(* in a session; where the queue was full, that he does not know.          *)
(***************************************************************************)
EventsTellTable ==
  \A c \in Codes :
    told[c] = "unknown" \/
      told[c] = [absent |-> "absent", waiting |-> "waiting", paired |-> "session"]
                  [EndOf(servers, c)]

(***************************************************************************)
(* A connection whose peer has gone does not keep its table entry.         *)
(***************************************************************************)
GoneEntriesAreFreed ==
  \A i \in Slots :
    /\ servers[i].gone ~> (~ servers[i].gone \/ stopped)
    /\ viewers[i].gone ~> (~ viewers[i].gone \/ stopped)
=============================================================================
