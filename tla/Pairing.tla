------------------------------ MODULE Pairing ------------------------------
(***************************************************************************)
(* What the repeater promises the two ends of a connection that use one    *)
(* code: the first to come waits, the second is paired with it at once, and *)
(* the ends of a session leave together ("when one end disconnects, BOTH   *)
(* ends need to reconnect", repeater.cpp).                                 *)
(***************************************************************************)

CONSTANT Codes

VARIABLES server, viewer     \* of each code: "absent", "waiting" or "paired"

vars == <<server, viewer>>

Init ==
  /\ server = [c \in Codes |-> "absent"]
  /\ viewer = [c \in Codes |-> "absent"]

ServerWaits(c) ==
  /\ server[c] = "absent"
  /\ viewer[c] = "absent"
  /\ server' = [server EXCEPT ![c] = "waiting"]
  /\ UNCHANGED viewer

ViewerWaits(c) ==
  /\ viewer[c] = "absent"
  /\ server[c] = "absent"
  /\ viewer' = [viewer EXCEPT ![c] = "waiting"]
  /\ UNCHANGED server

\* The second end arrives.
SessionStarts(c) ==
  /\ {server[c], viewer[c]} = {"absent", "waiting"}
  /\ server' = [server EXCEPT ![c] = "paired"]
  /\ viewer' = [viewer EXCEPT ![c] = "paired"]

ServerLeaves(c) ==
  /\ server[c] = "waiting"
  /\ server' = [server EXCEPT ![c] = "absent"]
  /\ UNCHANGED viewer

ViewerLeaves(c) ==
  /\ viewer[c] = "waiting"
  /\ viewer' = [viewer EXCEPT ![c] = "absent"]
  /\ UNCHANGED server

SessionEnds(c) ==
  /\ server[c] = "paired"
  /\ viewer[c] = "paired"
  /\ server' = [server EXCEPT ![c] = "absent"]
  /\ viewer' = [viewer EXCEPT ![c] = "absent"]

Next ==
  \E c \in Codes :
    \/ ServerWaits(c)
    \/ ViewerWaits(c)
    \/ SessionStarts(c)
    \/ ServerLeaves(c)
    \/ ViewerLeaves(c)
    \/ SessionEnds(c)

Spec == Init /\ [][Next]_vars
=============================================================================
