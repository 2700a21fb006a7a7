-------------------------- MODULE ConnectionLife ----------------------------
(***************************************************************************)
(* What an RFB object promises those who listen to it (docs/API.md of       *)
(* noVNC): it tells "connect" at most once, then "disconnect" exactly once, *)
(* and nothing after that.                                                  *)
(***************************************************************************)
EXTENDS Sequences

VARIABLES
  state,     \* "none" before the first object, then that of the latest one
  told       \* the events it has dispatched

life == <<state, told>>

LifeInit == state = "none" /\ told = <<>>

Tells(event) == told' = Append(told, event)

Created == state \in {"none", "disconnected"} /\ state' = "connecting" /\ told' = <<>>
Connected == state = "connecting" /\ state' = "connected" /\ Tells("connect")
Leaving == state \in {"connecting", "connected"} /\ state' = "disconnecting" /\ UNCHANGED told
Left ==
  /\ state \in {"connecting", "connected", "disconnecting"}
  /\ state' = "disconnected" /\ Tells("disconnect")

LifeNext == Created \/ Connected \/ Leaving \/ Left

LifeSpec == LifeInit /\ [][LifeNext]_life
=============================================================================
