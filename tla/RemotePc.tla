------------------------------ MODULE RemotePc ------------------------------
(***************************************************************************)
(* A row of the table remote_pc (domain/RemotePc.java) and the changes a   *)
(* row can go through in memory.  A row is what one transaction or one     *)
(* message handler holds: nothing here touches the database.               *)
(*                                                                         *)
(* Left out: the access password (checked before anything is changed) and  *)
(* the value of assignedAt, of which only "null or not" is ever tested.    *)
(***************************************************************************)
EXTENDS Integers

CONSTANTS
  Names,         \* PC names
  BaseName,      \* the name of the PC the data loader creates
  Groups,        \* rows of the table segment
  BaseGroup,     \* the group the data loader creates, row 1
  ReconnectIds   \* reconnect ids an app may send, other than "default"

ASSUME RemotePcAssumption ==
  /\ BaseName \in Names
  /\ BaseGroup \in Groups
  /\ "" \notin ReconnectIds

\* domain/Status.java
Status == {"OFFLINE", "STANDBY", "ACTIVE"}

\* The messages of the repeater that change a PC, by the name of their number.
ServerEvents ==
  {"SERVER_CONNECT", "SERVER_DISCONNECT", "SESSION_START", "SESSION_END"}

RemotePcRow ==
  [repeaterId : Nat, name : Names, group : Groups, status : Status,
   assigned : BOOLEAN, reconnectId : ReconnectIds \union {""}]

\* The columns no operation changes once the row is created.
Identity(row) == <<row.repeaterId, row.name, row.group>>

createRemotePc(rid, name, group) ==
  [repeaterId |-> rid, name |-> name, group |-> group, status |-> "OFFLINE",
   assigned |-> FALSE, reconnectId |-> ""]

updateReconnectId(row, r) == [row EXCEPT !.reconnectId = r]

\* Mutant: the reconnect id is cleared to null, not to the empty string.
disAssignToNull(row) == [row EXCEPT !.assigned = FALSE, !.reconnectId = "null"]

\* The status is left as it is.
disAssign(row) == [row EXCEPT !.assigned = FALSE, !.reconnectId = ""]

\* updateStatus, and assign() for the first STANDBY of an unassigned PC.
SetStatus(row, status) ==
  [row EXCEPT !.status = status, !.assigned = @ \/ status = "STANDBY"]

\* The status a message asks for, from the row as the handler found it.
StatusFor(event, row) ==
  CASE event = "SERVER_CONNECT"    -> "STANDBY"
    [] event = "SERVER_DISCONNECT" -> "OFFLINE"
    [] event = "SESSION_START"     -> "ACTIVE"
    [] event = "SESSION_END"       -> IF row.assigned THEN "STANDBY" ELSE "OFFLINE"

\* Mutant: the check looks at the status in place of the assignment.
MayConnectUnlessActive(row, r) == row.status = "ACTIVE" => row.reconnectId = r

\* The check an app's connection request has to pass.
MayConnect(row, r) == row.assigned => row.reconnectId = r
=============================================================================
