----------------------------- MODULE PcLifecycle -----------------------------
(***************************************************************************)
(* What the operations on remote PCs promise when each is taken as one     *)
(* step: the reading a caller of the REST interface or a sender of repeater *)
(* messages has of them.  RemotePcRegistry is the detailed specification.  *)
(***************************************************************************)
EXTENDS RemotePc

CONSTANTS Events, MaxRows, NoPc

VARIABLES pcs, nextId, groups

vars == <<pcs, nextId, groups>>

Ids == 1 .. MaxRows

Live == {i \in Ids : pcs[i] # NoPc}

Init ==
  /\ pcs = [i \in Ids |->
              IF i = 1 THEN createRemotePc(100, BaseName, BaseGroup) ELSE NoPc]
  /\ nextId = 2
  /\ groups = Groups

\* A new PC goes after all the others, under a name its group does not have.
Register(last, name, group) ==
  /\ nextId \in Ids
  /\ group \in groups
  /\ \A i \in Live :
       /\ pcs[i].repeaterId <= pcs[last].repeaterId
       /\ <<pcs[i].name, pcs[i].group>> # <<name, group>>
  /\ pcs' = [pcs EXCEPT ![nextId] =
               createRemotePc(pcs[last].repeaterId + 1, name, group)]
  /\ nextId' = nextId + 1
  /\ UNCHANGED groups

Change(i, row) ==
  /\ pcs' = [pcs EXCEPT ![i] = row]
  /\ UNCHANGED <<nextId, groups>>

Connect(i, r) ==
  /\ MayConnect(pcs[i], r)
  /\ Change(i, updateReconnectId(pcs[i], r))

Release(i, r) ==
  /\ \A j \in Live : pcs[j].reconnectId = r <=> j = i
  /\ Change(i, disAssign(pcs[i]))

Handle(i, event) ==
  Change(i, SetStatus(pcs[i], StatusFor(event, pcs[i])))

DeleteOne(i) ==
  /\ i # 1
  /\ pcs[i].status # "ACTIVE"
  /\ Change(i, NoPc)

DeleteWithGroup(group) ==
  /\ group \in groups \ {BaseGroup}
  /\ pcs' = [i \in Ids |->
               IF i \in Live /\ pcs[i].group = group THEN NoPc ELSE pcs[i]]
  /\ groups' = groups \ {group}
  /\ UNCHANGED nextId

Next ==
  \/ \E i \in Live :
       \/ \E name \in Names, group \in Groups : Register(i, name, group)
       \/ \E r \in ReconnectIds : Connect(i, r) \/ Release(i, r)
       \/ \E event \in Events : Handle(i, event)
       \/ DeleteOne(i)
  \/ \E group \in Groups : DeleteWithGroup(group)

Spec == Init /\ [][Next]_vars
=============================================================================
