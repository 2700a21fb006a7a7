------------------------------- MODULE PcTable -------------------------------
(***************************************************************************)
(* What the table of remote PCs guarantees however its transactions        *)
(* interleave: a row keeps its repeater id, name and group as long as it   *)
(* exists, no id and no two rows' repeater id coincide, a deleted row does *)
(* not come back under its id, and the base PC with repeater id 100 stays. *)
(***************************************************************************)
EXTENDS Integers

CONSTANTS
  Names, BaseName, Groups, BaseGroup,
  MaxRows,
  Nobody         \* the identity of an id without a row

Ids == 1 .. MaxRows

VARIABLES
  who,           \* the identity <<repeaterId, name, group>> of each id's row
  nextId

vars == <<who, nextId>>

Base == <<100, BaseName, BaseGroup>>

Present == {i \in Ids : who[i] # Nobody}

Init ==
  /\ who = [i \in Ids |-> IF i = 1 THEN Base ELSE Nobody]
  /\ nextId = 2

Add(rid, name, group) ==
  /\ nextId \in Ids
  /\ \A i \in Present : who[i][1] # rid
  /\ who' = [who EXCEPT ![nextId] = <<rid, name, group>>]
  /\ nextId' = nextId + 1

Remove(gone) ==
  /\ 1 \notin gone
  /\ who' = [i \in Ids |-> IF i \in gone THEN Nobody ELSE who[i]]
  /\ UNCHANGED nextId

Next ==
  \/ \E rid \in 101 .. (100 + MaxRows), name \in Names, group \in Groups :
       Add(rid, name, group)
  \/ \E gone \in SUBSET Present : Remove(gone)

Spec == Init /\ [][Next]_vars
=============================================================================
