----------------------- MODULE RemotePcRegistryProofs -----------------------
(***************************************************************************)
(* Proofs about RemotePcRegistry, for any number of workers, names,        *)
(* groups, reconnect ids and rows.                                         *)
(***************************************************************************)
EXTENDS RemotePcRegistry, TLAPS

(***************************************************************************)
(* The operations on a row yield rows and leave its identity alone.        *)
(***************************************************************************)
LEMMA CreatedRow ==
  ASSUME NEW rid \in Nat, NEW name \in Names, NEW group \in Groups
  PROVE  createRemotePc(rid, name, group) \in RemotePcRow
BY DEF createRemotePc, RemotePcRow, Status

LEMMA ChangedRow ==
  ASSUME NEW row \in RemotePcRow
  PROVE  /\ \A r \in ReconnectIds :
              /\ updateReconnectId(row, r) \in RemotePcRow
              /\ Identity(updateReconnectId(row, r)) = Identity(row)
         /\ disAssign(row) \in RemotePcRow
         /\ Identity(disAssign(row)) = Identity(row)
         /\ \A event \in ServerEvents :
              /\ StatusFor(event, row) \in Status
              /\ SetStatus(row, StatusFor(event, row)) \in RemotePcRow
              /\ Identity(SetStatus(row, StatusFor(event, row))) = Identity(row)
<1>1. \A r \in ReconnectIds :
        /\ updateReconnectId(row, r) \in RemotePcRow
        /\ Identity(updateReconnectId(row, r)) = Identity(row)
  BY DEF updateReconnectId, Identity, RemotePcRow
<1>2. /\ disAssign(row) \in RemotePcRow
      /\ Identity(disAssign(row)) = Identity(row)
  BY DEF disAssign, Identity, RemotePcRow
<1>3. ASSUME NEW event \in ServerEvents
      PROVE  StatusFor(event, row) \in Status
  BY DEF ServerEvents, StatusFor, Status
<1>4. ASSUME NEW status \in Status
      PROVE  /\ SetStatus(row, status) \in RemotePcRow
             /\ Identity(SetStatus(row, status)) = Identity(row)
  BY DEF SetStatus, Identity, RemotePcRow, Status
<1>5. QED
  BY <1>1, <1>2, <1>3, <1>4

LEMMA FinishType ==
  ASSUME TypeOK, NEW w \in Workers, Finish(w)
  PROVE  /\ at' \in [Workers -> Steps]
         /\ key' \in [Workers -> Ids \union {0}]
         /\ copy' \in [Workers -> RemotePcRow \union {NoPc}]
         /\ doomed' \in [Workers -> SUBSET Ids]
         /\ leaving' \in [Workers -> Groups \union {NoGroup}]
BY DEF TypeOK, Finish, Hold, Steps


(***************************************************************************)
(* The inductive invariant.  TypeOK alone is not inductive: Merge tells    *)
(* the dashboards the status of the row a worker holds, so it must hold    *)
(* one.  The rest of RegistryInv relates what workers hold to the table.   *)
(***************************************************************************)
IInv == TypeOK /\ RegistryInv

LEMMA InitInv == Init => IInv
<1> SUFFICES ASSUME Init PROVE IInv
  OBVIOUS
<1> DEFINE base == createRemotePc(100, BaseName, BaseGroup)
<1>1. /\ base \in RemotePcRow
      /\ base # NoPc
      /\ base.repeaterId = 100
      /\ Identity(base) = <<100, BaseName, BaseGroup>>
  BY CreatedRow, RemotePcAssumption, RegistryAssumption
     DEF createRemotePc, Identity
<1>2. 1 \in Ids /\ \A i \in Ids : pcs[i] # NoPc <=> i = 1
  BY <1>1, RegistryAssumption DEF Init, Ids
<1> HIDE DEF base
<1>3. TypeOK
  BY <1>1, RegistryAssumption DEF Init, base, TypeOK, Ids, Steps
<1>4. WorkersHoldRows /\ CopiesShareIdentity
  BY DEF Init, WorkersHoldRows, CopiesShareIdentity
<1>5. RowsBelowNextId
  BY <1>2 DEF Init, RowsBelowNextId
<1>6. RepeaterIdsUnique
  BY <1>1, <1>2 DEF Init, base, RepeaterIdsUnique, Live
<1>7. BasePcStays
  BY <1>1, <1>2, RemotePcAssumption, RegistryAssumption
     DEF Init, base, BasePcStays
<1>8. NamesCheckedInOrder
  BY <1>1, <1>2 DEF Init, base, NamesCheckedInOrder, Live
<1>9. NamesUniqueUntilDeletion
  BY <1>2 DEF NamesUniqueUntilDeletion, NamesUnique, Live
<1> QED
  BY <1>3, <1>4, <1>5, <1>6, <1>7, <1>8, <1>9 DEF IInv, RegistryInv

\* The parts about the table alone outlive every step that leaves it alone.
LEMMA TableUnchanged ==
  ASSUME IInv, UNCHANGED table
  PROVE  RowsBelowNextId' /\ RepeaterIdsUnique' /\ NamesUniqueUntilDeletion'
BY DEF IInv, RegistryInv, table, RowsBelowNextId, RepeaterIdsUnique,
       NamesUniqueUntilDeletion, NamesUnique, NeverDeleted, Live

LEMMA RegisterReadTopInv ==
  ASSUME IInv, NEW w \in Workers, NEW name \in Names, NEW group \in Groups,
         RegisterReadTop(w, name, group)
  PROVE  IInv'
<1> USE DEF IInv, RegistryInv
<1>1. PICK rid \in 100 .. (100 + MaxRows) :
        /\ IsNextRepeaterId(rid)
        /\ Hold(w, "check", 0, createRemotePc(rid, name, group))
  BY DEF RegisterReadTop
<1> DEFINE row == createRemotePc(rid, name, group)
<1>2. row \in RemotePcRow /\ row.repeaterId = rid
  <2>1. rid \in Nat
    BY RegistryAssumption
  <2> QED
    BY <2>1, CreatedRow DEF createRemotePc
<1>3. rid \in 100 .. (99 + nextId)
  BY <1>1, RegistryAssumption DEF IsNextRepeaterId, RepeaterIdsUnique, TypeOK
<1> HIDE DEF row
<1>4. TypeOK'
  BY <1>1, <1>2 DEF row, TypeOK, RegisterReadTop, Hold, Steps, table
<1>5. WorkersHoldRows'
  BY <1>1, <1>2, <1>3
     DEF row, TypeOK, WorkersHoldRows, RegisterReadTop, Hold, table
<1>6. CopiesShareIdentity'
  BY <1>1 DEF TypeOK, CopiesShareIdentity, RegisterReadTop, Hold, table
<1>7. BasePcStays'
  BY DEF BasePcStays, RegisterReadTop, table
<1>8. NamesCheckedInOrder'
  BY <1>1 DEF TypeOK, NamesCheckedInOrder, NeverDeleted, existsByNameAndGroup,
              Live, RegisterReadTop, Hold, table
<1> QED
  BY <1>4, <1>5, <1>6, <1>7, <1>8, TableUnchanged DEF RegisterReadTop

LEMMA RegisterCheckInv ==
  ASSUME IInv, NEW w \in Workers, RegisterCheck(w)
  PROVE  IInv'
<1> USE DEF IInv, RegistryInv, RegisterCheck, table
<1>1. TypeOK'
  BY DEF TypeOK, Steps
<1>2. WorkersHoldRows'
  BY DEF TypeOK, WorkersHoldRows
<1>3. CopiesShareIdentity' /\ BasePcStays'
  BY DEF TypeOK, CopiesShareIdentity, BasePcStays
<1>4. NamesCheckedInOrder'
  BY DEF TypeOK, NamesCheckedInOrder, NeverDeleted, existsByNameAndGroup, Live
<1> QED
  BY <1>1, <1>2, <1>3, <1>4, TableUnchanged

(***************************************************************************)
(* The commit of an insert.  As long as nothing was deleted, the unique    *)
(* repeater id forces the new row to be the next in order.                 *)
(***************************************************************************)
LEMMA InsertInv ==
  ASSUME IInv, NEW w \in Workers, Insert(w)
  PROVE  IInv'
<1> USE DEF IInv, RegistryInv
<1>1. /\ nextId \in Ids /\ nextId \in Nat \ {1} /\ nextId' = nextId + 1
      /\ pcs[nextId] = NoPc
      /\ copy[w] \in RemotePcRow /\ copy[w] # NoPc
      /\ copy[w].repeaterId \in 100 .. (99 + nextId)
  BY RegistryAssumption
     DEF TypeOK, Insert, Ids, RowsBelowNextId, WorkersHoldRows
<1>2. /\ pcs' \in [Ids -> RemotePcRow \union {NoPc}]
      /\ pcs'[nextId] = copy[w]
      /\ \A i \in Ids \ {nextId} : pcs'[i] = pcs[i]
      /\ Live' = Live \union {nextId}
      /\ nextId \notin Live
  BY <1>1 DEF TypeOK, Insert, Live
<1>3. ASSUME NEW v \in Workers, v # w
      PROVE  /\ at'[v] = at[v] /\ key'[v] = key[v] /\ copy'[v] = copy[v]
             /\ doomed'[v] = doomed[v] /\ leaving'[v] = leaving[v]
  BY <1>3 DEF TypeOK, Insert, Finish, Hold
<1>13. at'[w] = "idle" /\ doomed'[w] = {} /\ leaving'[w] = NoGroup
  BY DEF TypeOK, Insert, Finish, Hold
<1>4. ASSUME NeverDeleted'
      PROVE  /\ NeverDeleted
             /\ copy[w].repeaterId = 99 + nextId
  <2>1. NeverDeleted
    BY <1>1, <1>2, <1>4 DEF NeverDeleted, Ids
  <2>2. SUFFICES ASSUME copy[w].repeaterId # 99 + nextId PROVE FALSE
    BY <2>1
  <2> DEFINE i == copy[w].repeaterId - 99
  <2>3. i \in Ids /\ i < nextId
    BY <1>1, <2>2, RegistryAssumption DEF Ids
  <2>4. i \in Live /\ pcs[i].repeaterId = copy[w].repeaterId
    BY <1>1, <2>1, <2>3 DEF NeverDeleted, Live, NamesCheckedInOrder
  <2>5. \A k \in Live : pcs[k].repeaterId # copy[w].repeaterId
    BY DEF Insert, ConstraintsAllow
  <2> QED
    BY <2>4, <2>5
<1>5. TypeOK'
  BY <1>1, <1>2, FinishType, RegistryAssumption DEF TypeOK, Insert, Ids
<1>6. WorkersHoldRows'
  <2>1. 100 .. (99 + nextId) \subseteq 100 .. (99 + nextId')
    BY <1>1
  <2>2. \A k \in Ids : k < nextId => k < nextId'
    BY <1>1, RegistryAssumption DEF Ids
  <2>3. ASSUME NEW v \in Workers, at'[v] # "idle"
        PROVE  at'[v] = at[v] /\ key'[v] = key[v] /\ copy'[v] = copy[v]
    BY <1>3, <1>13, <2>3
  <2>4. ASSUME NEW v \in Workers,
               at'[v] \in {"check", "insert", "update", "merge"}
        PROVE  /\ copy'[v] \in RemotePcRow
               /\ copy'[v].repeaterId \in 100 .. (99 + nextId')
    BY <2>1, <2>3, <2>4 DEF WorkersHoldRows
  <2>5. ASSUME NEW v \in Workers, at'[v] \in {"update", "merge"}
        PROVE  key'[v] \in Ids /\ key'[v] < nextId'
    BY <2>2, <2>3, <2>5 DEF WorkersHoldRows
  <2> QED
    BY <2>4, <2>5 DEF WorkersHoldRows
<1>7. CopiesShareIdentity'
  <2>1. ASSUME NEW v \in Workers, at'[v] \in {"update", "merge"},
               pcs'[key'[v]] # NoPc
        PROVE  Identity(copy'[v]) = Identity(pcs'[key'[v]])
    <3>1. /\ at[v] \in {"update", "merge"}
          /\ key'[v] = key[v] /\ copy'[v] = copy[v]
      BY <1>3, <1>13, <2>1
    <3>2. key[v] \in Ids \ {nextId}
      BY <1>1, <3>1, RegistryAssumption DEF WorkersHoldRows, Ids
    <3> QED
      BY <1>2, <2>1, <3>1, <3>2 DEF CopiesShareIdentity
  <2> QED
    BY <2>1 DEF CopiesShareIdentity
<1>8. RowsBelowNextId'
  BY <1>1, <1>2, RegistryAssumption DEF RowsBelowNextId, Ids
<1>9. RepeaterIdsUnique'
  <2>1. \A i \in Live : pcs'[i] = pcs[i] /\ pcs[i].repeaterId # copy[w].repeaterId
    BY <1>2 DEF Live, Insert, ConstraintsAllow
  <2>2. \A i \in Live : pcs'[i].repeaterId \in 100 .. (98 + nextId)
    BY <2>1 DEF RepeaterIdsUnique
  <2>3. \A i \in Live' : pcs'[i].repeaterId \in 100 .. (98 + nextId')
    BY <1>1, <1>2, <2>2
  <2>4. \A i, j \in Live' : pcs'[i].repeaterId = pcs'[j].repeaterId => i = j
    BY <1>2, <2>1 DEF RepeaterIdsUnique
  <2> QED
    BY <2>3, <2>4 DEF RepeaterIdsUnique
<1>10. BasePcStays'
  <2>1. pcs'[1] = pcs[1]
    <3>1. 1 \in Ids \ {nextId}
      BY <1>1, RegistryAssumption DEF Ids
    <3> QED
      BY <1>2, <3>1
  <2>a. groups' = groups
    BY DEF Insert
  <2>2. ASSUME NEW v \in Workers
        PROVE  1 \notin doomed'[v] /\ leaving'[v] # BaseGroup
    <3>1. CASE v = w
      BY <1>13, <3>1, RemotePcAssumption, RegistryAssumption
    <3>2. CASE v # w
      BY <1>3, <3>2 DEF BasePcStays
    <3> QED
      BY <3>1, <3>2
  <2> QED
    BY <2>1, <2>2, <2>a DEF BasePcStays
<1>11. NamesCheckedInOrder'
  <2> SUFFICES ASSUME NeverDeleted'
               PROVE  /\ \A i \in Live' : pcs'[i].repeaterId = 99 + i
                      /\ \A v \in Workers :
                           at'[v] = "insert" => copy'[v].repeaterId # 99 + nextId'
    BY DEF NamesCheckedInOrder
  <2>1. \A i \in Live' : pcs'[i].repeaterId = 99 + i
    BY <1>2, <1>4 DEF NamesCheckedInOrder, Live
  <2>2. \A v \in Workers :
          at'[v] = "insert" => copy'[v].repeaterId # 99 + nextId'
    BY <1>1, <1>3, <1>13 DEF WorkersHoldRows
  <2> QED
    BY <2>1, <2>2
<1>12. NamesUniqueUntilDeletion'
  <2> SUFFICES ASSUME NeverDeleted',
                      NEW i \in Live', NEW j \in Live',
                      pcs'[i].name = pcs'[j].name, pcs'[i].group = pcs'[j].group
               PROVE  i = j
    BY DEF NamesUniqueUntilDeletion, NamesUnique
  <2>1. \A k \in Live : pcs'[k] = pcs[k]
    BY <1>2 DEF Live
  <2>2. \A k \in Live : ~ (/\ pcs[k].name = copy[w].name
                          /\ pcs[k].group = copy[w].group)
    BY <1>4 DEF Insert, NamesCheckedInOrder, existsByNameAndGroup
  <2>3. \A k, l \in Live :
          pcs[k].name = pcs[l].name /\ pcs[k].group = pcs[l].group => k = l
    BY <1>4 DEF NamesUniqueUntilDeletion, NamesUnique
  <2> QED
    BY <1>2, <2>1, <2>2, <2>3
<1> QED
  BY <1>5, <1>6, <1>7, <1>8, <1>9, <1>10, <1>11, <1>12

(***************************************************************************)
(* A worker takes up a row it has read and changed, keeping its identity.  *)
(***************************************************************************)
LEMMA HoldChangedRow ==
  ASSUME IInv, NEW w \in Workers, NEW i \in Live, NEW row \in RemotePcRow,
         Identity(row) = Identity(pcs[i]),
         NEW s \in {"update", "merge"}, Hold(w, s, i, row),
         UNCHANGED <<table, board, doomed, leaving>>
  PROVE  IInv'
<1> USE DEF IInv, RegistryInv, Hold, table
<1>1. i \in Ids /\ pcs[i] \in RemotePcRow /\ pcs[i] # NoPc
  BY DEF TypeOK, Live
<1>2. row.repeaterId = pcs[i].repeaterId
  BY DEF Identity
<1>3. TypeOK'
  BY <1>1 DEF TypeOK, Steps
<1>4. WorkersHoldRows'
  <2>1. i < nextId
    BY <1>1 DEF RowsBelowNextId
  <2>2. row.repeaterId \in 100 .. (99 + nextId)
    BY <1>2 DEF TypeOK, RepeaterIdsUnique
  <2> QED
    BY <1>1, <2>1, <2>2 DEF TypeOK, WorkersHoldRows
<1>5. CopiesShareIdentity'
  BY DEF TypeOK, CopiesShareIdentity
<1>6. BasePcStays'
  BY DEF BasePcStays
<1>7. NamesCheckedInOrder'
  BY DEF TypeOK, NamesCheckedInOrder, NeverDeleted, existsByNameAndGroup, Live
<1> QED
  BY <1>3, <1>4, <1>5, <1>6, <1>7, TableUnchanged

LEMMA ReadAndChangeInv ==
  ASSUME IInv, NEW w \in Workers
  PROVE  /\ \A name \in Names, group \in Groups, r \in ReconnectIds :
              ConnectSetting(w, name, group, r) => IInv'
         /\ \A r \in ReconnectIds : DisAssign(w, r) => IInv'
         /\ \A event \in Events : HandleEvent(w, event) => IInv'
<1>1. \A i \in Live : pcs[i] \in RemotePcRow
  BY DEF IInv, TypeOK, Live
<1>2. ASSUME NEW name \in Names, NEW group \in Groups, NEW r \in ReconnectIds,
             ConnectSetting(w, name, group, r)
      PROVE  IInv'
  <2>1. PICK i \in Live : Hold(w, "update", i, updateReconnectId(pcs[i], r))
    BY <1>2 DEF ConnectSetting
  <2> QED
    BY <1>1, <1>2, <2>1, ChangedRow, HoldChangedRow DEF ConnectSetting
<1>3. ASSUME NEW r \in ReconnectIds, DisAssign(w, r)
      PROVE  IInv'
  <2>1. PICK i \in Live : Hold(w, "update", i, disAssign(pcs[i]))
    BY <1>3 DEF DisAssign
  <2> QED
    BY <1>1, <1>3, <2>1, ChangedRow, HoldChangedRow DEF DisAssign
<1>4. ASSUME NEW event \in Events, HandleEvent(w, event)
      PROVE  IInv'
  <2>1. PICK i \in Live :
          Hold(w, "merge", i, SetStatus(pcs[i], StatusFor(event, pcs[i])))
    BY <1>4 DEF HandleEvent
  <2>2. event \in ServerEvents
    BY RegistryAssumption
  <2> QED
    BY <1>1, <1>4, <2>1, <2>2, ChangedRow, HoldChangedRow DEF HandleEvent
<1> QED
  BY <1>2, <1>3, <1>4

(***************************************************************************)
(* The commit of an update writes a stale row over a newer one: the table  *)
(* changes in no column that the invariant speaks of.                      *)
(***************************************************************************)
LEMMA UpdateInv ==
  ASSUME IInv, NEW w \in Workers, Update(w)
  PROVE  IInv'
<1> USE DEF IInv, RegistryInv
<1>1. /\ key[w] \in Live /\ key[w] \in Ids
      /\ copy[w] \in RemotePcRow /\ copy[w] # NoPc
      /\ Identity(copy[w]) = Identity(pcs[key[w]])
  BY RegistryAssumption
     DEF TypeOK, Update, Live, WorkersHoldRows, CopiesShareIdentity
<1>2. /\ Live' = Live
      /\ \A i \in Ids : pcs'[i] = NoPc <=> pcs[i] = NoPc
      /\ \A i \in Live : Identity(pcs'[i]) = Identity(pcs[i])
  BY <1>1 DEF TypeOK, Update, Live
<1>3. \A i \in Live : /\ pcs'[i].repeaterId = pcs[i].repeaterId
                      /\ pcs'[i].name = pcs[i].name
                      /\ pcs'[i].group = pcs[i].group
  BY <1>2 DEF Identity
<1>4. ASSUME NEW v \in Workers
      PROVE  \/ /\ at'[v] = at[v] /\ key'[v] = key[v] /\ copy'[v] = copy[v]
                /\ doomed'[v] = doomed[v] /\ leaving'[v] = leaving[v]
             \/ at'[v] = "idle" /\ doomed'[v] = {} /\ leaving'[v] = NoGroup
  BY DEF TypeOK, Update, Finish, Hold
<1>5. TypeOK'
  BY <1>1, FinishType DEF TypeOK, Update
<1>6. WorkersHoldRows'
  BY <1>4 DEF WorkersHoldRows, Update
<1>7. CopiesShareIdentity'
  <2>1. ASSUME NEW v \in Workers, at'[v] \in {"update", "merge"},
               pcs'[key'[v]] # NoPc
        PROVE  Identity(copy'[v]) = Identity(pcs'[key'[v]])
    <3>1. /\ at[v] \in {"update", "merge"}
          /\ key'[v] = key[v] /\ copy'[v] = copy[v] /\ key[v] \in Ids
      BY <1>4, <2>1 DEF WorkersHoldRows
    <3> QED
      BY <1>2, <2>1, <3>1 DEF CopiesShareIdentity, Live
  <2> QED
    BY <2>1 DEF CopiesShareIdentity
<1>8. RowsBelowNextId'
  BY <1>2 DEF RowsBelowNextId, Update
<1>9. RepeaterIdsUnique'
  BY <1>2, <1>3 DEF RepeaterIdsUnique, Update
<1>10. BasePcStays'
  <2>1. 1 \in Live /\ pcs'[1] # NoPc /\ Identity(pcs'[1]) = Identity(pcs[1])
    BY <1>2, RegistryAssumption DEF BasePcStays, Live, Ids
  <2>2. ASSUME NEW v \in Workers
        PROVE  1 \notin doomed'[v] /\ leaving'[v] # BaseGroup
    BY <1>4, RemotePcAssumption, RegistryAssumption DEF BasePcStays
  <2> QED
    BY <2>1, <2>2 DEF BasePcStays, Update
<1>11. NeverDeleted' <=> NeverDeleted
  BY <1>2 DEF NeverDeleted, Update
<1>12. NamesCheckedInOrder'
  <2>1. ASSUME NeverDeleted
        PROVE  \A i \in Live' : pcs'[i].repeaterId = 99 + i
    BY <1>2, <1>3, <2>1 DEF NamesCheckedInOrder
  <2>2. ASSUME NeverDeleted, NEW v \in Workers, at'[v] = "insert",
               copy'[v].repeaterId = 99 + nextId', NEW i \in Live'
        PROVE  ~ (pcs'[i].name = copy'[v].name /\ pcs'[i].group = copy'[v].group)
    <3>1. at[v] = "insert" /\ copy'[v] = copy[v] /\ nextId' = nextId
      BY <1>4, <2>2 DEF Update
    <3>2. ~ (pcs[i].name = copy[v].name /\ pcs[i].group = copy[v].group)
      BY <1>2, <2>2, <3>1 DEF NamesCheckedInOrder, existsByNameAndGroup
    <3> QED
      BY <1>2, <1>3, <3>1, <3>2
  <2> QED
    BY <1>11, <2>1, <2>2 DEF NamesCheckedInOrder, existsByNameAndGroup
<1>13. NamesUniqueUntilDeletion'
  BY <1>2, <1>3, <1>11 DEF NamesUniqueUntilDeletion, NamesUnique
<1> QED
  BY <1>5, <1>6, <1>7, <1>8, <1>9, <1>10, <1>12, <1>13

LEMMA MergeInv ==
  ASSUME IInv, NEW w \in Workers, Merge(w)
  PROVE  IInv'
<1> USE DEF IInv, RegistryInv
<1>1. /\ at[w] = "merge" /\ key[w] \in Ids /\ key[w] < nextId
      /\ copy[w] \in RemotePcRow
      /\ UNCHANGED table
  BY DEF Merge, WorkersHoldRows
<1>2. board' \in [Ids -> Status \union {"unset"}]
  BY <1>1 DEF TypeOK, Merge, sendStatusUpdate, RemotePcRow
<1>3. ASSUME NEW v \in Workers
      PROVE  \/ /\ at'[v] = at[v] /\ key'[v] = key[v] /\ copy'[v] = copy[v]
             \/ at'[v] = "idle"
             \/ /\ v = w /\ at'[v] = "update"
                /\ key'[v] = key[v] /\ copy'[v] = copy[v]
             \/ /\ v = w /\ at'[v] = "insert" /\ copy'[v] = copy[v]
                /\ pcs[key[w]] = NoPc
  BY DEF TypeOK, Merge, Finish, Hold
<1>4. TypeOK'
  BY <1>1, <1>2, FinishType DEF TypeOK, Merge, Hold, Steps, table
<1>5. WorkersHoldRows'
  BY <1>1, <1>3 DEF WorkersHoldRows, table
<1>6. CopiesShareIdentity'
  BY <1>1, <1>3 DEF CopiesShareIdentity, table
<1>7. BasePcStays'
  <2>1. ASSUME NEW v \in Workers
        PROVE  1 \notin doomed'[v] /\ leaving'[v] # BaseGroup
    BY RemotePcAssumption, RegistryAssumption
       DEF TypeOK, Merge, Finish, BasePcStays
  <2> QED
    BY <1>1, <2>1 DEF BasePcStays, table
<1>8. NamesCheckedInOrder'
  <2>1. pcs[key[w]] = NoPc => ~ NeverDeleted
    BY <1>1 DEF NeverDeleted
  <2> QED
    BY <1>1, <1>3, <2>1
       DEF NamesCheckedInOrder, NeverDeleted, existsByNameAndGroup, Live, table
<1> QED
  BY <1>1, <1>4, <1>5, <1>6, <1>7, <1>8, TableUnchanged

LEMMA MarkForDeletionInv ==
  ASSUME IInv, NEW w \in Workers,
         DeletePc(w) \/ \E group \in Groups : DeleteGroup(w, group)
  PROVE  IInv'
<1> USE DEF IInv, RegistryInv
<1>1. /\ UNCHANGED <<table, board, key, copy>>
      /\ at' = [at EXCEPT ![w] = "delete"]
  BY DEF DeletePc, DeleteGroup
<1>2. /\ doomed' \in [Workers -> SUBSET Ids]
      /\ leaving' \in [Workers -> Groups \union {NoGroup}]
      /\ \A v \in Workers : 1 \notin doomed'[v] /\ leaving'[v] # BaseGroup
  <2>1. CASE DeletePc(w)
    BY <2>1 DEF DeletePc, TypeOK, BasePcStays, Live
  <2>2. ASSUME NEW group \in Groups, DeleteGroup(w, group)
        PROVE  <1>2
    <3> DEFINE gone == {i \in Live : pcs[i].group = group}
    <3>1. group # BaseGroup /\ pcs[1].group = BaseGroup
      BY <2>2 DEF DeleteGroup, BasePcStays, Identity
    <3>2. 1 \notin gone /\ gone \in SUBSET Ids
      BY <3>1 DEF Live
    <3>3. /\ doomed' = [doomed EXCEPT ![w] = gone]
          /\ leaving' = [leaving EXCEPT ![w] = group]
      BY <2>2 DEF DeleteGroup
    <3> HIDE DEF gone
    <3> QED
      BY <3>1, <3>2, <3>3 DEF TypeOK, BasePcStays
  <2> QED
    BY <2>1, <2>2
<1>3. TypeOK'
  BY <1>1, <1>2 DEF TypeOK, Steps, table
<1>4. WorkersHoldRows' /\ CopiesShareIdentity'
  BY <1>1 DEF TypeOK, WorkersHoldRows, CopiesShareIdentity, table
<1>5. BasePcStays'
  BY <1>1, <1>2 DEF TypeOK, BasePcStays, table
<1>6. NamesCheckedInOrder'
  BY <1>1 DEF TypeOK, NamesCheckedInOrder, NeverDeleted, existsByNameAndGroup,
              Live, table
<1> QED
  BY <1>1, <1>3, <1>4, <1>5, <1>6, TableUnchanged

LEMMA AbortInv ==
  ASSUME IInv, NEW w \in Workers, Abort(w)
  PROVE  IInv'
<1> USE DEF IInv, RegistryInv, Abort
<1>1. TypeOK'
  BY FinishType DEF TypeOK, table
<1>2. WorkersHoldRows' /\ CopiesShareIdentity'
  BY DEF TypeOK, WorkersHoldRows, CopiesShareIdentity, Finish, Hold, table
<1>3. BasePcStays'
  BY RemotePcAssumption, RegistryAssumption DEF TypeOK, BasePcStays, Finish, table
<1>4. NamesCheckedInOrder'
  BY DEF TypeOK, NamesCheckedInOrder, NeverDeleted, existsByNameAndGroup, Live,
         Finish, Hold, table
<1> QED
  BY <1>1, <1>2, <1>3, <1>4, TableUnchanged

(***************************************************************************)
(* The commit of a deletion: rows go, and from then on NeverDeleted is     *)
(* false unless there was nothing to delete.                               *)
(***************************************************************************)
LEMMA DeleteInv ==
  ASSUME IInv, NEW w \in Workers, Delete(w)
  PROVE  IInv'
<1> USE DEF IInv, RegistryInv
<1>1. /\ \A i \in Ids : pcs'[i] = IF i \in doomed[w] THEN NoPc ELSE pcs[i]
      /\ Live' = Live \ doomed[w]
      /\ \A i \in Live' : pcs'[i] = pcs[i]
      /\ nextId' = nextId
  BY DEF Delete, Live
<1>2. ASSUME NEW v \in Workers
      PROVE  \/ /\ at'[v] = at[v] /\ key'[v] = key[v] /\ copy'[v] = copy[v]
                /\ doomed'[v] = doomed[v] /\ leaving'[v] = leaving[v]
             \/ at'[v] = "idle" /\ doomed'[v] = {} /\ leaving'[v] = NoGroup
  BY DEF TypeOK, Delete, Finish, Hold
<1>3. TypeOK'
  BY FinishType DEF TypeOK, Delete
<1>4. WorkersHoldRows'
  BY <1>1, <1>2 DEF WorkersHoldRows
<1>5. CopiesShareIdentity'
  <2>1. ASSUME NEW v \in Workers, at'[v] \in {"update", "merge"},
               pcs'[key'[v]] # NoPc
        PROVE  Identity(copy'[v]) = Identity(pcs'[key'[v]])
    <3>1. /\ at[v] \in {"update", "merge"}
          /\ key'[v] = key[v] /\ copy'[v] = copy[v] /\ key[v] \in Ids
      BY <1>2, <2>1 DEF WorkersHoldRows
    <3> QED
      BY <1>1, <2>1, <3>1 DEF CopiesShareIdentity
  <2> QED
    BY <2>1 DEF CopiesShareIdentity
<1>6. RowsBelowNextId'
  BY <1>1 DEF RowsBelowNextId
<1>7. RepeaterIdsUnique'
  BY <1>1 DEF RepeaterIdsUnique
<1>8. BasePcStays'
  <2>1. pcs'[1] = pcs[1] /\ BaseGroup \in groups'
    BY <1>1, RegistryAssumption DEF BasePcStays, Delete, Ids
  <2>2. ASSUME NEW v \in Workers
        PROVE  1 \notin doomed'[v] /\ leaving'[v] # BaseGroup
    BY <1>2, RemotePcAssumption, RegistryAssumption DEF BasePcStays
  <2> QED
    BY <2>1, <2>2 DEF BasePcStays
<1>9. NeverDeleted' => NeverDeleted
  BY <1>1 DEF NeverDeleted
<1>10. NamesCheckedInOrder'
  <2>1. ASSUME NeverDeleted
        PROVE  \A i \in Live' : pcs'[i].repeaterId = 99 + i
    BY <1>1, <2>1 DEF NamesCheckedInOrder
  <2>2. ASSUME NeverDeleted, NEW v \in Workers, at'[v] = "insert",
               copy'[v].repeaterId = 99 + nextId', NEW i \in Live'
        PROVE  ~ (pcs'[i].name = copy'[v].name /\ pcs'[i].group = copy'[v].group)
    BY <1>1, <1>2, <2>2 DEF NamesCheckedInOrder, existsByNameAndGroup
  <2> QED
    BY <1>9, <2>1, <2>2 DEF NamesCheckedInOrder, existsByNameAndGroup
<1>11. NamesUniqueUntilDeletion'
  BY <1>1, <1>9 DEF NamesUniqueUntilDeletion, NamesUnique
<1> QED
  BY <1>3, <1>4, <1>5, <1>6, <1>7, <1>8, <1>10, <1>11

LEMMA StepInv == IInv /\ [Next]_vars => IInv'
<1> SUFFICES ASSUME IInv, [Next]_vars PROVE IInv'
  OBVIOUS
<1>1. CASE Next
  BY <1>1, RegisterReadTopInv, RegisterCheckInv, InsertInv, ReadAndChangeInv,
     UpdateInv, MergeInv, MarkForDeletionInv, DeleteInv, AbortInv DEF Next
<1>2. CASE UNCHANGED vars
  BY <1>2 DEF IInv, RegistryInv, vars, TypeOK, WorkersHoldRows,
     CopiesShareIdentity, RowsBelowNextId, RepeaterIdsUnique, BasePcStays,
     NamesCheckedInOrder, NamesUniqueUntilDeletion, NamesUnique, NeverDeleted,
     existsByNameAndGroup, Live
<1> QED
  BY <1>1, <1>2

(***************************************************************************)
(* The inductive invariant holds in every reachable state.                 *)
(***************************************************************************)
THEOREM Invariance == Spec => []IInv
<1>1. QED
  BY InitInv, StepInv, PTL DEF Spec

(***************************************************************************)
(* Every variable of the registry keeps its type.                          *)
(***************************************************************************)
THEOREM TypeCorrect == Spec => []TypeOK
<1>1. IInv => TypeOK
  BY DEF IInv
<1> QED
  BY <1>1, Invariance, PTL

(***************************************************************************)
(* What workers hold stays in step with the table: copies belong to the    *)
(* row they came from, ids grow, repeater ids are unique and from 100 on,  *)
(* the base PC is there and nobody is deleting it.                         *)
(***************************************************************************)
THEOREM RegistryInvariant == Spec => []RegistryInv
<1>1. IInv => RegistryInv
  BY DEF IInv
<1> QED
  BY <1>1, Invariance, PTL

(***************************************************************************)
(* Two PCs of a group have different names until the first PC is deleted,  *)
(* however many registrations race.                                        *)
(***************************************************************************)
THEOREM NamesStayUnique == Spec => []NamesUniqueUntilDeletion
<1>1. IInv => NamesUniqueUntilDeletion
  BY DEF IInv, RegistryInv
<1> QED
  BY <1>1, Invariance, PTL

(***************************************************************************)
(* The registry implements PcTable: an insert adds an identity, a deletion *)
(* removes some, and every other step leaves all identities alone.         *)
(***************************************************************************)
Who == [i \in Ids |-> IF pcs[i] = NoPc THEN <<>> ELSE Identity(pcs[i])]

LEMMA TableInit == Init => Table!Init
<1> SUFFICES ASSUME Init PROVE Table!Init
  OBVIOUS
<1> DEFINE base == createRemotePc(100, BaseName, BaseGroup)
<1>1. base # NoPc /\ Identity(base) = <<100, BaseName, BaseGroup>>
  BY CreatedRow, RemotePcAssumption, RegistryAssumption
     DEF createRemotePc, Identity
<1> HIDE DEF base
<1>2. \A i \in Ids : pcs[i] = IF i = 1 THEN base ELSE NoPc
  BY DEF Init, base
<1> QED
  BY <1>1, <1>2 DEF Table!Init, Table!Ids, Table!Base, Ids, Init

LEMMA TableStep ==
  ASSUME IInv, IInv', [Next]_vars
  PROVE  [Table!Next]_(Table!vars)
<1> USE DEF IInv, RegistryInv
<1>1. /\ \A i \in Ids : Who[i] = IF pcs[i] = NoPc THEN <<>> ELSE Identity(pcs[i])
      /\ \A i \in Ids : Identity(pcs[i]) # <<>>
  BY DEF Who, Identity
<1>2. Table!Present = Live
  BY <1>1 DEF Table!Present, Table!Ids, Ids, Live, Who
<1>3. ASSUME UNCHANGED <<pcs, nextId>>
      PROVE  UNCHANGED Table!vars
  BY <1>3 DEF Table!vars
<1>4. ASSUME NEW w \in Workers, Insert(w)
      PROVE  Table!Next
  <2>1. /\ nextId \in Ids /\ copy[w] \in RemotePcRow /\ copy[w] # NoPc
        /\ copy[w].repeaterId \in 100 .. (99 + nextId)
        /\ pcs' = [pcs EXCEPT ![nextId] = copy[w]]
        /\ nextId' = nextId + 1
    BY <1>4, RegistryAssumption DEF TypeOK, Insert, Ids, WorkersHoldRows
  <2>2. \A i \in Live : pcs[i].repeaterId # copy[w].repeaterId
    BY <1>4 DEF Insert, ConstraintsAllow
  <2>3. copy[w].repeaterId \in 101 .. (100 + MaxRows)
    <3>1. 1 \in Live /\ pcs[1].repeaterId = 100
      BY RegistryAssumption DEF BasePcStays, Identity, Live, Ids
    <3>2. copy[w].repeaterId # 100
      BY <2>2, <3>1
    <3> QED
      BY <2>1, <3>2, RegistryAssumption DEF Ids
  <2>4. copy[w].name \in Names /\ copy[w].group \in Groups
    BY <2>1 DEF RemotePcRow
  <2>5. Table!Add(copy[w].repeaterId, copy[w].name, copy[w].group)
    <3>a. \A i \in Live : Who[i] = Identity(pcs[i])
      BY <1>1 DEF Live
    <3>1. \A i \in Live : Who[i][1] = pcs[i].repeaterId
      BY <3>a DEF Identity
    <3>2. Who' = [Who EXCEPT ![nextId] = Identity(copy[w])]
      BY <2>1 DEF TypeOK, Who
    <3> QED
      BY <1>2, <2>1, <2>2, <3>1, <3>2
         DEF Table!Add, Table!Ids, Ids, Who, Identity
  <2> QED
    BY <2>3, <2>4, <2>5 DEF Table!Next, Table!Add
<1>5. ASSUME NEW w \in Workers, Update(w)
      PROVE  UNCHANGED Table!vars
  <2>1. Identity(copy[w]) = Identity(pcs[key[w]]) /\ copy[w] # NoPc
    BY <1>5, RegistryAssumption
       DEF Update, Live, CopiesShareIdentity, WorkersHoldRows
  <2>2. UNCHANGED <<Who, nextId>>
    BY <1>5, <2>1 DEF Update, TypeOK, Live, Who
  <2> QED
    BY <2>2 DEF Table!vars, Who
<1>6. ASSUME NEW w \in Workers, Delete(w)
      PROVE  Table!Next
  <2>1. 1 \notin doomed[w] /\ doomed[w] \in SUBSET Live
    BY <1>6 DEF Delete, BasePcStays
  <2>2. Who' = [i \in Ids |-> IF i \in doomed[w] THEN <<>> ELSE Who[i]]
    BY <1>6 DEF Delete, Who
  <2>3. Table!Remove(doomed[w])
    BY <1>6, <2>1, <2>2 DEF Table!Remove, Table!Ids, Ids, Who, Delete
  <2> QED
    BY <1>2, <2>1, <2>3 DEF Table!Next, Table!Remove
<1>7. CASE UNCHANGED vars
  BY <1>3, <1>7 DEF vars
<1>8. ASSUME NEW w \in Workers,
             \/ \E name \in Names, group \in Groups : RegisterReadTop(w, name, group)
             \/ RegisterCheck(w)
             \/ \E name \in Names, group \in Groups, r \in ReconnectIds :
                  ConnectSetting(w, name, group, r)
             \/ \E r \in ReconnectIds : DisAssign(w, r)
             \/ \E event \in Events : HandleEvent(w, event)
             \/ Merge(w)
             \/ DeletePc(w)
             \/ \E group \in Groups : DeleteGroup(w, group)
             \/ Abort(w)
      PROVE  UNCHANGED <<pcs, nextId>>
  BY <1>8 DEF RegisterReadTop, RegisterCheck, ConnectSetting, DisAssign,
     HandleEvent, Merge, DeletePc, DeleteGroup, Abort, table
<1> QED
  BY <1>3, <1>4, <1>5, <1>6, <1>7, <1>8 DEF Next

THEOREM TableRefinement == Spec => TableKeepsItsRows
<1>1. IInv /\ IInv' /\ [Next]_vars => [Table!Next]_(Table!vars)
  BY TableStep
<1> QED
  BY <1>1, TableInit, Invariance, PTL DEF Spec, TableKeepsItsRows, Table!Spec

-----------------------------------------------------------------------------
(***************************************************************************)
(* With one worker the registry implements PcLifecycle: each request takes *)
(* effect at its commit, on the row as it is then.                         *)
(***************************************************************************)
SInv == IInv /\ ReadsStayCurrent

\* A lone worker that starts a request, or ends one, leaves no other claim.
LEMMA OnlyClaim ==
  ASSUME OneWorker, IInv, NEW w \in Workers,
         at'[w] = "idle", leaving'[w] = NoGroup
  PROVE  ReadsStayCurrent'
BY DEF OneWorker, ReadsStayCurrent, RegistrationCurrent, RowCurrent,
       DeletionCurrent

LEMMA SerialInit == Init => SInv
BY InitInv
   DEF Init, SInv, ReadsStayCurrent, RegistrationCurrent, RowCurrent,
       DeletionCurrent

LEMMA SerialStep ==
  ASSUME OneWorker, SInv, [Next]_vars
  PROVE  SInv'
<1> USE DEF SInv
<1>1. IInv'
  BY StepInv
<1>2. ASSUME NEW w \in Workers, Finish(w)
      PROVE  ReadsStayCurrent'
  <2>1. at'[w] = "idle" /\ leaving'[w] = NoGroup
    BY <1>2 DEF IInv, TypeOK, Finish, Hold
  <2> QED
    BY <2>1, OnlyClaim
<1>3. ASSUME NEW w \in Workers, NEW name \in Names, NEW group \in Groups,
             RegisterReadTop(w, name, group)
      PROVE  ReadsStayCurrent'
  <2>1. PICK rid \in 100 .. (100 + MaxRows) :
          /\ IsNextRepeaterId(rid)
          /\ Hold(w, "check", 0, createRemotePc(rid, name, group))
    BY <1>3 DEF RegisterReadTop
  <2>2. Live # {}
    BY RegistryAssumption DEF IInv, RegistryInv, BasePcStays, Live, Ids
  <2>3. PICK top \in Live :
          /\ \A i \in Live : pcs[i].repeaterId <= pcs[top].repeaterId
          /\ rid = pcs[top].repeaterId + 1
    BY <2>1, <2>2 DEF IsNextRepeaterId
  <2> DEFINE row == createRemotePc(rid, name, group)
  <2>4. row.name = name /\ row.group = group
    BY DEF createRemotePc
  <2>5. /\ at'[w] = "check" /\ copy'[w] = row /\ UNCHANGED table
        /\ leaving'[w] = NoGroup
    BY <1>3, <2>1
       DEF RegisterReadTop, Idle, Hold, IInv, TypeOK, ReadsStayCurrent,
           RegistrationCurrent, RowCurrent, DeletionCurrent
  <2>6. NumberedLast(row)'
    BY <2>3, <2>4, <2>5 DEF NumberedLast, Live, table
  <2>7. \A v \in Workers : v = w
    BY DEF OneWorker
  <2> QED
    BY <2>5, <2>6, <2>7
       DEF ReadsStayCurrent, RegistrationCurrent, RowCurrent, DeletionCurrent,
           NumberedLast
<1>4. ASSUME NEW w \in Workers, RegisterCheck(w)
      PROVE  ReadsStayCurrent'
  <2>1. /\ at[w] = "check" /\ at'[w] = "insert"
        /\ copy[w].group \in groups
        /\ ~ existsByNameAndGroup(copy[w].name, copy[w].group)
        /\ UNCHANGED <<pcs, nextId, groups, copy>>
        /\ leaving'[w] = NoGroup
    BY <1>4
       DEF RegisterCheck, IInv, TypeOK, table, ReadsStayCurrent,
           RegistrationCurrent, RowCurrent, DeletionCurrent
  <2>2. NumberedLast(copy[w])
    BY <2>1
       DEF ReadsStayCurrent, RegistrationCurrent, RowCurrent, DeletionCurrent
  <2>3. \A v \in Workers : v = w
    BY DEF OneWorker
  <2> QED
    BY <2>1, <2>2, <2>3
       DEF ReadsStayCurrent, RegistrationCurrent, RowCurrent, DeletionCurrent,
              NumberedLast, existsByNameAndGroup, Live
<1>5. ASSUME NEW w \in Workers, Idle(w), NEW i \in Live, NEW s \in {"update", "merge"},
             NEW row, Hold(w, s, i, row), UNCHANGED <<table, board, doomed, leaving>>,
             \/ \E event \in Events :
                  row = SetStatus(pcs[i], StatusFor(event, pcs[i]))
             \/ /\ s = "update"
                /\ \E r \in ReconnectIds :
                     \/ MayConnect(pcs[i], r) /\ row = updateReconnectId(pcs[i], r)
                     \/ /\ \A j \in Live : pcs[j].reconnectId = r <=> j = i
                        /\ row = disAssign(pcs[i])
      PROVE  ReadsStayCurrent'
  <2>1. /\ at'[w] = s /\ key'[w] = i /\ copy'[w] = row
        /\ UNCHANGED <<pcs, groups>> /\ Live' = Live
        /\ leaving'[w] = NoGroup
    BY <1>5
       DEF Idle, Hold, IInv, TypeOK, table, Live, ReadsStayCurrent,
           RegistrationCurrent, RowCurrent, DeletionCurrent
  <2>2. \A v \in Workers : v = w
    BY DEF OneWorker
  <2> QED
    BY <1>5, <2>1, <2>2
       DEF ReadsStayCurrent, RegistrationCurrent, RowCurrent, DeletionCurrent
<1>6. ASSUME NEW w \in Workers, NEW name \in Names, NEW group \in Groups,
             NEW r \in ReconnectIds, ConnectSetting(w, name, group, r)
      PROVE  ReadsStayCurrent'
  <2>1. PICK i \in Live :
          /\ MayConnect(pcs[i], r)
          /\ Hold(w, "update", i, updateReconnectId(pcs[i], r))
    BY <1>6 DEF ConnectSetting
  <2> QED
    BY <1>5, <1>6, <2>1 DEF ConnectSetting
<1>7. ASSUME NEW w \in Workers, NEW r \in ReconnectIds, DisAssign(w, r)
      PROVE  ReadsStayCurrent'
  <2>1. PICK i \in Live :
          /\ \A j \in Live : pcs[j].reconnectId = r <=> j = i
          /\ Hold(w, "update", i, disAssign(pcs[i]))
    BY <1>7 DEF DisAssign
  <2> QED
    BY <1>5, <1>7, <2>1 DEF DisAssign
<1>8. ASSUME NEW w \in Workers, NEW event \in Events, HandleEvent(w, event)
      PROVE  ReadsStayCurrent'
  <2>1. PICK i \in Live :
          Hold(w, "merge", i, SetStatus(pcs[i], StatusFor(event, pcs[i])))
    BY <1>8 DEF HandleEvent
  <2> QED
    BY <1>5, <1>8, <2>1 DEF HandleEvent
<1>9. ASSUME NEW w \in Workers, Merge(w)
      PROVE  ReadsStayCurrent'
  <2>1. at[w] = "merge" /\ key[w] \in Live
    BY <1>9
       DEF Merge, ReadsStayCurrent, RegistrationCurrent, RowCurrent,
           DeletionCurrent
  <2>2. CASE Finish(w)
    BY <1>2, <2>2
  <2>3. CASE /\ at' = [at EXCEPT ![w] = "update"]
             /\ UNCHANGED <<key, copy, doomed, leaving>>
    <3>1. /\ at'[w] = "update" /\ UNCHANGED <<pcs, groups, key, copy>>
          /\ Live' = Live /\ leaving'[w] = NoGroup
      BY <1>9, <2>3
         DEF Merge, IInv, TypeOK, table, Live, ReadsStayCurrent,
             RegistrationCurrent, RowCurrent, DeletionCurrent
    <3>2. \A v \in Workers : v = w
      BY DEF OneWorker
    <3>3. \E event \in Events :
            copy[w] = SetStatus(pcs[key[w]], StatusFor(event, pcs[key[w]]))
      BY <2>1
         DEF ReadsStayCurrent, RegistrationCurrent, RowCurrent,
             DeletionCurrent
    <3> QED
      BY <2>1, <3>1, <3>2, <3>3
         DEF ReadsStayCurrent, RegistrationCurrent, RowCurrent,
             DeletionCurrent
  <2> QED
    BY <1>9, <2>1, <2>2, <2>3 DEF Merge, Live
<1>10. ASSUME NEW w \in Workers, DeletePc(w)
       PROVE  ReadsStayCurrent'
  <2>1. PICK i \in Live \ {1} :
          pcs[i].status # "ACTIVE" /\ doomed' = [doomed EXCEPT ![w] = {i}]
    BY <1>10 DEF DeletePc
  <2>2. /\ at[w] = "idle" /\ at'[w] = "delete" /\ doomed'[w] = {i}
        /\ UNCHANGED <<pcs, groups, leaving>> /\ Live' = Live
    BY <1>10, <2>1 DEF DeletePc, Idle, IInv, TypeOK, table, Live
  <2>3. leaving[w] = NoGroup
    BY <2>2
       DEF ReadsStayCurrent, RegistrationCurrent, RowCurrent, DeletionCurrent
  <2> QED
    BY <2>1, <2>2, <2>3
       DEF ReadsStayCurrent, RegistrationCurrent, RowCurrent, DeletionCurrent,
           OneWorker
<1>11. ASSUME NEW w \in Workers, NEW group \in Groups, DeleteGroup(w, group)
       PROVE  ReadsStayCurrent'
  <2>1. /\ at'[w] = "delete" /\ leaving'[w] = group
        /\ doomed'[w] = {i \in Live : pcs[i].group = group}
        /\ group \in groups \ {BaseGroup}
        /\ UNCHANGED <<pcs, groups>> /\ Live' = Live
    BY <1>11 DEF DeleteGroup, IInv, TypeOK, table, Live
  <2>2. \A v \in Workers : v = w
    BY DEF OneWorker
  <2> QED
    BY <2>1, <2>2
       DEF ReadsStayCurrent, RegistrationCurrent, RowCurrent, DeletionCurrent
<1>12. CASE UNCHANGED vars
  <2>1. /\ Live' = Live
        /\ UNCHANGED <<pcs, groups, at, key, copy, doomed, leaving>>
    BY <1>12 DEF vars, Live
  <2>2. RegistrationCurrent'
    BY <2>1 DEF ReadsStayCurrent, RegistrationCurrent, NumberedLast,
                existsByNameAndGroup
  <2>3. RowCurrent'
    BY <2>1 DEF ReadsStayCurrent, RowCurrent
  <2>4. DeletionCurrent'
    BY <2>1 DEF ReadsStayCurrent, DeletionCurrent
  <2> QED
    BY <1>1, <2>2, <2>3, <2>4 DEF ReadsStayCurrent
<1> QED
  BY <1>1, <1>2, <1>3, <1>4, <1>6, <1>7, <1>8, <1>9, <1>10, <1>11, <1>12
     DEF Next, Insert, Update, Delete, Abort

\* The rows of the two specifications are the same.
LEMMA SameRows ==
  /\ \A rid, name, group :
       Lifecycle!createRemotePc(rid, name, group) = createRemotePc(rid, name, group)
  /\ \A row, r : /\ Lifecycle!MayConnect(row, r) = MayConnect(row, r)
                 /\ Lifecycle!updateReconnectId(row, r) = updateReconnectId(row, r)
  /\ \A row : Lifecycle!disAssign(row) = disAssign(row)
  /\ \A row, event :
       /\ Lifecycle!StatusFor(event, row) = StatusFor(event, row)
       /\ \A status : Lifecycle!SetStatus(row, status) = SetStatus(row, status)
BY DEF Lifecycle!createRemotePc, createRemotePc, Lifecycle!MayConnect,
       MayConnect,
       Lifecycle!updateReconnectId, updateReconnectId, Lifecycle!disAssign,
       disAssign, Lifecycle!StatusFor, StatusFor, Lifecycle!SetStatus, SetStatus

(***************************************************************************)
(* Each step of a lone worker is a step of PcLifecycle or changes nothing  *)
(* it sees: the commits are the steps, reads and rollbacks stutter.        *)
(***************************************************************************)
LEMMA LifecycleStep ==
  ASSUME OneWorker, SInv, [Next]_vars
  PROVE  [Lifecycle!Next]_(Lifecycle!vars)
<1> USE DEF SInv
<1>1. Lifecycle!Live = Live /\ Lifecycle!Ids = Ids
  BY DEF Lifecycle!Live, Lifecycle!Ids, Live, Ids
<1>2. ASSUME UNCHANGED table
      PROVE  UNCHANGED Lifecycle!vars
  BY <1>2 DEF table, Lifecycle!vars
<1>3. ASSUME NEW w \in Workers, Insert(w)
      PROVE  Lifecycle!Next
  <2>1. PICK top \in Live :
          /\ \A i \in Live : pcs[i].repeaterId <= pcs[top].repeaterId
          /\ copy[w] = createRemotePc(pcs[top].repeaterId + 1,
                                      copy[w].name, copy[w].group)
    BY <1>3
       DEF Insert, ReadsStayCurrent, RegistrationCurrent, RowCurrent,
           DeletionCurrent, NumberedLast
  <2>2. /\ copy[w].group \in groups
        /\ \A i \in Live : ~ (/\ pcs[i].name = copy[w].name
                              /\ pcs[i].group = copy[w].group)
    BY <1>3
       DEF Insert, ReadsStayCurrent, RegistrationCurrent, RowCurrent,
           DeletionCurrent, existsByNameAndGroup
  <2>3. copy[w].name \in Names /\ copy[w].group \in Groups /\ nextId \in Ids
    <3>1. nextId \in Ids
      BY <1>3, RegistryAssumption DEF Insert, IInv, TypeOK, Ids
    <3>2. copy[w] \in RemotePcRow
      BY <1>3 DEF Insert, IInv, RegistryInv, WorkersHoldRows
    <3> QED
      BY <3>1, <3>2 DEF RemotePcRow
  <2>4. Lifecycle!Register(top, copy[w].name, copy[w].group)
    BY <1>1, <1>3, <2>1, <2>2, <2>3, SameRows DEF Insert, Lifecycle!Register
  <2>5. \E i \in Live, name \in Names, group \in Groups :
          Lifecycle!Register(i, name, group)
    BY <2>1, <2>3, <2>4 DEF Lifecycle!Register
  <2> QED
    BY <1>1, <2>5 DEF Lifecycle!Next
<1>4. ASSUME NEW w \in Workers, Update(w)
      PROVE  Lifecycle!Next
  <2> DEFINE i == key[w]
  <2>1. i \in Live /\ Lifecycle!Change(i, copy[w])
    BY <1>4 DEF Update, Lifecycle!Change
  <2>2. \/ \E event \in Events :
             copy[w] = SetStatus(pcs[i], StatusFor(event, pcs[i]))
        \/ \E r \in ReconnectIds :
             \/ MayConnect(pcs[i], r) /\ copy[w] = updateReconnectId(pcs[i], r)
             \/ /\ \A j \in Live : pcs[j].reconnectId = r <=> j = i
                /\ copy[w] = disAssign(pcs[i])
    BY <1>4
       DEF Update, ReadsStayCurrent, RegistrationCurrent, RowCurrent,
           DeletionCurrent
  <2>3. \/ \E event \in Events : Lifecycle!Handle(i, event)
        \/ \E r \in ReconnectIds : Lifecycle!Connect(i, r) \/ Lifecycle!Release(i, r)
    <3>1. ASSUME NEW event, copy[w] = SetStatus(pcs[i], StatusFor(event, pcs[i]))
          PROVE  Lifecycle!Handle(i, event)
      BY <2>1, <3>1, SameRows DEF Lifecycle!Handle
    <3>2. ASSUME NEW r, MayConnect(pcs[i], r), copy[w] = updateReconnectId(pcs[i], r)
          PROVE  Lifecycle!Connect(i, r)
      BY <2>1, <3>2, SameRows DEF Lifecycle!Connect
    <3>3. ASSUME NEW r, \A j \in Live : pcs[j].reconnectId = r <=> j = i,
                 copy[w] = disAssign(pcs[i])
          PROVE  Lifecycle!Release(i, r)
      BY <1>1, <2>1, <3>3, SameRows DEF Lifecycle!Release
    <3> HIDE DEF i
    <3> QED
      BY <2>2, <3>1, <3>2, <3>3
  <2> QED
    BY <1>1, <2>1, <2>3 DEF Lifecycle!Next
<1>5. ASSUME NEW w \in Workers, Delete(w)
      PROVE  Lifecycle!Next
  <2>1. /\ pcs' = [i \in Ids |-> IF i \in doomed[w] THEN NoPc ELSE pcs[i]]
        /\ groups' = groups \ {leaving[w]}
        /\ nextId' = nextId
    BY <1>5 DEF Delete
  <2>2. CASE /\ leaving[w] = NoGroup
             /\ \E i \in Live \ {1} : pcs[i].status # "ACTIVE" /\ doomed[w] = {i}
    <3>1. PICK i \in Live \ {1} : pcs[i].status # "ACTIVE" /\ doomed[w] = {i}
      BY <2>2
    <3>2. groups' = groups
      BY <2>1, <2>2, RegistryAssumption DEF IInv, TypeOK
    <3>4. pcs' = [pcs EXCEPT ![i] = NoPc]
      BY <2>1, <3>1 DEF IInv, TypeOK, Live
    <3>3. Lifecycle!DeleteOne(i)
      BY <2>1, <3>1, <3>2, <3>4 DEF Lifecycle!DeleteOne, Lifecycle!Change
    <3> QED
      BY <1>1, <3>1, <3>3 DEF Lifecycle!Next, Lifecycle!DeleteOne
  <2>3. CASE /\ leaving[w] \in groups \ {BaseGroup}
             /\ doomed[w] = {i \in Live : pcs[i].group = leaving[w]}
    <3>1. Lifecycle!DeleteWithGroup(leaving[w]) /\ leaving[w] \in Groups
      BY <1>1, <2>1, <2>3 DEF Lifecycle!DeleteWithGroup, IInv, TypeOK
    <3> QED
      BY <3>1 DEF Lifecycle!Next, Lifecycle!DeleteWithGroup
  <2> QED
    BY <1>5, <2>2, <2>3
       DEF Delete, ReadsStayCurrent, RegistrationCurrent, RowCurrent,
           DeletionCurrent
<1>6. CASE UNCHANGED vars
  BY <1>2, <1>6 DEF vars, table
<1>7. ASSUME NEW w \in Workers,
             \/ \E name \in Names, group \in Groups : RegisterReadTop(w, name, group)
             \/ RegisterCheck(w)
             \/ \E name \in Names, group \in Groups, r \in ReconnectIds :
                  ConnectSetting(w, name, group, r)
             \/ \E r \in ReconnectIds : DisAssign(w, r)
             \/ \E event \in Events : HandleEvent(w, event)
             \/ Merge(w)
             \/ DeletePc(w)
             \/ \E group \in Groups : DeleteGroup(w, group)
             \/ Abort(w)
      PROVE  UNCHANGED table
  BY <1>7 DEF RegisterReadTop, RegisterCheck, ConnectSetting, DisAssign,
     HandleEvent, Merge, DeletePc, DeleteGroup, Abort, table
<1> QED
  BY <1>2, <1>3, <1>4, <1>5, <1>6, <1>7 DEF Next

(***************************************************************************)
(* The requests of a registry with one worker take effect one at a time.   *)
(***************************************************************************)
THEOREM SerialRefinement ==
  ASSUME OneWorker
  PROVE  Spec => TakesEffectAtOnce
<1>1. Init => Lifecycle!Init
  BY SameRows DEF Init, Lifecycle!Init, Lifecycle!Ids, Ids
<1>2. SInv /\ [Next]_vars => SInv' /\ [Lifecycle!Next]_(Lifecycle!vars)
  BY SerialStep, LifecycleStep
<1> QED
  BY <1>1, <1>2, SerialInit, PTL DEF Spec, TakesEffectAtOnce, Lifecycle!Spec

(***************************************************************************)
(* With one worker an assigned PC keeps the app it belongs to.             *)
(***************************************************************************)
LEMMA AssignmentStep ==
  ASSUME OneWorker, SInv, [Next]_vars, NEW i \in Live,
         pcs[i].assigned, pcs'[i] # NoPc, pcs'[i].assigned
  PROVE  pcs'[i].reconnectId = pcs[i].reconnectId
<1> USE DEF SInv
<1>1. i \in Ids /\ pcs[i] \in RemotePcRow
  BY DEF Live, IInv, TypeOK
<1>2. CASE pcs'[i] = pcs[i]
  BY <1>2
<1>3. ASSUME NEW w \in Workers, Insert(w)
      PROVE  pcs'[i] = pcs[i]
  BY <1>3, <1>1 DEF Insert, IInv, RegistryInv, RowsBelowNextId, TypeOK, Live, Ids
<1>4. ASSUME NEW w \in Workers, Delete(w)
      PROVE  pcs'[i] = pcs[i]
  BY <1>4, <1>1 DEF Delete
<1>5. ASSUME NEW w \in Workers, Update(w), key[w] = i
      PROVE  pcs'[i].reconnectId = pcs[i].reconnectId
  <2>1. pcs'[i] = copy[w]
    BY <1>1, <1>5 DEF Update, IInv, TypeOK
  <2>2. \/ \E event \in Events : copy[w] = SetStatus(pcs[i], StatusFor(event, pcs[i]))
        \/ \E r \in ReconnectIds :
             MayConnect(pcs[i], r) /\ copy[w] = updateReconnectId(pcs[i], r)
        \/ copy[w] = disAssign(pcs[i])
    BY <1>5 DEF Update, ReadsStayCurrent, RowCurrent
  <2>3. ASSUME NEW event \in Events,
               copy[w] = SetStatus(pcs[i], StatusFor(event, pcs[i]))
        PROVE  copy[w].reconnectId = pcs[i].reconnectId
    BY <1>1, <2>3 DEF SetStatus, RemotePcRow
  <2>4. ASSUME NEW r \in ReconnectIds, MayConnect(pcs[i], r),
               copy[w] = updateReconnectId(pcs[i], r)
        PROVE  copy[w].reconnectId = pcs[i].reconnectId
    BY <1>1, <2>4 DEF MayConnect, updateReconnectId, RemotePcRow
  <2>5. copy[w] # disAssign(pcs[i])
    BY <1>1, <2>1 DEF disAssign, RemotePcRow
  <2> QED
    BY <2>1, <2>2, <2>3, <2>4, <2>5
<1>6. ASSUME NEW w \in Workers, Update(w), key[w] # i
      PROVE  pcs'[i] = pcs[i]
  BY <1>1, <1>6 DEF Update, IInv, TypeOK
<1>7. CASE UNCHANGED pcs
  BY <1>7
<1> QED
  BY <1>2, <1>3, <1>4, <1>5, <1>6, <1>7
     DEF Next, vars, table, RegisterReadTop, RegisterCheck, ConnectSetting,
         DisAssign, HandleEvent, Merge, DeletePc, DeleteGroup, Abort

THEOREM SerialAssignment ==
  ASSUME OneWorker
  PROVE  Spec => AssignedPcKeepsItsApp
<1> DEFINE Kept ==
      \A i \in Live :
        (pcs[i].assigned /\ pcs'[i] # NoPc /\ pcs'[i].assigned)
          => pcs'[i].reconnectId = pcs[i].reconnectId
<1>1. SInv /\ [Next]_vars => SInv' /\ [Kept]_pcs
  BY SerialStep, AssignmentStep
<1> QED
  BY <1>1, SerialInit, PTL DEF Spec, AssignedPcKeepsItsApp
=============================================================================
