-------------------------- MODULE RemotePcRegistry --------------------------
(***************************************************************************)
(* The table remote_pc and everything that changes it: the app's and the   *)
(* web's requests (RemotePcApiService, RemotePcService, AdminGroupService) *)
(* and the handler of the repeater's messages (MessageService).            *)
(*                                                                         *)
(* Requests and messages are served by concurrent threads, the Workers.    *)
(* The database runs READ COMMITTED and the entity has no version column,  *)
(* so a worker reads a row in one step and writes it in a later one, all   *)
(* columns at once, over whatever was committed in between.  A commit is   *)
(* one step; the constraints of the schema are guards of the commit, and   *)
(* a worker whose commit they refuse can only Abort.                       *)
(***************************************************************************)
EXTENDS RemotePc

CONSTANTS
  Workers,       \* threads of the web container and of the TCP server
  Events,        \* the messages that arrive, a subset of ServerEvents
  MaxRows,       \* bound: rows ever inserted
  NoPc,          \* no row
  NoGroup        \* no group

Ids == 1 .. MaxRows

ASSUME RegistryAssumption ==
  /\ Events \subseteq ServerEvents
  /\ MaxRows \in Nat \ {0}
  /\ NoPc \notin RemotePcRow
  /\ NoGroup \notin Groups

VARIABLES
  pcs,       \* the table: the committed row of each id
  nextId,    \* the id the next inserted row gets
  groups,    \* the groups that exist
  board,     \* the status of each PC on a dashboard that has been open all along
  at,        \* where each worker is in its request
  key,       \* the id of the row a worker works on, 0 for a new row
  copy,      \* the row as the worker holds it in memory
  doomed,    \* the rows a worker is about to delete
  leaving    \* the group a worker is about to delete

table == <<pcs, nextId, groups>>
vars == <<pcs, nextId, groups, board, at, key, copy, doomed, leaving>>

Live == {i \in Ids : pcs[i] # NoPc}

Idle(w) == at[w] = "idle"

\* The worker goes on to step s with row r, of id i, in memory.
Hold(w, s, i, r) ==
  /\ at' = [at EXCEPT ![w] = s]
  /\ key' = [key EXCEPT ![w] = i]
  /\ copy' = [copy EXCEPT ![w] = r]

\* The request is over, answered or failed.
Finish(w) ==
  /\ Hold(w, "idle", 0, NoPc)
  /\ doomed' = [doomed EXCEPT ![w] = {}]
  /\ leaving' = [leaving EXCEPT ![w] = NoGroup]

Init ==
  /\ pcs = [i \in Ids |->
              IF i = 1 THEN createRemotePc(100, BaseName, BaseGroup) ELSE NoPc]
  /\ nextId = 2
  /\ groups = Groups
  /\ board = [i \in Ids |-> "unset"]
  /\ at = [w \in Workers |-> "idle"]
  /\ key = [w \in Workers |-> 0]
  /\ copy = [w \in Workers |-> NoPc]
  /\ doomed = [w \in Workers |-> {}]
  /\ leaving = [w \in Workers |-> NoGroup]

(***************************************************************************)
(* Registering a PC: read the row with the greatest repeater id, check the *)
(* group and the name, insert.  Three separate reads or writes.            *)
(***************************************************************************)

\* The greatest repeater id plus one; 100 in an empty table.
IsNextRepeaterId(rid) ==
  \/ /\ Live = {}
     /\ rid = 100
  \/ \E top \in Live :
       /\ \A i \in Live : pcs[i].repeaterId <= pcs[top].repeaterId
       /\ rid = pcs[top].repeaterId + 1

RegisterReadTop(w, name, group) ==
  /\ Idle(w)
  /\ nextId <= MaxRows
  /\ \E rid \in 100 .. (100 + MaxRows) :
       /\ IsNextRepeaterId(rid)
       /\ Hold(w, "check", 0, createRemotePc(rid, name, group))
  /\ UNCHANGED <<table, board, doomed, leaving>>

existsByNameAndGroup(name, group) ==
  \E i \in Live : pcs[i].name = name /\ pcs[i].group = group

\* Mutant: the name is not looked up.
RegisterUnchecked(w) ==
  /\ at[w] = "check"
  /\ copy[w].group \in groups
  /\ at' = [at EXCEPT ![w] = "insert"]
  /\ UNCHANGED <<table, board, key, copy, doomed, leaving>>

RegisterCheck(w) ==
  /\ at[w] = "check"
  /\ copy[w].group \in groups
  /\ ~ existsByNameAndGroup(copy[w].name, copy[w].group)
  /\ at' = [at EXCEPT ![w] = "insert"]
  /\ UNCHANGED <<table, board, key, copy, doomed, leaving>>

\* Mutant: the column repeater_id is not unique.
ReferenceOnly(row) == row.group \in groups

\* repeater_id is unique and group_id references a group.
ConstraintsAllow(row) ==
  /\ row.group \in groups
  /\ \A i \in Live : pcs[i].repeaterId # row.repeaterId

\* Commit of an INSERT: a registration, or a merge that found no row.
Insert(w) ==
  /\ at[w] = "insert"
  /\ nextId <= MaxRows
  /\ ConstraintsAllow(copy[w])
  /\ pcs' = [pcs EXCEPT ![nextId] = copy[w]]
  /\ nextId' = nextId + 1
  /\ Finish(w)
  /\ UNCHANGED <<groups, board>>

(***************************************************************************)
(* The app's requests.  Each loads a row and changes it in memory; the     *)
(* commit writes it.                                                       *)
(***************************************************************************)

\* Only a request that passes the checks and changes something is a step.
ConnectSetting(w, name, group, r) ==
  /\ Idle(w)
  /\ \E i \in Live :
       /\ pcs[i].name = name
       /\ pcs[i].group = group
       /\ MayConnect(pcs[i], r)
       /\ pcs[i].reconnectId # r
       /\ Hold(w, "update", i, updateReconnectId(pcs[i], r))
  /\ UNCHANGED <<table, board, doomed, leaving>>

\* findByReconnectId throws unless exactly one row has the id.
DisAssign(w, r) ==
  /\ Idle(w)
  /\ \E i \in Live :
       /\ pcs[i].reconnectId = r
       /\ \A j \in Live : pcs[j].reconnectId = r => j = i
       /\ Hold(w, "update", i, disAssign(pcs[i]))
  /\ UNCHANGED <<table, board, doomed, leaving>>

\* Commit of an UPDATE: every column, of a row that must still be there.
Update(w) ==
  /\ at[w] = "update"
  /\ key[w] \in Live
  /\ pcs' = [pcs EXCEPT ![key[w]] = copy[w]]
  /\ Finish(w)
  /\ UNCHANGED <<nextId, groups, board>>

(***************************************************************************)
(* A message of the repeater: find the row by repeater id and compute the  *)
(* new row outside any transaction; then, in the transaction of            *)
(* setRemotePcStatus, tell the dashboards and merge.                       *)
(***************************************************************************)

HandleEvent(w, event) ==
  /\ Idle(w)
  /\ \E i \in Live :
       Hold(w, "merge", i, SetStatus(pcs[i], StatusFor(event, pcs[i])))
  /\ UNCHANGED <<table, board, doomed, leaving>>

\* Two threads writing to one session at once: the second send fails.
SendingAtOnce(w) == \E v \in Workers \ {w} : at[v] = "merge"

sendStatusUpdate(w) ==
  \/ board' = [board EXCEPT ![key[w]] = copy[w].status]
  \/ SendingAtOnce(w) /\ UNCHANGED board

\* merge() loads the row: equal, nothing is written; absent, it is a new row.
Merge(w) ==
  /\ at[w] = "merge"
  /\ sendStatusUpdate(w)
  /\ \/ /\ pcs[key[w]] = copy[w]
        /\ Finish(w)
     \/ /\ pcs[key[w]] \notin {NoPc, copy[w]}
        /\ at' = [at EXCEPT ![w] = "update"]
        /\ UNCHANGED <<key, copy, doomed, leaving>>
     \/ /\ pcs[key[w]] = NoPc
        /\ Hold(w, "insert", 0, copy[w])
        /\ UNCHANGED <<doomed, leaving>>
  /\ UNCHANGED table

(***************************************************************************)
(* Deletion of one PC, and of a group with its PCs.                        *)
(***************************************************************************)

\* Mutant: the base PC may be deleted.
DeleteEvenBasePc(w) ==
  /\ Idle(w)
  /\ \E i \in Live :
       /\ pcs[i].status # "ACTIVE"
       /\ doomed' = [doomed EXCEPT ![w] = {i}]
  /\ at' = [at EXCEPT ![w] = "delete"]
  /\ UNCHANGED <<table, board, key, copy, leaving>>

\* Mutant: a PC in use may be deleted.
DeleteAnyPc(w) ==
  /\ Idle(w)
  /\ \E i \in Live \ {1} : doomed' = [doomed EXCEPT ![w] = {i}]
  /\ at' = [at EXCEPT ![w] = "delete"]
  /\ UNCHANGED <<table, board, key, copy, leaving>>

DeletePc(w) ==
  /\ Idle(w)
  /\ \E i \in Live \ {1} :
       /\ pcs[i].status # "ACTIVE"
       /\ doomed' = [doomed EXCEPT ![w] = {i}]
  /\ at' = [at EXCEPT ![w] = "delete"]
  /\ UNCHANGED <<table, board, key, copy, leaving>>

DeleteGroup(w, group) ==
  /\ Idle(w)
  /\ group \in groups \ {BaseGroup}
  /\ doomed' = [doomed EXCEPT ![w] = {i \in Live : pcs[i].group = group}]
  /\ leaving' = [leaving EXCEPT ![w] = group]
  /\ at' = [at EXCEPT ![w] = "delete"]
  /\ UNCHANGED <<table, board, key, copy>>

\* Commit: a row already gone, or one that still references the group, fails it.
Delete(w) ==
  /\ at[w] = "delete"
  /\ doomed[w] \subseteq Live
  /\ leaving[w] # NoGroup => leaving[w] \in groups
  /\ \A i \in Live \ doomed[w] : pcs[i].group # leaving[w]
  /\ pcs' = [i \in Ids |-> IF i \in doomed[w] THEN NoPc ELSE pcs[i]]
  /\ groups' = groups \ {leaving[w]}
  /\ Finish(w)
  /\ UNCHANGED <<nextId, board>>

\* Rollback: a failed check or constraint, a lost connection, a restart.
Abort(w) ==
  /\ ~ Idle(w)
  /\ Finish(w)
  /\ UNCHANGED <<table, board>>

Next ==
  \E w \in Workers :
    \/ \E name \in Names, group \in Groups : RegisterReadTop(w, name, group)
    \/ RegisterCheck(w)
    \/ Insert(w)
    \/ \E name \in Names, group \in Groups, r \in ReconnectIds :
         ConnectSetting(w, name, group, r)
    \/ \E r \in ReconnectIds : DisAssign(w, r)
    \/ Update(w)
    \/ \E event \in Events : HandleEvent(w, event)
    \/ Merge(w)
    \/ DeletePc(w)
    \/ \E group \in Groups : DeleteGroup(w, group)
    \/ Delete(w)
    \/ Abort(w)

Spec == Init /\ [][Next]_vars

-----------------------------------------------------------------------------
(* Properties *)

Steps == {"idle", "check", "insert", "update", "merge", "delete"}

\* Every variable has a value the code can give it.
TypeOK ==
  /\ pcs \in [Ids -> RemotePcRow \union {NoPc}]
  /\ nextId \in 2 .. (MaxRows + 1)
  /\ groups \subseteq Groups
  /\ board \in [Ids -> Status \union {"unset"}]
  /\ at \in [Workers -> Steps]
  /\ key \in [Workers -> Ids \union {0}]
  /\ copy \in [Workers -> RemotePcRow \union {NoPc}]
  /\ doomed \in [Workers -> SUBSET Ids]
  /\ leaving \in [Workers -> Groups \union {NoGroup}]

NeverDeleted == \A i \in Ids : i < nextId => pcs[i] # NoPc

NamesUnique ==
  \A i, j \in Live :
    pcs[i].name = pcs[j].name /\ pcs[i].group = pcs[j].group => i = j

(***************************************************************************)
(* Until the first PC is deleted no two PCs of a group share a name, though *)
(* two registrations may both pass existsByNameAndGroup: each has read the *)
(* greatest repeater id before its check, so the unique repeater id lets   *)
(* only the first of them commit.                                          *)
(***************************************************************************)
NamesUniqueUntilDeletion == NeverDeleted => NamesUnique

(***************************************************************************)
(* Why the table is safe although transactions write stale rows: the parts *)
(* of the inductive invariant.                                             *)
(***************************************************************************)

\* A worker past its reads holds a row; one that will update has its id.
WorkersHoldRows ==
  \A w \in Workers :
    /\ at[w] \in {"check", "insert", "update", "merge"} =>
         /\ copy[w] \in RemotePcRow
         /\ copy[w].repeaterId \in 100 .. (99 + nextId)
    /\ at[w] \in {"update", "merge"} => key[w] \in Ids /\ key[w] < nextId

\* A stale copy differs from the row in columns that may change only.
CopiesShareIdentity ==
  \A w \in Workers :
    at[w] \in {"update", "merge"} /\ pcs[key[w]] # NoPc =>
      Identity(copy[w]) = Identity(pcs[key[w]])

RowsBelowNextId == \A i \in Ids : pcs[i] # NoPc => i < nextId

\* The repeater id tells the rows apart and is never below the base PC's.
RepeaterIdsUnique ==
  /\ \A i \in Live : pcs[i].repeaterId \in 100 .. (98 + nextId)
  /\ \A i, j \in Live : pcs[i].repeaterId = pcs[j].repeaterId => i = j

\* Nobody is about to delete the base PC or its group.
BasePcStays ==
  /\ pcs[1] # NoPc
  /\ Identity(pcs[1]) = <<100, BaseName, BaseGroup>>
  /\ BaseGroup \in groups
  /\ \A w \in Workers : 1 \notin doomed[w] /\ leaving[w] # BaseGroup

\* Without deletions repeater ids are handed out in order, and a registration
\* whose number is still free has seen every name there is.
NamesCheckedInOrder ==
  NeverDeleted =>
    /\ \A i \in Live : pcs[i].repeaterId = 99 + i
    /\ \A w \in Workers :
         at[w] = "insert" /\ copy[w].repeaterId = 99 + nextId =>
           ~ existsByNameAndGroup(copy[w].name, copy[w].group)

RegistryInv ==
  /\ WorkersHoldRows
  /\ CopiesShareIdentity
  /\ RowsBelowNextId
  /\ RepeaterIdsUnique
  /\ BasePcStays
  /\ NamesCheckedInOrder
  /\ NamesUniqueUntilDeletion

(***************************************************************************)
(* The table keeps its guarantees whatever the transactions interleave     *)
(* with: stale write-backs, merges of deleted rows, deletions of groups.   *)
(***************************************************************************)
Table == INSTANCE PcTable WITH
  who <- [i \in Ids |-> IF pcs[i] = NoPc THEN <<>> ELSE Identity(pcs[i])],
  Nobody <- <<>>

TableKeepsItsRows == Table!Spec

(***************************************************************************)
(* With one worker the requests and messages take effect one at a time, as *)
(* the REST interface reads.                                               *)
(***************************************************************************)
Lifecycle == INSTANCE PcLifecycle

TakesEffectAtOnce == Lifecycle!Spec

\* No two requests overlap.
OneWorker == \A v, w \in Workers : v = w

\* A row numbered after every other.
NumberedLast(row) ==
  \E top \in Live :
    /\ \A i \in Live : pcs[i].repeaterId <= pcs[top].repeaterId
    /\ row = createRemotePc(pcs[top].repeaterId + 1, row.name, row.group)

\* Why: what a lone worker has read is still so when it commits.
RegistrationCurrent ==
  \A w \in Workers :
    /\ at[w] \in {"check", "insert"} => NumberedLast(copy[w])
    /\ at[w] = "insert" => /\ copy[w].group \in groups
                           /\ ~ existsByNameAndGroup(copy[w].name, copy[w].group)

RowCurrent ==
  \A w \in Workers : at[w] \in {"update", "merge"} =>
    /\ key[w] \in Live
    /\ \/ \E event \in Events :
            copy[w] = SetStatus(pcs[key[w]], StatusFor(event, pcs[key[w]]))
       \/ /\ at[w] = "update"
          /\ \E r \in ReconnectIds :
               \/ /\ MayConnect(pcs[key[w]], r)
                  /\ copy[w] = updateReconnectId(pcs[key[w]], r)
               \/ /\ \A j \in Live : pcs[j].reconnectId = r <=> j = key[w]
                  /\ copy[w] = disAssign(pcs[key[w]])

DeletionCurrent ==
  \A w \in Workers :
    IF at[w] # "delete"
    THEN leaving[w] = NoGroup
    ELSE \/ /\ leaving[w] = NoGroup
            /\ \E i \in Live \ {1} : pcs[i].status # "ACTIVE" /\ doomed[w] = {i}
         \/ /\ leaving[w] \in groups \ {BaseGroup}
            /\ doomed[w] = {i \in Live : pcs[i].group = leaving[w]}

ReadsStayCurrent == RegistrationCurrent /\ RowCurrent /\ DeletionCurrent

(***************************************************************************)
(* An assigned PC belongs to the app that sent its reconnect id: no other  *)
(* app's connection request replaces it while the PC stays assigned        *)
(* (ALREADY_ASSIGNED_PC in ErrorCode and connectSettingRepeater).          *)
(***************************************************************************)
AssignedPcKeepsItsApp ==
  [][\A i \in Live :
       (pcs[i].assigned /\ pcs'[i] # NoPc /\ pcs'[i].assigned)
         => pcs'[i].reconnectId = pcs[i].reconnectId]_pcs
=============================================================================
