--------------------------- MODULE RepeaterProofs ---------------------------
(***************************************************************************)
(* With mode 2 alone, as shipped, the tables of the repeater agree whatever *)
(* happens between two steps of its loop, and the repeater does what        *)
(* Pairing says, for every size of the tables and any number of codes and   *)
(* children.  With mode 1 it does so as long as each session that it opens  *)
(* gets a code and an entry on both sides, or on neither; and with mode 1   *)
(* alone, as long as no session lives on until its code is invented again.  *)
(***************************************************************************)
EXTENDS Repeater, FiniteSetTheorems, WellFoundedInduction, TLAPS

Mode1Only == 2 \notin AllowedModes
Mode2Only == 1 \notin AllowedModes

\* A session that the repeater opens has room in both tables or in none, and the
\* code it is given is not in use.  The code checks neither.
OpensWhole ==
  Mode1Connects =>
    /\ Has(servers, 0) <=> Has(viewers, 0)
    /\ Has(servers, 0) => ~ Has(servers, NextInventedCode) /\ ~ Has(viewers, NextInventedCode)
NoCodeReused ==
  Mode1Connects /\ Has(servers, 0) => ~ Has(servers, NextInventedCode)

\* Each of the two needs the other: a fork finds a free slot of repeaterProcs
\* because every other slot belongs to another active entry of servers[].
IInv == TypeOK /\ TablesAgree

-----------------------------------------------------------------------------
(* The tables *)

Tables == [Slots -> Entries(AllCodes)]

\* What an operation makes of a table t: which codes it has and are active.
Kept(t, u) ==
  /\ u \in Tables
  /\ CodesUnique(u)
  /\ \A d \in AllCodes : (Has(u, d) <=> Has(t, d)) /\ (Active(u, d) <=> Active(t, d))

Added(t, u, c) ==
  /\ u \in Tables
  /\ CodesUnique(u)
  /\ \A d \in AllCodes :
       /\ Has(u, d) <=> Has(t, d) \/ d = c
       /\ Active(u, d) <=> Active(t, d)

Paired(t, u, c) ==
  /\ u \in Tables
  /\ CodesUnique(u)
  /\ \A d \in AllCodes :
       /\ Has(u, d) <=> Has(t, d) \/ d = c
       /\ Active(u, d) <=> Active(t, d) \/ d = c

Removed(t, u, c) ==
  /\ u \in Tables
  /\ CodesUnique(u)
  /\ \A d \in AllCodes :
       /\ Has(u, d) <=> Has(t, d) /\ d # c
       /\ Active(u, d) <=> Active(t, d) /\ d # c

LEMMA CodesAreInts == AllCodes \subseteq Int \ {0} /\ 0 \in Int
BY RepeaterAssumption DEF AllCodes, Invented

LEMMA SlotsAreNats == Slots \subseteq Nat
BY RepeaterAssumption DEF Slots

\* A search from index 0 ends at the first of the entries it looks for.
LEMMA FirstExists ==
  ASSUME NEW t, NEW c, Has(t, c)
  PROVE  \E i \in Slots : IsFirst(t, c, i)
<1> DEFINE R == {ss \in Nat \X Nat : ss[1] < ss[2]}
           T == {i \in Slots : t[i].code = c}
<1>1. IsWellFoundedOn(R, Nat)
  BY NatLessThanWellFounded DEF OpToRel
<1>2. T # {} /\ T \subseteq Nat
  BY SlotsAreNats DEF Has
<1>3. PICK i \in T : \A j \in T : ~ (<<j, i>> \in R)
  BY <1>1, <1>2, WFMin
<1>4. \A j \in T : ~ (j < i)
  BY <1>2, <1>3
<1> QED
  BY <1>4 DEF IsFirst

LEMMA FirstUnique ==
  ASSUME NEW t, NEW c, NEW i \in Slots, NEW j \in Slots,
         IsFirst(t, c, i), IsFirst(t, c, j)
  PROVE  i = j
BY SlotsAreNats DEF IsFirst

\* A code that is in use is in one place only.
LEMMA OnlyIsFirst ==
  ASSUME NEW t, CodesUnique(t), NEW c \in AllCodes, NEW i \in Slots
  PROVE  IsFirst(t, c, i) <=> t[i].code = c
BY CodesAreInts, SlotsAreNats DEF CodesUnique, IsFirst

LEMMA AddAdds ==
  ASSUME NEW t \in Tables, CodesUnique(t), NEW c \in AllCodes,
         ~ Has(t, c), Has(t, 0)
  PROVE  Added(t, add(t, c), c)
<1> DEFINE u == add(t, c)
<1>1. PICK k \in Slots : IsFirst(t, 0, k)
  BY FirstExists
<1>2. u = [i \in Slots |-> IF i = k THEN Waiting(c) ELSE t[i]]
  BY <1>1, FirstUnique DEF add, Replace
<1>3. u \in Tables
  BY <1>2 DEF Tables, Entries, Waiting
<1>4. t[k].code = 0 /\ c # 0 /\ \A i \in Slots : t[i].code # c
  BY <1>1, CodesAreInts DEF IsFirst, Has
<1>5. CodesUnique(u)
  BY <1>2, <1>4 DEF CodesUnique, Waiting
<1>6. ASSUME NEW d \in AllCodes
      PROVE  /\ Has(u, d) <=> Has(t, d) \/ d = c
             /\ Active(u, d) <=> Active(t, d)
  BY <1>2, <1>4, CodesAreInts DEF Has, Active, Waiting
<1> QED
  BY <1>3, <1>5, <1>6 DEF Added

LEMMA SetActivePairs ==
  ASSUME NEW t \in Tables, CodesUnique(t), NEW c \in AllCodes, Has(t, c)
  PROVE  Paired(t, setActive(t, c), c)
<1> DEFINE u == setActive(t, c)
<1>1. PICK k \in Slots : t[k].code = c
  BY DEF Has
<1>2. \A i \in Slots : IsFirst(t, c, i) <=> i = k
  BY <1>1, OnlyIsFirst, FirstUnique
<1>3. u = [i \in Slots |-> IF i = k THEN [t[i] EXCEPT !.active = TRUE] ELSE t[i]]
  BY <1>2 DEF setActive, Activated
<1>4. u \in Tables
  <2>1. \A i \in Slots : t[i] \in Entries(AllCodes)
    BY DEF Tables
  <2>2. [t[k] EXCEPT !.active = TRUE] \in Entries(AllCodes)
    BY <2>1 DEF Entries
  <2> HIDE DEF u
  <2> QED
    BY <1>3, <2>1, <2>2 DEF Tables
<1>5. \A i \in Slots : u[i].code = t[i].code
  BY <1>3 DEF Tables, Entries
<1>6. \A i \in Slots : u[i].active <=> t[i].active \/ i = k
  BY <1>3 DEF Tables, Entries
<1>7. CodesUnique(u)
  BY <1>5 DEF CodesUnique
<1>8. ASSUME NEW d \in AllCodes
      PROVE  /\ Has(u, d) <=> Has(t, d) \/ d = c
             /\ Active(u, d) <=> Active(t, d) \/ d = c
  BY <1>1, <1>5, <1>6, <1>2, OnlyIsFirst DEF Has, Active
<1> QED
  BY <1>4, <1>7, <1>8 DEF Paired

\* An end that arrives and is paired at once.
LEMMA AddSetActivePairs ==
  ASSUME NEW t \in Tables, CodesUnique(t), NEW c \in AllCodes,
         ~ Has(t, c), Has(t, 0)
  PROVE  Paired(t, setActive(add(t, c), c), c)
<1>1. Added(t, add(t, c), c)
  BY AddAdds
<1>2. add(t, c) \in Tables /\ CodesUnique(add(t, c)) /\ Has(add(t, c), c)
  BY <1>1 DEF Added
<1>3. Paired(add(t, c), setActive(add(t, c), c), c)
  BY <1>2, SetActivePairs
<1> QED
  BY <1>1, <1>3 DEF Added, Paired

LEMMA RemoveRemoves ==
  ASSUME NEW t \in Tables, CodesUnique(t), NEW c \in AllCodes, Has(t, c)
  PROVE  Removed(t, remove(t, c), c)
<1> DEFINE u == remove(t, c)
<1>1. PICK k \in Slots : t[k].code = c
  BY DEF Has
<1>2. \A i \in Slots : t[i].code = c <=> i = k
  BY <1>1, OnlyIsFirst, FirstUnique
<1>3. u = [i \in Slots |-> IF i = k THEN Free ELSE t[i]]
  BY <1>2, OnlyIsFirst DEF remove, Replace
<1>4. u \in Tables
  BY <1>3 DEF Tables, Entries, Free
<1>5. CodesUnique(u)
  BY <1>3 DEF CodesUnique, Free
<1>6. ASSUME NEW d \in AllCodes
      PROVE  /\ Has(u, d) <=> Has(t, d) /\ d # c
             /\ Active(u, d) <=> Active(t, d) /\ d # c
  BY <1>2, <1>3, CodesAreInts DEF Has, Active, Free
<1> QED
  BY <1>4, <1>5, <1>6 DEF Removed

\* A peer that leaves changes nothing that the parent looks at when it pairs.
LEMMA GoneKeeps ==
  ASSUME NEW t \in Tables, CodesUnique(t), NEW i \in Slots
  PROVE  Kept(t, [t EXCEPT ![i].gone = TRUE])
<1> DEFINE u == [t EXCEPT ![i].gone = TRUE]
<1>1. u \in Tables
  BY DEF Tables, Entries
<1>2. \A j \in Slots : u[j].code = t[j].code /\ u[j].active = t[j].active
  BY DEF Tables, Entries
<1> QED
  BY <1>1, <1>2 DEF Kept, CodesUnique, Has, Active

LEMMA SameKeeps ==
  ASSUME NEW t \in Tables, CodesUnique(t)
  PROVE  Kept(t, t)
BY DEF Kept

-----------------------------------------------------------------------------
(* The children *)

\* A session that has no child yet leaves room for one in repeaterProcs.
LEMMA FreeProc ==
  ASSUME IInv, NEW c \in AllCodes, ~ Active(servers, c),
         Has(servers, c) \/ Has(servers, 0)
  PROVE  Has(procs, 0)
<1> SUFFICES ASSUME \A i \in Slots : procs[i].code # 0
             PROVE  FALSE
  BY DEF Has
<1>1. PICK k \in Slots : servers[k].code = c \/ servers[k].code = 0
  BY DEF Has
<1> DEFINE f == [i \in Slots |->
                   CHOOSE j \in Slots : servers[j].code = procs[i].code]
           T == Slots \ {k}
<1>2. \A i \in Slots : Active(servers, procs[i].code) /\ procs[i].code \in AllCodes
  BY DEF IInv, TypeOK, TablesAgree, ChildrenTracked
<1>3. \A i \in Slots : f[i] \in Slots /\ servers[f[i]].code = procs[i].code
  BY <1>2 DEF Active
<1>4. \A i \in Slots : f[i] # k
  BY <1>1, <1>2, <1>3, CodesAreInts
<1>5. f \in [Slots -> T]
  BY <1>3, <1>4
<1>6. IsFiniteSet(Slots) /\ Cardinality(Slots) = MaxSessions
  <2>1. 0 \in Int /\ MaxSessions - 1 \in Int /\ 0 <= MaxSessions - 1
    BY RepeaterAssumption
  <2>2. /\ IsFiniteSet(0 .. (MaxSessions - 1))
        /\ Cardinality(0 .. (MaxSessions - 1)) =
             IF 0 > MaxSessions - 1 THEN 0 ELSE (MaxSessions - 1) - 0 + 1
    BY <2>1, FS_Interval
  <2> QED
    BY <2>1, <2>2, RepeaterAssumption DEF Slots
<1>7. IsFiniteSet(T) /\ Cardinality(T) = Cardinality(Slots) - 1
  BY <1>6, FS_RemoveElement
<1>8. Cardinality(T) < Cardinality(Slots)
  BY <1>6, <1>7, RepeaterAssumption
<1>9. PICK i \in Slots, j \in Slots : i # j /\ f[i] = f[j]
  <2> HIDE DEF f, T
  <2>1. \E i, j \in Slots : i # j /\ f[i] = f[j]
    BY <1>5, <1>6, <1>7, <1>8, FS_PigeonHole
  <2> QED
    BY <2>1
<1>10. procs[i].code = procs[j].code
  BY <1>3, <1>9
<1> QED
  BY <1>9, <1>10 DEF IInv, TablesAgree, ChildrenTracked

\* A fork enters the child in repeaterProcs, or the program will stop.
LEMMA ForkTracks ==
  ASSUME IInv, NEW c \in AllCodes, ~ Active(servers, c),
         Has(servers, c) \/ Has(servers, 0),
         Paired(servers, servers', c), forkRepeater(c)
  PROVE  /\ ChildrenTracked'
         /\ procs' \in [Slots -> [code : AllCodes \union {0}, pid : Pids \union {0}]]
         /\ child' \in [Pids -> {"none", "running", "returned", "killed"}]
         /\ stopped' \in BOOLEAN
<1> USE DEF IInv, TypeOK, TablesAgree
<1>1. CASE UNCHANGED <<child, procs>> /\ stopped' = TRUE
  <2>1. \A i \in Slots : procs[i].code # 0 => Active(servers', procs[i].code)
    BY DEF ChildrenTracked, Paired
  <2> QED
    BY <1>1, <2>1 DEF ChildrenTracked
<1>2. CASE \E p \in Pids :
             /\ child[p] = "none"
             /\ child' = [child EXCEPT ![p] = "running"]
             /\ procs' = Replace(procs, 0, [code |-> c, pid |-> p])
             /\ UNCHANGED stopped
  <2>1. PICK p \in Pids :
          /\ child[p] = "none"
          /\ child' = [child EXCEPT ![p] = "running"]
          /\ procs' = Replace(procs, 0, [code |-> c, pid |-> p])
          /\ UNCHANGED stopped
    BY <1>2
  <2>2. PICK k \in Slots : IsFirst(procs, 0, k)
    BY FreeProc, FirstExists
  <2>3. procs' = [i \in Slots |-> IF i = k THEN [code |-> c, pid |-> p] ELSE procs[i]]
    BY <2>1, <2>2, FirstUnique DEF Replace
  <2>4. /\ procs' \in [Slots -> [code : AllCodes \union {0}, pid : Pids \union {0}]]
        /\ child' \in [Pids -> {"none", "running", "returned", "killed"}]
    BY <2>1, <2>3
  <2>5. procs[k].code = 0 /\ procs[k].pid = 0 /\ c # 0 /\ p # 0
    BY <2>2, CodesAreInts, RepeaterAssumption DEF IsFirst, ChildrenTracked
  <2>6. \A i \in Slots : procs[i].code # 0 => procs[i].pid # p /\ procs[i].code # c
    BY <2>1 DEF ChildrenTracked
  <2>7. procs'[k].code = c /\ procs'[k].pid = p
    BY <2>3
  <2>8. \A i \in Slots : i # k => procs'[i] = procs[i]
    BY <2>3
  <2>9. ASSUME NEW i \in Slots, procs'[i].code # 0
        PROVE  child'[procs'[i].pid] # "none" /\ Active(servers', procs'[i].code)
    <3>1. CASE i = k
      BY <3>1, <2>1, <2>7 DEF Paired
    <3>2. CASE i # k
      <4>1. /\ procs[i].code \in AllCodes
            /\ procs[i].pid \in Pids
            /\ child[procs[i].pid] # "none"
            /\ Active(servers, procs[i].code)
        BY <3>2, <2>8, <2>9 DEF ChildrenTracked
      <4> QED
        BY <3>2, <4>1, <2>1, <2>8 DEF Paired
    <3> QED
      BY <3>1, <3>2
  <2>10. \A i \in Slots : (procs'[i].code = 0) <=> (procs'[i].pid = 0)
    BY <2>5, <2>7, <2>8 DEF ChildrenTracked
  <2>11. \A i, j \in Slots :
           procs'[i].code # 0 /\ i # j =>
             procs'[i].code # procs'[j].code /\ procs'[i].pid # procs'[j].pid
    BY <2>5, <2>6, <2>7, <2>8 DEF ChildrenTracked
  <2>12. ASSUME NEW q \in Pids, child'[q] # "none"
         PROVE  \E i \in Slots : procs'[i].pid = q
    <3>1. CASE q = p
      BY <3>1, <2>7
    <3>2. CASE q # p
      <4>1. PICK i \in Slots : procs[i].pid = q
        BY <2>1, <2>12, <3>2 DEF ChildrenTracked
      <4>2. i # k
        BY <4>1, <2>5, RepeaterAssumption
      <4> QED
        BY <4>1, <4>2, <2>8
    <3> QED
      BY <3>1, <3>2
  <2> QED
    BY <2>1, <2>4, <2>9, <2>10, <2>11, <2>12 DEF ChildrenTracked
<1> QED
  BY <1>1, <1>2 DEF forkRepeater

-----------------------------------------------------------------------------
(* What a step does to the two tables *)

ServerWaits(c) ==
  /\ ~ Has(servers, c) /\ ~ Has(viewers, c)
  /\ Added(servers, servers', c) /\ Kept(viewers, viewers')

ViewerWaits(c) ==
  /\ ~ Has(servers, c) /\ ~ Has(viewers, c)
  /\ Added(viewers, viewers', c) /\ Kept(servers, servers')

SessionStarts(c) ==
  /\ Has(servers, c) <=> ~ Has(viewers, c)
  /\ Paired(servers, servers', c) /\ Paired(viewers, viewers', c)

SessionOpens(c) ==
  /\ ~ Has(servers, c) /\ ~ Has(viewers, c)
  /\ Paired(servers, servers', c) /\ Paired(viewers, viewers', c)

ServerLeaves(c) ==
  /\ Has(servers, c) /\ ~ Active(servers, c)
  /\ Removed(servers, servers', c) /\ Kept(viewers, viewers')

ViewerLeaves(c) ==
  /\ Has(viewers, c) /\ ~ Active(viewers, c)
  /\ Removed(viewers, viewers', c) /\ Kept(servers, servers')

SessionEnds(c) ==
  /\ Active(servers, c)
  /\ Removed(servers, servers', c) /\ Removed(viewers, viewers', c)

Nothing == Kept(servers, servers') /\ Kept(viewers, viewers')

TablesStep ==
  \/ \E c \in AllCodes :
       \/ ServerWaits(c) \/ ViewerWaits(c) \/ SessionStarts(c)
       \/ ServerLeaves(c) \/ ViewerLeaves(c) \/ SessionEnds(c)
  \/ \E c \in Invented : SessionOpens(c)
  \/ Nothing

LEMMA ActiveIsThere ==
  ASSUME NEW t, NEW c, Active(t, c)
  PROVE  Has(t, c)
BY DEF Active, Has

\* Every such change keeps the two tables in agreement, ...
LEMMA StepAgrees ==
  ASSUME IInv, TablesStep
  PROVE  /\ CodesUnique(servers')
         /\ CodesUnique(viewers')
         /\ EndsTogether'
         /\ NobodyWaitsForAWaiter'
         /\ servers' \in Tables
         /\ viewers' \in Tables
<1> USE DEF IInv, TablesAgree, EndsTogether, NobodyWaitsForAWaiter
<1>1. ASSUME NEW c \in AllCodes, ServerWaits(c) \/ ViewerWaits(c)
      PROVE  /\ CodesUnique(servers') /\ CodesUnique(viewers')
             /\ EndsTogether' /\ NobodyWaitsForAWaiter'
             /\ servers' \in Tables /\ viewers' \in Tables
  BY <1>1 DEF ServerWaits, ViewerWaits, Added, Kept
<1>2. ASSUME NEW c \in AllCodes, SessionStarts(c)
      PROVE  /\ CodesUnique(servers') /\ CodesUnique(viewers')
             /\ EndsTogether' /\ NobodyWaitsForAWaiter'
             /\ servers' \in Tables /\ viewers' \in Tables
  BY <1>2 DEF SessionStarts, Paired
<1>3. ASSUME NEW c \in AllCodes, ServerLeaves(c) \/ ViewerLeaves(c)
      PROVE  /\ CodesUnique(servers') /\ CodesUnique(viewers')
             /\ EndsTogether' /\ NobodyWaitsForAWaiter'
             /\ servers' \in Tables /\ viewers' \in Tables
  BY <1>3 DEF ServerLeaves, ViewerLeaves, Removed, Kept
<1>4. ASSUME NEW c \in AllCodes, SessionEnds(c)
      PROVE  /\ CodesUnique(servers') /\ CodesUnique(viewers')
             /\ EndsTogether' /\ NobodyWaitsForAWaiter'
             /\ servers' \in Tables /\ viewers' \in Tables
  BY <1>4 DEF SessionEnds, Removed
<1>5. CASE Nothing
  BY <1>5 DEF Nothing, Kept
<1>6. ASSUME NEW c \in Invented, SessionOpens(c)
      PROVE  /\ CodesUnique(servers') /\ CodesUnique(viewers')
             /\ EndsTogether' /\ NobodyWaitsForAWaiter'
             /\ servers' \in Tables /\ viewers' \in Tables
  BY <1>6 DEF SessionOpens, Paired
<1> QED
  BY <1>1, <1>2, <1>3, <1>4, <1>5, <1>6 DEF TablesStep

\* ... and is a step of Pairing, or of nothing that Pairing sees.
LEMMA StepRefines ==
  ASSUME IInv, TablesStep
  PROVE  [Ends!Next]_(Ends!vars)
<1> DEFINE s == [c \in Codes |-> EndOf(servers, c)]
           v == [c \in Codes |-> EndOf(viewers, c)]
<1> USE ActiveIsThere DEF Ends!vars
<1>0. Codes \subseteq AllCodes
  BY DEF AllCodes
<1>1. ASSUME NEW c \in AllCodes, ServerWaits(c)
      PROVE  [Ends!Next]_(Ends!vars)
  <2>1. \A d \in Codes : EndOf(servers', d) = IF d = c THEN "waiting" ELSE EndOf(servers, d)
    BY <1>0, <1>1 DEF ServerWaits, Added, EndOf
  <2>2. \A d \in Codes : EndOf(viewers', d) = EndOf(viewers, d)
    BY <1>0, <1>1 DEF ServerWaits, Kept, EndOf
  <2>3. EndOf(servers, c) = "absent" /\ EndOf(viewers, c) = "absent"
    BY <1>1 DEF ServerWaits, EndOf
  <2>4. v' = v
    BY <2>2
  <2>5. CASE c \in Codes
    <3>1. s' = [s EXCEPT ![c] = "waiting"]
      BY <2>1
    <3> QED
      BY <2>3, <2>4, <2>5, <3>1 DEF Ends!Next, Ends!ServerWaits
  <2>6. CASE c \notin Codes
    <3>1. s' = s
      BY <2>1, <2>6
    <3> QED
      BY <2>4, <3>1
  <2> QED
    BY <2>5, <2>6
<1>2. ASSUME NEW c \in AllCodes, ViewerWaits(c)
      PROVE  [Ends!Next]_(Ends!vars)
  <2>1. \A d \in Codes : EndOf(viewers', d) = IF d = c THEN "waiting" ELSE EndOf(viewers, d)
    BY <1>0, <1>2 DEF ViewerWaits, Added, EndOf
  <2>2. \A d \in Codes : EndOf(servers', d) = EndOf(servers, d)
    BY <1>0, <1>2 DEF ViewerWaits, Kept, EndOf
  <2>3. EndOf(servers, c) = "absent" /\ EndOf(viewers, c) = "absent"
    BY <1>2 DEF ViewerWaits, EndOf
  <2>4. s' = s
    BY <2>2
  <2>5. CASE c \in Codes
    <3>1. v' = [v EXCEPT ![c] = "waiting"]
      BY <2>1
    <3> QED
      BY <2>3, <2>4, <2>5, <3>1 DEF Ends!Next, Ends!ViewerWaits
  <2>6. CASE c \notin Codes
    <3>1. v' = v
      BY <2>1, <2>6
    <3> QED
      BY <2>4, <3>1
  <2> QED
    BY <2>5, <2>6
<1>3. ASSUME NEW c \in AllCodes, SessionStarts(c)
      PROVE  [Ends!Next]_(Ends!vars)
  <2>1. /\ \A d \in Codes : EndOf(servers', d) = IF d = c THEN "paired" ELSE EndOf(servers, d)
        /\ \A d \in Codes : EndOf(viewers', d) = IF d = c THEN "paired" ELSE EndOf(viewers, d)
    BY <1>0, <1>3 DEF SessionStarts, Paired, EndOf
  <2>2. {EndOf(servers, c), EndOf(viewers, c)} = {"absent", "waiting"}
    <3>1. ~ Active(servers, c) /\ ~ Active(viewers, c)
      BY <1>3 DEF SessionStarts, IInv, TablesAgree, EndsTogether
    <3> QED
      BY <1>3, <3>1 DEF SessionStarts, EndOf
  <2>3. CASE c \in Codes
    <3>1. s' = [s EXCEPT ![c] = "paired"] /\ v' = [v EXCEPT ![c] = "paired"]
      BY <2>1
    <3>2. {s[c], v[c]} = {"absent", "waiting"}
      BY <2>2, <2>3
    <3> QED
      BY <2>3, <3>1, <3>2 DEF Ends!Next, Ends!SessionStarts
  <2>4. CASE c \notin Codes
    <3>1. s' = s /\ v' = v
      BY <2>1, <2>4
    <3> QED
      BY <3>1
  <2> QED
    BY <2>3, <2>4
<1>4. ASSUME NEW c \in AllCodes, ServerLeaves(c)
      PROVE  [Ends!Next]_(Ends!vars)
  <2>1. \A d \in Codes : EndOf(servers', d) = IF d = c THEN "absent" ELSE EndOf(servers, d)
    BY <1>0, <1>4 DEF ServerLeaves, Removed, EndOf
  <2>2. \A d \in Codes : EndOf(viewers', d) = EndOf(viewers, d)
    BY <1>0, <1>4 DEF ServerLeaves, Kept, EndOf
  <2>3. EndOf(servers, c) = "waiting"
    BY <1>4 DEF ServerLeaves, EndOf
  <2>4. v' = v
    BY <2>2
  <2>5. CASE c \in Codes
    <3>1. s' = [s EXCEPT ![c] = "absent"]
      BY <2>1
    <3> QED
      BY <2>3, <2>4, <2>5, <3>1 DEF Ends!Next, Ends!ServerLeaves
  <2>6. CASE c \notin Codes
    <3>1. s' = s
      BY <2>1, <2>6
    <3> QED
      BY <2>4, <3>1
  <2> QED
    BY <2>5, <2>6
<1>5. ASSUME NEW c \in AllCodes, ViewerLeaves(c)
      PROVE  [Ends!Next]_(Ends!vars)
  <2>1. \A d \in Codes : EndOf(viewers', d) = IF d = c THEN "absent" ELSE EndOf(viewers, d)
    BY <1>0, <1>5 DEF ViewerLeaves, Removed, EndOf
  <2>2. \A d \in Codes : EndOf(servers', d) = EndOf(servers, d)
    BY <1>0, <1>5 DEF ViewerLeaves, Kept, EndOf
  <2>3. EndOf(viewers, c) = "waiting"
    BY <1>5 DEF ViewerLeaves, EndOf
  <2>4. s' = s
    BY <2>2
  <2>5. CASE c \in Codes
    <3>1. v' = [v EXCEPT ![c] = "absent"]
      BY <2>1
    <3> QED
      BY <2>3, <2>4, <2>5, <3>1 DEF Ends!Next, Ends!ViewerLeaves
  <2>6. CASE c \notin Codes
    <3>1. v' = v
      BY <2>1, <2>6
    <3> QED
      BY <2>4, <3>1
  <2> QED
    BY <2>5, <2>6
<1>6. ASSUME NEW c \in AllCodes, SessionEnds(c)
      PROVE  [Ends!Next]_(Ends!vars)
  <2>1. /\ \A d \in Codes : EndOf(servers', d) = IF d = c THEN "absent" ELSE EndOf(servers, d)
        /\ \A d \in Codes : EndOf(viewers', d) = IF d = c THEN "absent" ELSE EndOf(viewers, d)
    BY <1>0, <1>6 DEF SessionEnds, Removed, EndOf
  <2>2. EndOf(servers, c) = "paired" /\ EndOf(viewers, c) = "paired"
    BY <1>6 DEF SessionEnds, EndOf, IInv, TablesAgree, EndsTogether
  <2>3. CASE c \in Codes
    <3>1. s' = [s EXCEPT ![c] = "absent"] /\ v' = [v EXCEPT ![c] = "absent"]
      BY <2>1
    <3> QED
      BY <2>2, <2>3, <3>1 DEF Ends!Next, Ends!SessionEnds
  <2>4. CASE c \notin Codes
    <3>1. s' = s /\ v' = v
      BY <2>1, <2>4
    <3> QED
      BY <3>1
  <2> QED
    BY <2>3, <2>4
<1>7. CASE Nothing
  <2>1. \A d \in Codes :
          EndOf(servers', d) = EndOf(servers, d) /\ EndOf(viewers', d) = EndOf(viewers, d)
    BY <1>0, <1>7 DEF Nothing, Kept, EndOf
  <2>2. s' = s /\ v' = v
    BY <2>1
  <2> QED
    BY <2>2
\* Pairing knows nothing of the sessions that the repeater opens.
<1>8. ASSUME NEW c \in Invented, SessionOpens(c)
      PROVE  [Ends!Next]_(Ends!vars)
  <2>1. c \in AllCodes /\ c \notin Codes
    BY RepeaterAssumption DEF AllCodes, Invented
  <2>2. \A d \in Codes :
          EndOf(servers', d) = EndOf(servers, d) /\ EndOf(viewers', d) = EndOf(viewers, d)
    BY <1>0, <1>8, <2>1 DEF SessionOpens, Paired, EndOf
  <2>3. s' = s /\ v' = v
    BY <2>2
  <2> QED
    BY <2>3
<1> QED
  BY <1>1, <1>2, <1>3, <1>4, <1>5, <1>6, <1>7, <1>8 DEF TablesStep

-----------------------------------------------------------------------------
(* What each action does to the tables and to the children *)

\* No child is forked, ends or is reaped, and no session ends.
LEMMA SessionsStay ==
  ASSUME IInv, UNCHANGED <<procs, child>>,
         \A d \in AllCodes : Active(servers, d) => Active(servers', d)
  PROVE  ChildrenTracked'
<1>1. \A i \in Slots : procs[i].code # 0 => Active(servers', procs[i].code)
  BY DEF IInv, TypeOK, TablesAgree, ChildrenTracked
<1> QED
  BY <1>1 DEF IInv, TablesAgree, ChildrenTracked

\* A step that the tables and the children take no part in.
LEMMA TablesStay ==
  ASSUME IInv, UNCHANGED tables
  PROVE  TablesStep /\ ChildrenTracked'
<1>1. Kept(servers, servers') /\ Kept(viewers, viewers')
  BY SameKeeps DEF IInv, TypeOK, TablesAgree, tables, Tables
<1>2. ChildrenTracked'
  BY SessionsStay DEF tables
<1> QED
  BY <1>1, <1>2 DEF TablesStep, Nothing

TypedChildren ==
  /\ procs \in [Slots -> [code : AllCodes \union {0}, pid : Pids \union {0}]]
  /\ child \in [Pids -> {"none", "running", "returned", "killed"}]
  /\ stopped \in BOOLEAN

LEMMA ViewerConnectsAgrees ==
  ASSUME IInv, NEW c \in Codes, ViewerConnects(c)
  PROVE  TablesStep /\ ChildrenTracked' /\ TypedChildren'
<1> USE DEF IInv, TypeOK, TablesAgree
<1>1. c \in AllCodes /\ servers \in Tables /\ viewers \in Tables
  BY DEF AllCodes, Tables
<1>2. ~ Has(viewers, c) /\ Has(viewers, 0)
  BY DEF ViewerConnects
<1>3. CASE /\ ~ Has(servers, c)
           /\ viewers' = add(viewers, c)
           /\ UNCHANGED <<servers, procs, child, stopped>>
  <2>1. Added(viewers, viewers', c) /\ Kept(servers, servers')
    BY <1>1, <1>2, <1>3, AddAdds, SameKeeps
  <2>2. ChildrenTracked'
    BY <1>3, SessionsStay
  <2> QED
    BY <1>1, <1>2, <1>3, <2>1, <2>2 DEF TablesStep, ViewerWaits, TypedChildren
<1>4. CASE /\ Has(servers, c)
           /\ viewers' = setActive(add(viewers, c), c)
           /\ servers' = setActive(servers, c)
           /\ forkRepeater(c)
  <2>1. Paired(viewers, viewers', c)
    BY <1>1, <1>2, <1>4, AddSetActivePairs
  <2>2. Paired(servers, servers', c)
    BY <1>1, <1>4, SetActivePairs
  <2>3. ~ Active(servers, c)
    BY <1>1, <1>2, ActiveIsThere DEF EndsTogether
  <2>4. ChildrenTracked' /\ TypedChildren'
    BY <1>1, <1>4, <2>2, <2>3, ForkTracks DEF TypedChildren
  <2> QED
    BY <1>1, <1>2, <1>4, <2>1, <2>2, <2>4 DEF TablesStep, SessionStarts
<1> QED
  BY <1>3, <1>4 DEF ViewerConnects

LEMMA ServerConnectsAgrees ==
  ASSUME IInv, NEW c \in Codes, ServerConnects(c)
  PROVE  TablesStep /\ ChildrenTracked' /\ TypedChildren'
<1> USE DEF IInv, TypeOK, TablesAgree
<1>1. c \in AllCodes /\ servers \in Tables /\ viewers \in Tables
  BY DEF AllCodes, Tables
<1>2. ~ Has(servers, c) /\ Has(servers, 0)
  BY DEF ServerConnects
<1>3. CASE /\ ~ Has(viewers, c)
           /\ servers' = add(servers, c)
           /\ UNCHANGED <<viewers, procs, child, stopped>>
  <2>1. Added(servers, servers', c) /\ Kept(viewers, viewers')
    BY <1>1, <1>2, <1>3, AddAdds, SameKeeps
  <2>2. ChildrenTracked'
    BY <1>3, <2>1, SessionsStay DEF Added
  <2> QED
    BY <1>1, <1>2, <1>3, <2>1, <2>2 DEF TablesStep, ServerWaits, TypedChildren
<1>4. CASE /\ Has(viewers, c)
           /\ servers' = setActive(add(servers, c), c)
           /\ viewers' = setActive(viewers, c)
           /\ forkRepeater(c)
  <2>1. Paired(servers, servers', c)
    BY <1>1, <1>2, <1>4, AddSetActivePairs
  <2>2. Paired(viewers, viewers', c)
    BY <1>1, <1>4, SetActivePairs
  <2>3. ~ Active(servers, c)
    BY <1>2, ActiveIsThere
  <2>4. ChildrenTracked' /\ TypedChildren'
    BY <1>1, <1>2, <1>4, <2>1, <2>3, ForkTracks DEF TypedChildren
  <2> QED
    BY <1>1, <1>2, <1>4, <2>1, <2>2, <2>4 DEF TablesStep, SessionStarts
<1> QED
  BY <1>3, <1>4 DEF ServerConnects

LEMMA InventedIsACode ==
  ASSUME TypeOK
  PROVE  NextInventedCode \in Invented /\ NextInventedCode \in AllCodes
BY RepeaterAssumption DEF TypeOK, NextInventedCode, Invented, AllCodes

LEMMA Mode1ConnectsAgrees ==
  ASSUME IInv, OpensWhole, Mode1Connects
  PROVE  TablesStep /\ ChildrenTracked' /\ TypedChildren'
<1> DEFINE c == NextInventedCode
<1>1. c \in Invented /\ c \in AllCodes
  BY InventedIsACode DEF IInv
<1>2. /\ servers \in Tables /\ viewers \in Tables
      /\ CodesUnique(servers) /\ CodesUnique(viewers)
  BY DEF IInv, TypeOK, TablesAgree, Tables
<1>3. /\ Has(servers, 0) <=> Has(viewers, 0)
      /\ Has(servers, 0) => ~ Has(servers, c) /\ ~ Has(viewers, c)
  BY DEF OpensWhole
<1>4. /\ viewers' = IF Has(viewers, 0) THEN setActive(add(viewers, c), c) ELSE viewers
      /\ servers' = IF Has(servers, 0) THEN setActive(add(servers, c), c) ELSE servers
      /\ IF Has(viewers, 0) /\ Has(servers, 0)
         THEN forkRepeater(c)
         ELSE UNCHANGED <<procs, child, events, stopped>>
  BY DEF Mode1Connects
<1> HIDE DEF c
<1>5. CASE Has(servers, 0)
  <2>1. Paired(servers, servers', c) /\ Paired(viewers, viewers', c) /\ forkRepeater(c)
    BY <1>1, <1>2, <1>3, <1>4, <1>5, AddSetActivePairs
  <2>2. ~ Active(servers, c)
    BY <1>3, <1>5, ActiveIsThere
  <2>3. ChildrenTracked' /\ TypedChildren'
    BY <1>1, <1>5, <2>1, <2>2, ForkTracks DEF TypedChildren
  <2> QED
    BY <1>1, <1>3, <1>5, <2>1, <2>3 DEF TablesStep, SessionOpens
<1>6. CASE ~ Has(servers, 0)
  <2>1. UNCHANGED tables /\ UNCHANGED stopped
    BY <1>3, <1>4, <1>6 DEF tables
  <2>2. TypedChildren'
    BY <2>1 DEF TypedChildren, tables, IInv, TypeOK
  <2> QED
    BY <2>1, <2>2, TablesStay
<1> QED
  BY <1>5, <1>6

\* A removed entry is that of a waiting end.
LEMMA RemovedWaits ==
  ASSUME NEW t \in Tables, CodesUnique(t), NEW i \in Slots,
         connectionRemover(t[i], TRUE)
  PROVE  /\ t[i].code \in AllCodes
         /\ Has(t, t[i].code)
         /\ ~ Active(t, t[i].code)
BY DEF connectionRemover, Tables, Entries, Has, Active, CodesUnique

LEMMA RemoveViewerAgrees ==
  ASSUME IInv, RemoveViewer
  PROVE  TablesStep /\ ChildrenTracked'
<1> USE DEF IInv, TypeOK, TablesAgree
<1>1. servers \in Tables /\ viewers \in Tables
  BY DEF Tables
<1>2. CASE /\ connectionRemover(viewers[ind], TRUE)
           /\ viewers' = remove(viewers, viewers[ind].code)
           /\ UNCHANGED <<servers, procs, child>>
  <2> DEFINE c == viewers[ind].code
  <2>1. c \in AllCodes /\ Has(viewers, c) /\ ~ Active(viewers, c)
    BY <1>1, <1>2, RemovedWaits
  <2>2. Removed(viewers, viewers', c) /\ Kept(servers, servers')
    BY <1>1, <1>2, <2>1, RemoveRemoves, SameKeeps
  <2>3. ChildrenTracked'
    BY <1>2, SessionsStay
  <2> QED
    BY <2>1, <2>2, <2>3 DEF TablesStep, ViewerLeaves
<1>3. CASE UNCHANGED tables
  BY <1>3, TablesStay
<1> QED
  BY <1>2, <1>3 DEF RemoveViewer, tables

LEMMA RemoveServerAgrees ==
  ASSUME IInv, RemoveServer
  PROVE  TablesStep /\ ChildrenTracked'
<1> USE DEF IInv, TypeOK, TablesAgree
<1>1. servers \in Tables /\ viewers \in Tables
  BY DEF Tables
<1>2. CASE /\ connectionRemover(servers[ind], TRUE)
           /\ servers' = remove(servers, servers[ind].code)
           /\ UNCHANGED <<viewers, procs, child>>
  <2> DEFINE c == servers[ind].code
  <2>1. c \in AllCodes /\ Has(servers, c) /\ ~ Active(servers, c)
    BY <1>1, <1>2, RemovedWaits
  <2>2. Removed(servers, servers', c) /\ Kept(viewers, viewers')
    BY <1>1, <1>2, <2>1, RemoveRemoves, SameKeeps
  <2>3. \A d \in AllCodes : Active(servers, d) => Active(servers', d)
    BY <2>1, <2>2 DEF Removed
  <2>4. ChildrenTracked'
    BY <1>2, <2>3, SessionsStay
  <2> QED
    BY <2>1, <2>2, <2>4 DEF TablesStep, ServerLeaves
<1>3. CASE UNCHANGED tables
  BY <1>3, TablesStay
<1> QED
  BY <1>2, <1>3 DEF RemoveServer, tables

\* A child that has ended is forgotten together with its session, or, when a
\* signal has ended it, alone.
LEMMA ReapAgrees ==
  ASSUME IInv, Reap
  PROVE  TablesStep /\ ChildrenTracked' /\ TypedChildren'
<1> USE DEF IInv, TypeOK, TablesAgree
<1> DEFINE p == procs[ind].pid
           c == procs[ind].code
<1>1. servers \in Tables /\ viewers \in Tables
  BY DEF Tables
<1>2. CASE UNCHANGED tables
  <2>1. TypedChildren'
    BY <1>2 DEF TypedChildren, tables, Reap
  <2> QED
    BY <1>2, <2>1, TablesStay
<1>3. CASE /\ c # 0
           /\ child[p] \in {"returned", "killed"}
           /\ child' = [child EXCEPT ![p] = "none"]
           /\ cleanUpAfterRepeaterProcExit(p, c)
           /\ UNCHANGED stopped
  <2>1. c \in AllCodes /\ p \in Pids /\ Active(servers, c)
    BY <1>3 DEF ChildrenTracked
  <2>2. Active(viewers, c) /\ Has(servers, c) /\ Has(viewers, c)
    BY <2>1, ActiveIsThere DEF EndsTogether
  <2>3. /\ procs' = [i \in Slots |-> IF procs[i].pid = p THEN NoProc ELSE procs[i]]
        /\ IF child[p] = "returned"
           THEN servers' = remove(servers, c) /\ viewers' = remove(viewers, c)
           ELSE UNCHANGED <<servers, viewers>>
    BY <1>3, <2>2 DEF cleanUpAfterRepeaterProcExit
  <2>4. TypedChildren'
    BY <1>3, <2>1, <2>3 DEF TypedChildren, NoProc
  <2>5. \A d \in AllCodes : d # c /\ Active(servers, d) => Active(servers', d)
    BY <1>1, <2>1, <2>2, <2>3, RemoveRemoves DEF Removed
  <2>6. TablesStep
    <3>1. CASE child[p] = "returned"
      <4>1. Removed(servers, servers', c) /\ Removed(viewers, viewers', c)
        BY <1>1, <2>1, <2>2, <2>3, <3>1, RemoveRemoves
      <4> QED
        BY <2>1, <4>1 DEF TablesStep, SessionEnds
    <3>2. CASE child[p] # "returned"
      BY <1>1, <2>3, <3>2, SameKeeps DEF TablesStep, Nothing
    <3> QED
      BY <3>1, <3>2
  <2>7. \A i \in Slots :
          \/ procs[i].pid = p /\ procs'[i].code = 0 /\ procs'[i].pid = 0
          \/ procs[i].pid # p /\ procs'[i] = procs[i]
    BY <2>3 DEF NoProc
  <2>8. ASSUME NEW i \in Slots, procs'[i].code # 0
        PROVE  child'[procs'[i].pid] # "none" /\ Active(servers', procs'[i].code)
    <3>1. procs'[i] = procs[i] /\ procs[i].pid # p /\ procs[i].code # 0 /\ i # ind
      BY <2>7, <2>8
    <3>2. /\ procs[i].code \in AllCodes
          /\ procs[i].pid \in Pids
          /\ procs[i].code # c
          /\ child[procs[i].pid] # "none"
          /\ Active(servers, procs[i].code)
      BY <1>3, <3>1 DEF ChildrenTracked
    <3> QED
      BY <1>3, <2>5, <3>1, <3>2
  <2>9. \A i \in Slots : (procs'[i].code = 0) <=> (procs'[i].pid = 0)
    BY <2>7 DEF ChildrenTracked
  <2>10. \A i, j \in Slots :
           procs'[i].code # 0 /\ i # j =>
             procs'[i].code # procs'[j].code /\ procs'[i].pid # procs'[j].pid
    BY <2>7, <2>9 DEF ChildrenTracked
  <2>11. ASSUME NEW q \in Pids, child'[q] # "none"
         PROVE  \E i \in Slots : procs'[i].pid = q
    <3>1. q # p /\ child[q] # "none"
      BY <1>3, <2>1, <2>11
    <3>2. PICK i \in Slots : procs[i].pid = q
      BY <3>1 DEF ChildrenTracked
    <3> QED
      BY <2>7, <3>1, <3>2
  <2>12. ChildrenTracked'
    BY <2>8, <2>9, <2>10, <2>11 DEF ChildrenTracked
  <2> QED
    BY <2>4, <2>6, <2>12
<1>4. UNCHANGED stopped
  BY DEF Reap
<1> QED
  BY <1>2, <1>3, <1>4 DEF Reap, tables

\* Peers leave and children end between two steps of the loop.
LEMMA EnvironmentAgrees ==
  ASSUME IInv, Environment
  PROVE  TablesStep /\ ChildrenTracked' /\ TypedChildren'
<1> USE DEF IInv, TypeOK, TablesAgree
<1>1. servers \in Tables /\ viewers \in Tables
  BY DEF Tables
<1>2. ASSUME NEW i \in Slots, ServerGoes(i)
      PROVE  TablesStep /\ ChildrenTracked' /\ TypedChildren'
  <2>1. Kept(servers, servers') /\ Kept(viewers, viewers')
    BY <1>1, <1>2, GoneKeeps, SameKeeps DEF ServerGoes
  <2>2. ChildrenTracked'
    BY <1>2, <2>1, SessionsStay DEF ServerGoes, Kept
  <2> QED
    BY <1>2, <2>1, <2>2 DEF TablesStep, Nothing, ServerGoes, TypedChildren
<1>3. ASSUME NEW i \in Slots, ViewerGoes(i)
      PROVE  TablesStep /\ ChildrenTracked' /\ TypedChildren'
  <2>1. Kept(servers, servers') /\ Kept(viewers, viewers')
    BY <1>1, <1>3, GoneKeeps, SameKeeps DEF ViewerGoes
  <2>2. ChildrenTracked'
    BY <1>3, SessionsStay DEF ViewerGoes
  <2> QED
    BY <1>3, <2>1, <2>2 DEF TablesStep, Nothing, ViewerGoes, TypedChildren
<1>4. ASSUME NEW p \in Pids, NEW how \in {"returned", "killed"}, ChildEnds(p, how)
      PROVE  TablesStep /\ ChildrenTracked' /\ TypedChildren'
  <2>1. Kept(servers, servers') /\ Kept(viewers, viewers')
    BY <1>1, <1>4, SameKeeps DEF ChildEnds
  <2>2. \A q \in Pids : child'[q] # "none" <=> child[q] # "none"
    BY <1>4 DEF ChildEnds
  <2>3. \A i \in Slots : procs[i].code # 0 => procs[i].pid \in Pids
    BY DEF ChildrenTracked
  <2>4. ChildrenTracked'
    BY <1>4, <2>2, <2>3 DEF ChildrenTracked, ChildEnds
  <2>5. TypedChildren'
    BY <1>4 DEF ChildEnds, TypedChildren
  <2> QED
    BY <2>1, <2>4, <2>5 DEF TablesStep, Nothing
<1>5. CASE handleSigInt
  <2>1. TypedChildren'
    BY <1>5 DEF handleSigInt, tables, TypedChildren
  <2> QED
    BY <1>5, <2>1, TablesStay DEF handleSigInt
<1> QED
  BY <1>2, <1>3, <1>4, <1>5 DEF Environment

-----------------------------------------------------------------------------
(* The invariant *)

TypedRest ==
  /\ mode1ConnCode \in Invented \union {0}
  /\ itemsInFifo \in 0 .. MaxFifoEvents
  /\ sending \in BOOLEAN
  /\ told \in [AllCodes -> {"absent", "waiting", "session", "unknown"}]
  /\ phase \in {"select", "viewer", "server", "removeViewer", "removeServer",
                "heartbeat", "reap", "events", "done"}
  /\ ind \in Slots
  /\ seconds \in 0 .. (CleanupSeconds - 1)

LEMMA QueueTyped ==
  ASSUME TypeOK, NEW n \in Nat, queue(n)
  PROVE  itemsInFifo' \in 0 .. MaxFifoEvents
BY RepeaterAssumption DEF TypeOK, queue

LEMMA SendTyped ==
  ASSUME TypeOK, NEW n \in Nat, NEW c, NEW news \in {"absent", "waiting", "session"},
         sendRepeaterEvent(n, c, news)
  PROVE  /\ itemsInFifo' \in 0 .. MaxFifoEvents
         /\ told' \in [AllCodes -> {"absent", "waiting", "session", "unknown"}]
BY QueueTyped DEF TypeOK, sendRepeaterEvent

LEMMA AfterAcceptTyped ==
  ASSUME TypeOK, AfterAccept
  PROVE  /\ phase' \in {"server", "removeViewer", "heartbeat"}
         /\ ind' \in Slots
         /\ seconds' \in 0 .. (CleanupSeconds - 1)
BY RepeaterAssumption DEF TypeOK, AfterAccept, Slots

LEMMA HandlingTyped ==
  ASSUME TypeOK, NEW queued \in 0 .. MaxFifoEvents, handleRepeaterEvents(queued)
  PROVE  /\ itemsInFifo' \in 0 .. MaxFifoEvents
         /\ sending' \in BOOLEAN
         /\ stopped' \in BOOLEAN
<1>1. itemsInFifo' \in 0 .. MaxFifoEvents
  BY RepeaterAssumption DEF handleRepeaterEvents
<1>2. sending' \in BOOLEAN
  <2>1. (queued > 0) \in BOOLEAN
    OBVIOUS
  <2> QED
    BY <2>1, Zenon DEF TypeOK, handleRepeaterEvents
<1>3. stopped' \in BOOLEAN
  BY DEF TypeOK, handleRepeaterEvents
<1> QED
  BY <1>1, <1>2, <1>3

LEMMA LoopAgrees ==
  ASSUME IInv, OpensWhole, Loop
  PROVE  TablesStep /\ ChildrenTracked' /\ TypedChildren' /\ TypedRest'
<1> USE DEF IInv
<1>1. CASE Select
  BY <1>1, TablesStay DEF Select, tables, events, TypeOK, TypedChildren, TypedRest
<1>2. CASE NobodyConnects
  BY <1>2, TablesStay, AfterAcceptTyped
     DEF NobodyConnects, tables, events, TypeOK, TypedChildren, TypedRest
<1>3. ASSUME NEW c \in Codes, ViewerConnects(c)
      PROVE  TablesStep /\ ChildrenTracked' /\ TypedChildren' /\ TypedRest'
  <2>1. /\ itemsInFifo' \in 0 .. MaxFifoEvents
        /\ told' \in [AllCodes -> {"absent", "waiting", "session", "unknown"}]
    BY <1>3, QueueTyped, SendTyped DEF ViewerConnects, TypeOK
  <2> QED
    BY <1>3, <2>1, ViewerConnectsAgrees, AfterAcceptTyped
       DEF ViewerConnects, TypeOK, TypedRest
<1>4. ASSUME NEW c \in Codes, ServerConnects(c)
      PROVE  TablesStep /\ ChildrenTracked' /\ TypedChildren' /\ TypedRest'
  <2>1. /\ itemsInFifo' \in 0 .. MaxFifoEvents
        /\ told' \in [AllCodes -> {"absent", "waiting", "session", "unknown"}]
    BY <1>4, SendTyped DEF ServerConnects
  <2> QED
    BY <1>4, <2>1, ServerConnectsAgrees, AfterAcceptTyped
       DEF ServerConnects, TypeOK, TypedRest
<1>5. CASE Mode1Connects
  <2>1. /\ itemsInFifo' \in 0 .. MaxFifoEvents
        /\ told' \in [AllCodes -> {"absent", "waiting", "session", "unknown"}]
    BY <1>5, SendTyped DEF Mode1Connects, TypeOK, events
  <2>2. mode1ConnCode' \in Invented
    BY <1>5, InventedIsACode DEF Mode1Connects
  <2> QED
    BY <1>5, <2>1, <2>2, Mode1ConnectsAgrees, AfterAcceptTyped
       DEF Mode1Connects, TypeOK, TypedRest
<1>6. CASE RemoveViewer
  <2>1. itemsInFifo' \in 0 .. MaxFifoEvents
    BY <1>6, QueueTyped DEF RemoveViewer, TypeOK
  <2> QED
    BY <1>6, <2>1, RemoveViewerAgrees
       DEF RemoveViewer, TypeOK, TypedChildren, TypedRest
<1>7. CASE RemoveServer
  <2>1. /\ itemsInFifo' \in 0 .. MaxFifoEvents
        /\ told' \in [AllCodes -> {"absent", "waiting", "session", "unknown"}]
    BY <1>7, SendTyped DEF RemoveServer, TypeOK, events
  <2>2. ind' \in Slots /\ phase' \in {"removeViewer", "heartbeat"}
    BY <1>7, RepeaterAssumption DEF RemoveServer, NextIndex, Slots
  <2> QED
    BY <1>7, <2>1, <2>2, RemoveServerAgrees
       DEF RemoveServer, TypeOK, TypedChildren, TypedRest
<1>8. CASE Heartbeat
  <2>1. itemsInFifo' \in 0 .. MaxFifoEvents
    BY <1>8, QueueTyped DEF Heartbeat, TypeOK
  <2> QED
    BY <1>8, <2>1, TablesStay DEF Heartbeat, tables, TypeOK, TypedChildren, TypedRest
<1>9. CASE Reap
  <2>1. /\ itemsInFifo' \in 0 .. MaxFifoEvents
        /\ told' \in [AllCodes -> {"absent", "waiting", "session", "unknown"}]
    BY <1>9, SendTyped DEF Reap, cleanUpAfterRepeaterProcExit, TypeOK, events
  <2>2. ind' \in Slots /\ phase' \in {"reap", "events"}
    BY <1>9, RepeaterAssumption DEF Reap, NextIndex, Slots
  <2> QED
    BY <1>9, <2>1, <2>2, ReapAgrees DEF Reap, TypeOK, TypedRest
<1>10. CASE HandleEvents
  BY <1>10, HandlingTyped, TablesStay
     DEF HandleEvents, tables, TypeOK, TypedChildren, TypedRest
<1>11. CASE Shutdown
  <2> DEFINE queued == IF itemsInFifo < MaxFifoEvents
                         THEN itemsInFifo + 1 ELSE itemsInFifo
  <2>1. queued \in 0 .. MaxFifoEvents
    BY RepeaterAssumption DEF TypeOK
  <2>2. itemsInFifo' \in 0 .. MaxFifoEvents /\ sending' \in BOOLEAN /\ stopped' \in BOOLEAN
    BY <1>11, <2>1, HandlingTyped DEF Shutdown
  <2> QED
    BY <1>11, <2>2, TablesStay DEF Shutdown, tables, TypeOK, TypedChildren, TypedRest
<1> QED
  BY <1>1, <1>2, <1>3, <1>4, <1>5, <1>6, <1>7, <1>8, <1>9, <1>10, <1>11 DEF Loop

LEMMA NextAgrees ==
  ASSUME IInv, OpensWhole, [Next]_vars
  PROVE  TablesStep /\ IInv'
<1>1. TablesStep /\ ChildrenTracked' /\ TypedChildren' /\ TypedRest'
  <2>1. CASE Loop
    BY <2>1, LoopAgrees
  <2>2. CASE Environment
    <3>1. TypedRest'
      BY <2>2 DEF Environment, ServerGoes, ViewerGoes, ChildEnds, handleSigInt, events,
                  IInv, TypeOK, TypedRest
    <3> QED
      BY <2>2, <3>1, EnvironmentAgrees
  <2>3. CASE UNCHANGED vars
    BY <2>3, TablesStay DEF vars, tables, events, IInv, TypeOK, TypedChildren, TypedRest
  <2> QED
    BY <2>1, <2>2, <2>3 DEF Next
<1>2. /\ CodesUnique(servers') /\ CodesUnique(viewers')
      /\ EndsTogether' /\ NobodyWaitsForAWaiter'
      /\ servers' \in Tables /\ viewers' \in Tables
  BY <1>1, StepAgrees
<1> QED
  BY <1>1, <1>2 DEF IInv, TypeOK, TablesAgree, Tables, TypedChildren, TypedRest

LEMMA InitRefines == Init => Ends!Init
<1> SUFFICES ASSUME Init PROVE Ends!Init
  OBVIOUS
<1>1. \A c \in Codes : ~ Has(servers, c) /\ ~ Has(viewers, c)
  BY RepeaterAssumption DEF Init, Free, Has
<1> QED
  BY <1>1 DEF Ends!Init, EndOf

LEMMA InitAgrees == Init => IInv
<1> SUFFICES ASSUME Init PROVE IInv
  OBVIOUS
<1>1. 0 \in Slots /\ 0 \in 0 .. (CleanupSeconds - 1) /\ 1 \in 0 .. MaxFifoEvents
  BY RepeaterAssumption DEF Slots
<1>2. TypeOK
  BY <1>1 DEF Init, TypeOK, Entries, Free, NoProc, AllCodes
<1>3. \A c \in AllCodes : ~ Has(servers, c) /\ ~ Has(viewers, c)
  BY CodesAreInts DEF Init, Free, Has
<1>4. TablesAgree
  BY <1>3, ActiveIsThere
     DEF Init, TablesAgree, CodesUnique, EndsTogether, NobodyWaitsForAWaiter,
         ChildrenTracked, Free, NoProc
<1> QED
  BY <1>2, <1>4 DEF IInv

LEMMA Mode2OpensNone == ASSUME Mode2Only PROVE OpensWhole
BY DEF Mode2Only, OpensWhole, Mode1Connects

LEMMA Invariance ==
  ASSUME Mode2Only
  PROVE  Spec => []IInv
<1>1. IInv /\ [Next]_vars => IInv'
  BY Mode2OpensNone, NextAgrees
<1> QED
  BY <1>1, InitAgrees, PTL DEF Spec

LEMMA VarsStay == ASSUME IInv, UNCHANGED vars PROVE IInv'
BY DEF vars, tables, events, IInv, TypeOK, TablesAgree, CodesUnique, EndsTogether,
   NobodyWaitsForAWaiter, ChildrenTracked, Active, Has

LEMMA WholeInvariance == Spec /\ [][OpensWhole]_vars => []IInv
<1>1. IInv /\ [Next]_vars /\ [OpensWhole]_vars => IInv'
  <2> SUFFICES ASSUME IInv, [Next]_vars, [OpensWhole]_vars
               PROVE  IInv'
    OBVIOUS
  <2>1. CASE OpensWhole
    BY <2>1, NextAgrees
  <2>2. CASE UNCHANGED vars
    BY <2>2, VarsStay
  <2> QED
    BY <2>1, <2>2
<1> QED
  BY <1>1, InitAgrees, PTL DEF Spec

(***************************************************************************)
(* Every variable has a value the code can give it (repeater.cpp).         *)
(***************************************************************************)
THEOREM TypeCorrect ==
  ASSUME Mode2Only
  PROVE  Spec => []TypeOK
<1>1. IInv => TypeOK
  BY DEF IInv
<1> QED
  BY <1>1, Invariance, PTL

(***************************************************************************)
(* servers[], viewers[] and repeaterProcs[] agree with each other and with *)
(* the children that exist, between any two steps of routeConnections.     *)
(***************************************************************************)
THEOREM TablesStayInAgreement ==
  ASSUME Mode2Only
  PROVE  Spec => []TablesAgree
<1>1. IInv => TablesAgree
  BY DEF IInv
<1> QED
  BY <1>1, Invariance, PTL

(***************************************************************************)
(* acceptConnection, connectionRemover and cleanUpAfterRepeaterProcExit    *)
(* pair the two ends of each code as Pairing says, and part them together. *)
(***************************************************************************)
THEOREM RepeaterPairsEnds ==
  ASSUME Mode2Only
  PROVE  Spec => PairsEnds
<1>1. Init => Ends!Init
  BY InitRefines
<1>2. IInv /\ [Next]_vars => [Ends!Next]_(Ends!vars)
  BY Mode2OpensNone, NextAgrees, StepRefines
<1>3. Spec => []IInv
  BY Invariance
<1> QED
  BY <1>1, <1>2, <1>3, PTL DEF Spec, PairsEnds, Ends!Spec

-----------------------------------------------------------------------------
(***************************************************************************)
(* With mode 2 alone and children that return by themselves, every session *)
(* of the repeater has a child and the events queued tell the state of     *)
(* every server, for every size of the tables and of the queue and any     *)
(* number of codes and children.                                           *)
(***************************************************************************)
NoSignals == ~ Signals

-----------------------------------------------------------------------------
(* The invariant *)

\* Nothing is left of an entry that is freed.
FreeAreIdle(t) == \A i \in Slots : t[i].code = 0 => ~ t[i].active

SessionsHaveChildren ==
  ~ stopped => \A c \in AllCodes : Active(servers, c) => Has(procs, c)

NobodyKilled == \A p \in Pids : child[p] # "killed"

SessionInv ==
  /\ IInv
  /\ FreeAreIdle(servers) /\ FreeAreIdle(viewers)
  /\ SessionsHaveChildren
  /\ NobodyKilled
  /\ EventsTellTable

LEMMA SessionsAreServed == SessionInv => ActiveHasChild
<1> SUFFICES ASSUME SessionInv, ~ stopped, NEW i \in Slots,
                    NEW entry \in {servers[i], viewers[i]}, entry.active
             PROVE  \E j \in Slots : procs[j].code = entry.code
  BY DEF ActiveHasChild
<1>1. entry.code \in AllCodes
  BY DEF SessionInv, FreeAreIdle, IInv, TypeOK, Entries
<1>2. Active(servers, entry.code)
  <2>1. Active(servers, entry.code) \/ Active(viewers, entry.code)
    BY DEF Active
  <2> QED
    BY <1>1, <2>1 DEF SessionInv, IInv, TablesAgree, EndsTogether
<1> QED
  BY <1>1, <1>2 DEF SessionInv, SessionsHaveChildren, Has

-----------------------------------------------------------------------------
(* Free entries *)

LEMMA OperationsLeaveFreeIdle ==
  ASSUME NEW t \in Tables, FreeAreIdle(t), NEW c \in AllCodes
  PROVE  /\ FreeAreIdle(add(t, c))
         /\ FreeAreIdle(remove(t, c))
         /\ FreeAreIdle(setActive(t, c))
         /\ FreeAreIdle(setActive(add(t, c), c))
         /\ \A i \in Slots : FreeAreIdle([t EXCEPT ![i].gone = TRUE])
<1>1. \A i \in Slots : t[i].code = 0 => ~ t[i].active
  BY DEF FreeAreIdle
<1>2. FreeAreIdle(add(t, c)) /\ add(t, c) \in Tables
  BY <1>1 DEF FreeAreIdle, add, Replace, Waiting, Tables, Entries
<1>3. FreeAreIdle(remove(t, c))
  BY <1>1 DEF FreeAreIdle, remove, Replace, Free
<1>4. ASSUME NEW u \in Tables, FreeAreIdle(u)
      PROVE  FreeAreIdle(setActive(u, c))
  <2>1. ASSUME NEW i \in Slots, setActive(u, c)[i].code = 0
        PROVE  ~ setActive(u, c)[i].active
    <3>1. setActive(u, c)[i] = IF IsFirst(u, c, i) THEN Activated(u[i]) ELSE u[i]
      BY DEF setActive
    <3>2. IsFirst(u, c, i) => u[i].code # 0 /\ Activated(u[i]).code = u[i].code
      BY CodesAreInts DEF IsFirst, Activated, Tables, Entries
    <3> QED
      BY <1>4, <2>1, <3>1, <3>2 DEF FreeAreIdle
  <2> QED
    BY <2>1 DEF FreeAreIdle
<1>5. \A i \in Slots : FreeAreIdle([t EXCEPT ![i].gone = TRUE])
  BY <1>1 DEF FreeAreIdle, Tables, Entries
<1> QED
  BY <1>2, <1>3, <1>4, <1>5

-----------------------------------------------------------------------------
(* Sessions and children *)

LEMMA SameSessionsAreServed ==
  ASSUME SessionsHaveChildren, UNCHANGED procs, stopped => stopped',
         \A c \in AllCodes : Active(servers', c) => Active(servers, c)
  PROVE  SessionsHaveChildren'
BY DEF SessionsHaveChildren, Has

\* A session that starts gets a child, unless the fork fails.
LEMMA ForkServes ==
  ASSUME IInv, SessionsHaveChildren, NEW c \in AllCodes, ~ Active(servers, c),
         Has(servers, c) \/ Has(servers, 0),
         Paired(servers, servers', c), forkRepeater(c)
  PROVE  SessionsHaveChildren'
<1>1. CASE stopped'
  BY <1>1 DEF SessionsHaveChildren
<1>2. CASE ~ stopped'
  <2>1. PICK p \in Pids : procs' = Replace(procs, 0, [code |-> c, pid |-> p])
    BY <1>2 DEF forkRepeater
  <2>2. ~ stopped
    BY <1>2 DEF forkRepeater
  <2>3. PICK k \in Slots : IsFirst(procs, 0, k)
    BY FreeProc, FirstExists
  <2>4. procs' = [i \in Slots |-> IF i = k THEN [code |-> c, pid |-> p] ELSE procs[i]]
    BY <2>1, <2>3, FirstUnique DEF Replace
  <2>5. procs'[k].code = c /\ \A i \in Slots : procs[i].code # 0 => procs'[i] = procs[i]
    BY <2>3, <2>4 DEF IsFirst
  <2>6. ASSUME NEW d \in AllCodes, Active(servers', d)
        PROVE  Has(procs', d)
    <3>1. CASE d = c
      BY <2>5, <3>1 DEF Has
    <3>2. CASE d # c
      <4>1. Has(procs, d) /\ d # 0
        BY <2>2, <2>6, <3>2, CodesAreInts DEF Paired, SessionsHaveChildren
      <4> QED
        BY <2>5, <4>1 DEF Has
    <3> QED
      BY <3>1, <3>2
  <2> QED
    BY <2>6 DEF SessionsHaveChildren
<1> QED
  BY <1>1, <1>2

LEMMA ForkKillsNobody ==
  ASSUME IInv, NobodyKilled, NEW c, forkRepeater(c)
  PROVE  NobodyKilled'
BY DEF IInv, TypeOK, NobodyKilled, forkRepeater

-----------------------------------------------------------------------------
(* What the events say *)

Says(state) ==
  CASE state = "absent" -> "absent" [] state = "waiting" -> "waiting"
    [] state = "paired" -> "session"

LEMMA RecordSays ==
  ASSUME NEW t, NEW c
  PROVE  [absent |-> "absent", waiting |-> "waiting", paired |-> "session"][EndOf(t, c)]
           = Says(EndOf(t, c))
BY DEF EndOf, Says

LEMMA NoNewsIsTold ==
  ASSUME EventsTellTable, UNCHANGED told,
         \A d \in AllCodes : EndOf(servers', d) = EndOf(servers, d)
  PROVE  EventsTellTable'
<1>1. \A d \in Codes : told[d] = "unknown" \/ told[d] = Says(EndOf(servers, d))
  BY RecordSays DEF EventsTellTable
<1>2. \A d \in Codes : told'[d] = "unknown" \/ told'[d] = Says(EndOf(servers', d))
  BY <1>1 DEF AllCodes
<1> QED
  BY <1>2, RecordSays DEF EventsTellTable

\* An event for each change of a server, or "unknown" where it found no room.
LEMMA NewsIsTold ==
  ASSUME TypeOK, EventsTellTable, NEW c \in AllCodes, NEW n,
         NEW state \in {"absent", "waiting", "paired"},
         \A d \in AllCodes :
           EndOf(servers', d) = IF d = c THEN state ELSE EndOf(servers, d),
         sendRepeaterEvent(n, c, Says(state))
  PROVE  EventsTellTable'
<1>1. told'[c] \in {"unknown", Says(state)} /\ \A d \in AllCodes : d # c => told'[d] = told[d]
  BY DEF TypeOK, sendRepeaterEvent
<1>2. \A d \in Codes : told[d] = "unknown" \/ told[d] = Says(EndOf(servers, d))
  BY RecordSays DEF EventsTellTable
<1>3. \A d \in Codes : told'[d] = "unknown" \/ told'[d] = Says(EndOf(servers', d))
  BY <1>1, <1>2 DEF AllCodes
<1> QED
  BY <1>3, RecordSays DEF EventsTellTable

\* What the changes of the servers' table mean for the end of each code.
LEMMA EndsAfter ==
  ASSUME NEW t, NEW u, NEW c \in AllCodes
  PROVE  /\ Kept(t, u) => \A d \in AllCodes : EndOf(u, d) = EndOf(t, d)
         /\ Added(t, u, c) /\ ~ Has(t, c) =>
              \A d \in AllCodes : EndOf(u, d) = IF d = c THEN "waiting" ELSE EndOf(t, d)
         /\ Paired(t, u, c) =>
              \A d \in AllCodes : EndOf(u, d) = IF d = c THEN "paired" ELSE EndOf(t, d)
         /\ Removed(t, u, c) =>
              \A d \in AllCodes : EndOf(u, d) = IF d = c THEN "absent" ELSE EndOf(t, d)
<1>1. \A d : Active(t, d) => Has(t, d)
  BY DEF Active, Has
<1> QED
  BY <1>1 DEF Kept, Added, Paired, Removed, EndOf

-----------------------------------------------------------------------------
(* The steps *)

SessionParts ==
  /\ FreeAreIdle(servers) /\ FreeAreIdle(viewers)
  /\ SessionsHaveChildren
  /\ NobodyKilled
  /\ EventsTellTable

LEMMA TablesUntouched ==
  ASSUME SessionInv, UNCHANGED <<servers, viewers, procs, child, told>>,
         stopped => stopped'
  PROVE  SessionParts'
<1>1. SessionsHaveChildren'
  BY SameSessionsAreServed DEF SessionInv
<1>2. EventsTellTable'
  BY DEF SessionInv, EventsTellTable
<1> QED
  BY <1>1, <1>2 DEF SessionInv, SessionParts, FreeAreIdle, NobodyKilled

LEMMA ViewerConnectsServed ==
  ASSUME SessionInv, NEW c \in Codes, ViewerConnects(c)
  PROVE  SessionParts'
<1> USE DEF SessionInv
<1>1. /\ c \in AllCodes /\ servers \in Tables /\ viewers \in Tables /\ TypeOK
      /\ CodesUnique(servers) /\ CodesUnique(viewers)
  BY DEF IInv, TypeOK, TablesAgree, AllCodes, Tables
<1>2. ~ Has(viewers, c) /\ Has(viewers, 0)
  BY DEF ViewerConnects
<1>3. CASE /\ viewers' = add(viewers, c)
           /\ UNCHANGED <<servers, procs, child, told, stopped>>
  <2>1. FreeAreIdle(viewers') /\ FreeAreIdle(servers')
    BY <1>1, <1>3, OperationsLeaveFreeIdle
  <2>2. SessionsHaveChildren' /\ EventsTellTable'
    BY <1>3, SameSessionsAreServed, NoNewsIsTold
  <2> QED
    BY <1>3, <2>1, <2>2 DEF SessionParts, NobodyKilled
<1>4. CASE /\ Has(servers, c)
           /\ viewers' = setActive(add(viewers, c), c)
           /\ servers' = setActive(servers, c)
           /\ forkRepeater(c)
           /\ sendRepeaterEvent(2, c, "session")
  <2>1. FreeAreIdle(viewers') /\ FreeAreIdle(servers')
    BY <1>1, <1>4, OperationsLeaveFreeIdle
  <2>2. Paired(servers, servers', c)
    BY <1>1, <1>4, SetActivePairs
  <2>3. ~ Active(servers, c)
    BY <1>1, <1>2, ActiveIsThere DEF IInv, TablesAgree, EndsTogether
  <2>4. SessionsHaveChildren' /\ NobodyKilled'
    BY <1>1, <1>4, <2>2, <2>3, ForkServes, ForkKillsNobody
  <2>5. EventsTellTable'
    <3>1. sendRepeaterEvent(2, c, Says("paired"))
      BY <1>4 DEF Says
    <3>2. \A d \in AllCodes :
            EndOf(servers', d) = IF d = c THEN "paired" ELSE EndOf(servers, d)
      BY <1>1, <2>2, EndsAfter
    <3> QED
      BY <1>1, <3>1, <3>2, NewsIsTold
  <2> QED
    BY <2>1, <2>4, <2>5 DEF SessionParts
<1> QED
  BY <1>3, <1>4 DEF ViewerConnects

LEMMA ServerConnectsServed ==
  ASSUME SessionInv, NEW c \in Codes, ServerConnects(c)
  PROVE  SessionParts'
<1> USE DEF SessionInv
<1>1. /\ c \in AllCodes /\ servers \in Tables /\ viewers \in Tables /\ TypeOK
      /\ CodesUnique(servers) /\ CodesUnique(viewers)
  BY DEF IInv, TypeOK, TablesAgree, AllCodes, Tables
<1>2. ~ Has(servers, c) /\ Has(servers, 0)
  BY DEF ServerConnects
<1>3. CASE /\ servers' = add(servers, c)
           /\ sendRepeaterEvent(1, c, "waiting")
           /\ UNCHANGED <<viewers, procs, child, stopped>>
  <2>1. FreeAreIdle(viewers') /\ FreeAreIdle(servers')
    BY <1>1, <1>3, OperationsLeaveFreeIdle
  <2>2. Added(servers, servers', c)
    BY <1>1, <1>2, <1>3, AddAdds
  <2>3. SessionsHaveChildren'
    BY <1>3, <2>2, SameSessionsAreServed DEF Added
  <2>4. EventsTellTable'
    <3>1. sendRepeaterEvent(1, c, Says("waiting"))
      BY <1>3 DEF Says
    <3>2. \A d \in AllCodes :
            EndOf(servers', d) = IF d = c THEN "waiting" ELSE EndOf(servers, d)
      BY <1>1, <1>2, <2>2, EndsAfter
    <3> QED
      BY <1>1, <3>1, <3>2, NewsIsTold
  <2> QED
    BY <1>3, <2>1, <2>3, <2>4 DEF SessionParts, NobodyKilled
<1>4. CASE /\ Has(viewers, c)
           /\ servers' = setActive(add(servers, c), c)
           /\ viewers' = setActive(viewers, c)
           /\ forkRepeater(c)
           /\ sendRepeaterEvent(2, c, "session")
  <2>1. FreeAreIdle(viewers') /\ FreeAreIdle(servers')
    BY <1>1, <1>4, OperationsLeaveFreeIdle
  <2>2. Paired(servers, servers', c)
    BY <1>1, <1>2, <1>4, AddSetActivePairs
  <2>3. ~ Active(servers, c)
    BY <1>2, ActiveIsThere
  <2>4. SessionsHaveChildren' /\ NobodyKilled'
    BY <1>1, <1>2, <1>4, <2>2, <2>3, ForkServes, ForkKillsNobody
  <2>5. EventsTellTable'
    <3>1. sendRepeaterEvent(2, c, Says("paired"))
      BY <1>4 DEF Says
    <3>2. \A d \in AllCodes :
            EndOf(servers', d) = IF d = c THEN "paired" ELSE EndOf(servers, d)
      BY <1>1, <2>2, EndsAfter
    <3> QED
      BY <1>1, <3>1, <3>2, NewsIsTold
  <2> QED
    BY <2>1, <2>4, <2>5 DEF SessionParts
<1> QED
  BY <1>3, <1>4 DEF ServerConnects

LEMMA Mode1ConnectsServed ==
  ASSUME SessionInv, OpensWhole, Mode1Connects
  PROVE  SessionParts'
<1> DEFINE c == NextInventedCode
<1>1. c \in AllCodes
  BY InventedIsACode DEF SessionInv, IInv
<1>2. /\ servers \in Tables /\ viewers \in Tables /\ TypeOK
      /\ CodesUnique(servers) /\ CodesUnique(viewers)
  BY DEF SessionInv, IInv, TypeOK, TablesAgree, Tables
<1>3. /\ Has(servers, 0) <=> Has(viewers, 0)
      /\ Has(servers, 0) => ~ Has(servers, c) /\ ~ Has(viewers, c)
  BY DEF OpensWhole
<1>4. /\ viewers' = IF Has(viewers, 0) THEN setActive(add(viewers, c), c) ELSE viewers
      /\ servers' = IF Has(servers, 0) THEN setActive(add(servers, c), c) ELSE servers
      /\ IF Has(viewers, 0) /\ Has(servers, 0)
         THEN forkRepeater(c) /\ sendRepeaterEvent(3, c, "session")
         ELSE UNCHANGED <<procs, child, events, stopped>>
  BY DEF Mode1Connects
<1> HIDE DEF c
<1>5. CASE Has(servers, 0)
  <2>1. FreeAreIdle(viewers') /\ FreeAreIdle(servers')
    BY <1>1, <1>2, <1>3, <1>4, <1>5, OperationsLeaveFreeIdle DEF SessionInv
  <2>2. Paired(servers, servers', c) /\ forkRepeater(c) /\ sendRepeaterEvent(3, c, "session")
    BY <1>1, <1>2, <1>3, <1>4, <1>5, AddSetActivePairs
  <2>3. ~ Active(servers, c)
    BY <1>3, <1>5, ActiveIsThere
  <2>4. SessionsHaveChildren' /\ NobodyKilled'
    BY <1>1, <1>5, <2>2, <2>3, ForkServes, ForkKillsNobody DEF SessionInv
  <2>5. EventsTellTable'
    <3>1. sendRepeaterEvent(3, c, Says("paired"))
      BY <2>2 DEF Says
    <3>2. \A d \in AllCodes :
            EndOf(servers', d) = IF d = c THEN "paired" ELSE EndOf(servers, d)
      BY <1>1, <2>2, EndsAfter
    <3> QED
      BY <1>1, <1>2, <3>1, <3>2, NewsIsTold DEF SessionInv
  <2> QED
    BY <2>1, <2>4, <2>5 DEF SessionParts
<1>6. CASE ~ Has(servers, 0)
  <2>1. UNCHANGED <<servers, viewers, procs, child, told, stopped>>
    BY <1>3, <1>4, <1>6 DEF events
  <2> QED
    BY <2>1, TablesUntouched
<1> QED
  BY <1>5, <1>6

LEMMA RemoveViewerServed ==
  ASSUME SessionInv, RemoveViewer
  PROVE  SessionParts'
<1> USE DEF SessionInv
<1>1. /\ viewers \in Tables /\ CodesUnique(viewers) /\ ind \in Slots
      /\ UNCHANGED <<servers, procs, child, told, stopped>>
  BY DEF IInv, TypeOK, TablesAgree, Tables, RemoveViewer
<1>2. FreeAreIdle(viewers')
  <2>1. CASE /\ connectionRemover(viewers[ind], TRUE)
             /\ viewers' = remove(viewers, viewers[ind].code)
    BY <1>1, <2>1, RemovedWaits, OperationsLeaveFreeIdle
  <2>2. CASE UNCHANGED viewers
    BY <2>2 DEF FreeAreIdle
  <2> QED
    BY <2>1, <2>2 DEF RemoveViewer
<1>3. SessionsHaveChildren' /\ EventsTellTable'
  BY <1>1, SameSessionsAreServed, NoNewsIsTold
<1> QED
  BY <1>1, <1>2, <1>3 DEF SessionParts, NobodyKilled, FreeAreIdle

LEMMA RemoveServerServed ==
  ASSUME SessionInv, RemoveServer
  PROVE  SessionParts'
<1> USE DEF SessionInv
<1>1. /\ servers \in Tables /\ CodesUnique(servers) /\ ind \in Slots /\ TypeOK
      /\ UNCHANGED <<viewers, procs, child, stopped>>
  BY DEF IInv, TypeOK, TablesAgree, Tables, RemoveServer
<1>2. CASE /\ connectionRemover(servers[ind], TRUE)
           /\ servers' = remove(servers, servers[ind].code)
           /\ sendRepeaterEvent(1, servers[ind].code, "absent")
  <2> DEFINE c == servers[ind].code
  <2>1. c \in AllCodes /\ Has(servers, c)
    BY <1>1, <1>2, RemovedWaits
  <2>2. FreeAreIdle(servers')
    BY <1>1, <1>2, <2>1, OperationsLeaveFreeIdle
  <2>3. Removed(servers, servers', c)
    BY <1>1, <1>2, <2>1, RemoveRemoves
  <2>4. SessionsHaveChildren'
    BY <1>1, <2>3, SameSessionsAreServed DEF Removed
  <2>5. sendRepeaterEvent(1, c, Says("absent"))
    BY <1>2 DEF Says
  <2> HIDE DEF c
  <2>6. \A d \in AllCodes : EndOf(servers', d) = IF d = c THEN "absent" ELSE EndOf(servers, d)
    BY <2>1, <2>3, EndsAfter
  <2>7. EventsTellTable'
    BY <1>1, <2>1, <2>5, <2>6, NewsIsTold
  <2> QED
    BY <1>1, <2>2, <2>4, <2>7 DEF SessionParts, NobodyKilled, FreeAreIdle
<1>3. CASE UNCHANGED <<servers, events>>
  BY <1>1, <1>3, TablesUntouched DEF events
<1> QED
  BY <1>2, <1>3 DEF RemoveServer

LEMMA ReapServed ==
  ASSUME SessionInv, Reap
  PROVE  SessionParts'
<1> USE DEF SessionInv
<1> DEFINE p == procs[ind].pid
           c == procs[ind].code
<1>1. /\ servers \in Tables /\ viewers \in Tables /\ ind \in Slots /\ TypeOK
      /\ CodesUnique(servers) /\ CodesUnique(viewers)
      /\ UNCHANGED stopped
  BY DEF IInv, TypeOK, TablesAgree, Tables, Reap
<1>2. CASE UNCHANGED <<tables, events>>
  BY <1>1, <1>2, TablesUntouched DEF tables, events
<1>3. CASE /\ c # 0
           /\ child[p] \in {"returned", "killed"}
           /\ child' = [child EXCEPT ![p] = "none"]
           /\ cleanUpAfterRepeaterProcExit(p, c)
  <2>1. c \in AllCodes /\ p \in Pids /\ Active(servers, c)
    BY <1>1, <1>3 DEF IInv, TypeOK, TablesAgree, ChildrenTracked
  <2>2. Has(servers, c) /\ Has(viewers, c)
    BY <2>1, ActiveIsThere DEF IInv, TablesAgree, EndsTogether
  <2>3. child[p] = "returned"
    BY <1>3, <2>1 DEF NobodyKilled
  <2>4. /\ procs' = [i \in Slots |-> IF procs[i].pid = p THEN NoProc ELSE procs[i]]
        /\ sendRepeaterEvent(1, c, "absent")
        /\ servers' = remove(servers, c) /\ viewers' = remove(viewers, c)
    BY <1>3, <2>2, <2>3 DEF cleanUpAfterRepeaterProcExit
  <2>5. FreeAreIdle(servers') /\ FreeAreIdle(viewers')
    BY <1>1, <2>1, <2>4, OperationsLeaveFreeIdle
  <2>6. Removed(servers, servers', c)
    BY <1>1, <2>1, <2>2, <2>4, RemoveRemoves
  <2>7. SessionsHaveChildren'
    <3> SUFFICES ASSUME ~ stopped, NEW d \in AllCodes, Active(servers', d)
                 PROVE  Has(procs', d)
      BY <1>1 DEF SessionsHaveChildren
    <3>1. d # c /\ Active(servers, d)
      BY <2>6 DEF Removed
    <3>2. PICK j \in Slots : procs[j].code = d
      BY <3>1 DEF SessionsHaveChildren, Has
    <3>3. procs[j].pid # p
      BY <1>1, <1>3, <3>1, <3>2, CodesAreInts DEF IInv, TablesAgree, ChildrenTracked
    <3> QED
      BY <2>4, <3>2, <3>3 DEF Has
  <2>8. NobodyKilled'
    BY <1>1, <1>3 DEF NobodyKilled, TypeOK
  <2>9. sendRepeaterEvent(1, c, Says("absent"))
    BY <2>4 DEF Says
  <2> HIDE DEF c
  <2>10. \A d \in AllCodes : EndOf(servers', d) = IF d = c THEN "absent" ELSE EndOf(servers, d)
    BY <2>1, <2>6, EndsAfter
  <2>11. EventsTellTable'
    BY <1>1, <2>1, <2>9, <2>10, NewsIsTold
  <2> QED
    BY <2>5, <2>7, <2>8, <2>11 DEF SessionParts
<1> QED
  BY <1>2, <1>3 DEF Reap

LEMMA EnvironmentServed ==
  ASSUME SessionInv, NoSignals, Environment
  PROVE  SessionParts'
<1> USE DEF SessionInv
<1>1. /\ servers \in Tables /\ viewers \in Tables
      /\ CodesUnique(servers) /\ CodesUnique(viewers)
      /\ child \in [Pids -> {"none", "running", "returned", "killed"}]
  BY DEF IInv, TypeOK, TablesAgree, Tables
<1>2. ASSUME NEW i \in Slots, ServerGoes(i)
      PROVE  SessionParts'
  <2>1. servers' = [servers EXCEPT ![i].gone = TRUE]
    BY <1>2 DEF ServerGoes
  <2>2. UNCHANGED <<viewers, procs, child, told, stopped>>
    BY <1>2 DEF ServerGoes, events
  <2>3. servers[i].code \in AllCodes
    BY <1>1, <1>2 DEF ServerGoes, Tables, Entries
  <2>4. FreeAreIdle(servers')
    BY <1>1, <2>1, <2>3, OperationsLeaveFreeIdle
  <2>5. Kept(servers, servers')
    BY <1>1, <2>1, GoneKeeps
  <2>6. SessionsHaveChildren' /\ EventsTellTable'
    BY <2>2, <2>3, <2>5, SameSessionsAreServed, NoNewsIsTold, EndsAfter DEF Kept
  <2> QED
    BY <2>2, <2>4, <2>6 DEF SessionParts, NobodyKilled, FreeAreIdle
<1>3. ASSUME NEW i \in Slots, ViewerGoes(i)
      PROVE  SessionParts'
  <2>1. viewers' = [viewers EXCEPT ![i].gone = TRUE]
    BY <1>3 DEF ViewerGoes
  <2>2. UNCHANGED <<servers, procs, child, told, stopped>>
    BY <1>3 DEF ViewerGoes, events
  <2>3. viewers[i].code \in AllCodes
    BY <1>1, <1>3 DEF ViewerGoes, Tables, Entries
  <2>4. FreeAreIdle(viewers')
    BY <1>1, <2>1, <2>3, OperationsLeaveFreeIdle
  <2>5. SessionsHaveChildren' /\ EventsTellTable'
    BY <2>2, SameSessionsAreServed, NoNewsIsTold
  <2> QED
    BY <2>2, <2>4, <2>5 DEF SessionParts, NobodyKilled, FreeAreIdle
<1>4. ASSUME NEW p \in Pids, ChildEnds(p, "returned")
      PROVE  SessionParts'
  <2>1. UNCHANGED <<servers, viewers, procs, told, stopped>>
    BY <1>4 DEF ChildEnds, events
  <2>2. NobodyKilled'
    BY <1>1, <1>4 DEF ChildEnds, NobodyKilled
  <2>3. SessionsHaveChildren' /\ EventsTellTable'
    BY <2>1, SameSessionsAreServed, NoNewsIsTold
  <2> QED
    BY <2>1, <2>2, <2>3 DEF SessionParts, FreeAreIdle
<1>5. CASE handleSigInt
  BY <1>5, TablesUntouched DEF handleSigInt, tables, events
<1> QED
  BY <1>2, <1>3, <1>4, <1>5 DEF Environment, NoSignals

LEMMA SessionStep ==
  ASSUME SessionInv, OpensWhole, NoSignals, [Next]_vars
  PROVE  SessionInv'
<1>1. IInv'
  BY NextAgrees DEF SessionInv
<1>2. ASSUME Loop
      PROVE  SessionParts'
  <2>1. CASE Select \/ NobodyConnects \/ Heartbeat \/ HandleEvents \/ Shutdown
    <3>1. /\ UNCHANGED <<servers, viewers, procs, child, told>>
          /\ stopped => stopped'
      BY <2>1 DEF Select, NobodyConnects, Heartbeat, HandleEvents, Shutdown,
                  handleRepeaterEvents, tables, events
    <3> QED
      BY <3>1, TablesUntouched
  <2> QED
    BY <1>2, <2>1, Mode1ConnectsServed, ViewerConnectsServed, ServerConnectsServed, RemoveViewerServed,
       RemoveServerServed, ReapServed DEF Loop
<1>3. ASSUME Environment
      PROVE  SessionParts'
  BY <1>3, EnvironmentServed
<1>4. ASSUME UNCHANGED vars
      PROVE  SessionParts'
  BY <1>4, TablesUntouched DEF vars, tables, events
<1>5. SessionParts'
  BY <1>2, <1>3, <1>4 DEF Next
<1> QED
  BY <1>1, <1>5 DEF SessionInv, SessionParts

LEMMA SessionInit == Init => SessionInv
<1> SUFFICES ASSUME Init
             PROVE  SessionInv
  OBVIOUS
<1>1. \A c \in AllCodes : ~ Has(servers, c)
  BY CodesAreInts DEF Init, Free, Has
<1>2. \A c \in AllCodes : EndOf(servers, c) = "absent" /\ ~ Active(servers, c)
  BY <1>1, ActiveIsThere DEF EndOf
<1>3. EventsTellTable /\ SessionsHaveChildren
  BY <1>2 DEF Init, EventsTellTable, SessionsHaveChildren, AllCodes
<1> QED
  BY <1>3, InitAgrees DEF SessionInv, Init, FreeAreIdle, Free, NobodyKilled

LEMMA SessionInvariance ==
  ASSUME Mode2Only, NoSignals
  PROVE  Spec => []SessionInv
<1>1. SessionInv /\ [Next]_vars => SessionInv'
  BY Mode2OpensNone, SessionStep
<1> QED
  BY <1>1, SessionInit, PTL DEF Spec

(***************************************************************************)
(* As long as the repeater does not stop, doRepeater() runs in a child, or *)
(* has run in one that is not reaped yet, for every pair of entries that   *)
(* acceptConnection has activated.                                         *)
(***************************************************************************)
THEOREM EverySessionHasAChild ==
  ASSUME Mode2Only, NoSignals
  PROVE  Spec => []ActiveHasChild
BY SessionInvariance, SessionsAreServed, PTL

(***************************************************************************)
(* Who takes the events in the order of the queue knows of every server    *)
(* whether it is there, waits or is in a session, or has missed its last   *)
(* event because the queue was full.                                       *)
(***************************************************************************)
THEOREM EventsTellTheTable ==
  ASSUME Mode2Only, NoSignals
  PROVE  Spec => []EventsTellTable
<1>1. SessionInv => EventsTellTable
  BY DEF SessionInv
<1> QED
  BY <1>1, SessionInvariance, PTL

-----------------------------------------------------------------------------
(***************************************************************************)
(* With mode 1 alone the two tables are copies of each other: every entry   *)
(* is active from the step that adds it.                                   *)
(***************************************************************************)
Mirrored ==
  \A i \in Slots :
    /\ viewers[i].code = servers[i].code
    /\ servers[i].active <=> servers[i].code # 0
    /\ viewers[i].active <=> viewers[i].code # 0

LEMMA MirroredOpensWhole ==
  ASSUME Mirrored, NoCodeReused
  PROVE  OpensWhole
<1>1. \A d : Has(servers, d) <=> Has(viewers, d)
  BY DEF Mirrored, Has
<1> QED
  BY <1>1 DEF NoCodeReused, OpensWhole

\* The same operation on two such tables.
Busy(t) == \A i \in Slots : (t[i].active <=> t[i].code # 0)
SameCodes(t, u) == \A i \in Slots : u[i].code = t[i].code

LEMMA OpeningMirrors ==
  ASSUME NEW t \in Tables, NEW u \in Tables, SameCodes(t, u), Busy(t), Busy(u),
         NEW c \in AllCodes, Has(t, 0), ~ Has(t, c)
  PROVE  LET a == setActive(add(t, c), c)
             b == setActive(add(u, c), c)
         IN  SameCodes(a, b) /\ Busy(a) /\ Busy(b)
<1>1. ASSUME NEW v \in Tables, NEW k \in Slots, IsFirst(v, 0, k), ~ Has(v, c), Busy(v)
      PROVE  LET a == setActive(add(v, c), c) IN
             Busy(a) /\ \A i \in Slots : a[i].code = IF i = k THEN c ELSE v[i].code
  <2> DEFINE w == add(v, c)
             a == setActive(w, c)
  <2>1. w = [i \in Slots |-> IF i = k THEN Waiting(c) ELSE v[i]]
    BY <1>1, FirstUnique DEF add, Replace
  <2> HIDE DEF w
  <2>2. w[k] = Waiting(c) /\ \A i \in Slots : i # k => w[i] = v[i] /\ v[i].code # c
    BY <1>1, <2>1 DEF Has
  <2>3. \A i \in Slots : w[i].code = c <=> i = k
    BY <2>2 DEF Waiting
  <2>4. \A i \in Slots : IsFirst(w, c, i) <=> i = k
    BY <2>3, SlotsAreNats DEF IsFirst
  <2>5. \A i \in Slots : a[i] = IF i = k THEN Activated(w[i]) ELSE w[i]
    BY <2>4 DEF setActive
  <2>6. a[k].code = c /\ a[k].active /\ c # 0
    <3>1. a[k] = Activated(Waiting(c))
      BY <2>2, <2>5
    <3>2. Activated(Waiting(c)).code = c /\ Activated(Waiting(c)).active
      BY DEF Activated, Waiting
    <3> HIDE DEF a
    <3> QED
      BY <3>1, <3>2, CodesAreInts
  <2>7. \A i \in Slots : i # k => a[i] = v[i]
    BY <2>2, <2>5
  <2> HIDE DEF a
  <2>8. Busy(a)
    BY <1>1, <2>6, <2>7 DEF Busy
  <2>9. \A i \in Slots : a[i].code = IF i = k THEN c ELSE v[i].code
    BY <2>6, <2>7
  <2> QED
    BY <2>8, <2>9 DEF a, w
<1>2. PICK k \in Slots : IsFirst(t, 0, k)
  BY FirstExists
<1>3. IsFirst(u, 0, k) /\ ~ Has(u, c)
  BY <1>2, SlotsAreNats DEF IsFirst, SameCodes, Has
<1> QED
  BY <1>1, <1>2, <1>3 DEF SameCodes

LEMMA RemovingMirrors ==
  ASSUME NEW t \in Tables, NEW u \in Tables, SameCodes(t, u), Busy(t), Busy(u), NEW c
  PROVE  LET a == remove(t, c)
             b == remove(u, c)
         IN  SameCodes(a, b) /\ Busy(a) /\ Busy(b)
<1>1. \A i \in Slots : IsFirst(u, c, i) <=> IsFirst(t, c, i)
  BY DEF IsFirst, SameCodes
<1> QED
  BY <1>1 DEF remove, Replace, Free, SameCodes, Busy

LEMMA MirroredIs == Mirrored <=> SameCodes(servers, viewers) /\ Busy(servers) /\ Busy(viewers)
BY DEF Mirrored, SameCodes, Busy

LEMMA MirroredNext ==
  ASSUME Mode1Only, IInv, Mirrored, NoCodeReused, [Next]_vars
  PROVE  Mirrored'
<1>1. /\ servers \in Tables /\ viewers \in Tables /\ ind \in Slots
      /\ SameCodes(servers, viewers) /\ Busy(servers) /\ Busy(viewers)
  BY MirroredIs DEF IInv, TypeOK, Tables
<1>2. ASSUME SameCodes(servers', viewers') /\ Busy(servers') /\ Busy(viewers')
      PROVE  Mirrored'
  BY <1>2 DEF Mirrored, SameCodes, Busy
<1>3. CASE UNCHANGED <<servers, viewers>>
  BY <1>3 DEF Mirrored
<1>4. CASE Mode1Connects
  <2>1. NextInventedCode \in AllCodes
    BY InventedIsACode DEF IInv
  <2>2. OpensWhole
    BY MirroredOpensWhole
  <2>3. CASE Has(servers, 0)
    <3>1. /\ viewers' = setActive(add(viewers, NextInventedCode), NextInventedCode)
          /\ servers' = setActive(add(servers, NextInventedCode), NextInventedCode)
          /\ ~ Has(servers, NextInventedCode)
      BY <1>4, <2>2, <2>3 DEF Mode1Connects, OpensWhole
    <3> QED
      BY <1>1, <1>2, <2>1, <2>3, <3>1, OpeningMirrors
  <2>4. CASE ~ Has(servers, 0)
    <3>1. UNCHANGED <<servers, viewers>>
      BY <1>4, <2>2, <2>4 DEF Mode1Connects, OpensWhole
    <3> QED
      BY <1>3, <3>1
  <2> QED
    BY <2>3, <2>4
<1>5. CASE RemoveViewer
  <2>1. ~ connectionRemover(viewers[ind], TRUE)
    BY <1>1 DEF connectionRemover, Busy
  <2> QED
    BY <1>3, <1>5, <2>1 DEF RemoveViewer
<1>6. CASE RemoveServer
  <2>1. ~ connectionRemover(servers[ind], TRUE)
    BY <1>1 DEF connectionRemover, Busy
  <2> QED
    BY <1>3, <1>6, <2>1 DEF RemoveServer
<1>7. CASE Reap
  <2>1. \/ UNCHANGED <<servers, viewers>>
        \/ \E c : servers' = remove(servers, c) /\ viewers' = remove(viewers, c)
    BY <1>7 DEF Reap, cleanUpAfterRepeaterProcExit, tables
  <2> QED
    BY <1>1, <1>2, <1>3, <2>1, RemovingMirrors
<1>8. ASSUME NEW i \in Slots, ServerGoes(i) \/ ViewerGoes(i)
      PROVE  Mirrored'
  <2>1. /\ servers' = servers \/ servers' = [servers EXCEPT ![i].gone = TRUE]
        /\ viewers' = viewers \/ viewers' = [viewers EXCEPT ![i].gone = TRUE]
    BY <1>8 DEF ServerGoes, ViewerGoes
  <2>2. \A j \in Slots : /\ servers'[j].code = servers[j].code
                         /\ servers'[j].active = servers[j].active
                         /\ viewers'[j].code = viewers[j].code
                         /\ viewers'[j].active = viewers[j].active
    BY <1>1, <2>1 DEF Tables, Entries
  <2> QED
    BY <2>2 DEF Mirrored
<1>9. ~ \E c \in Codes : ViewerConnects(c) \/ ServerConnects(c)
  BY DEF Mode1Only, ViewerConnects, ServerConnects
<1>10. CASE \/ Select \/ NobodyConnects \/ Heartbeat \/ HandleEvents \/ Shutdown
            \/ handleSigInt \/ UNCHANGED vars
  BY <1>3, <1>10 DEF Select, NobodyConnects, Heartbeat, HandleEvents, Shutdown, handleSigInt,
     vars, tables
<1>11. ASSUME NEW p \in Pids, NEW how, ChildEnds(p, how)
       PROVE  Mirrored'
  BY <1>3, <1>11 DEF ChildEnds
<1>12. CASE Loop
  BY <1>4, <1>5, <1>6, <1>7, <1>9, <1>10, <1>12 DEF Loop
<1>13. CASE Environment
  BY <1>8, <1>10, <1>11, <1>13 DEF Environment
<1> QED
  BY <1>10, <1>12, <1>13 DEF Next

LEMMA MirroredInit == Init => Mirrored
BY DEF Init, Mirrored, Free

LEMMA Mode1Invariance ==
  ASSUME Mode1Only
  PROVE  Spec /\ [][NoCodeReused]_vars => [](IInv /\ Mirrored)
<1>1. IInv /\ Mirrored /\ [Next]_vars /\ [NoCodeReused]_vars => (IInv /\ Mirrored)'
  <2> SUFFICES ASSUME IInv, Mirrored, [Next]_vars, [NoCodeReused]_vars
               PROVE  IInv' /\ Mirrored'
    OBVIOUS
  <2>1. CASE NoCodeReused
    BY <2>1, MirroredOpensWhole, NextAgrees, MirroredNext
  <2>2. CASE UNCHANGED vars
    BY <2>2, VarsStay DEF vars, tables, Mirrored
  <2> QED
    BY <2>1, <2>2
<1> QED
  BY <1>1, InitAgrees, MirroredInit, PTL DEF Spec

LEMMA Mode1SessionInvariance ==
  ASSUME Mode1Only, NoSignals
  PROVE  Spec /\ [][NoCodeReused]_vars => [](SessionInv /\ Mirrored)
<1>1. SessionInv /\ Mirrored /\ [Next]_vars /\ [NoCodeReused]_vars => (SessionInv /\ Mirrored)'
  <2> SUFFICES ASSUME SessionInv, Mirrored, [Next]_vars, [NoCodeReused]_vars
               PROVE  SessionInv' /\ Mirrored'
    OBVIOUS
  <2>1. IInv
    BY DEF SessionInv
  <2>2. CASE NoCodeReused
    BY <2>1, <2>2, MirroredOpensWhole, SessionStep, MirroredNext
  <2>3. CASE UNCHANGED vars
    <3>1. IInv' /\ SessionParts'
      BY <2>1, <2>3, VarsStay, TablesUntouched DEF vars, tables, events
    <3>2. Mirrored'
      BY <2>3 DEF vars, tables, Mirrored
    <3> QED
      BY <3>1, <3>2 DEF SessionInv, SessionParts
  <2> QED
    BY <2>2, <2>3
<1> QED
  BY <1>1, SessionInit, MirroredInit, PTL DEF Spec

(***************************************************************************)
(* With mode 1 alone the tables agree, too, as long as no session is open   *)
(* when mode1ConnCode has come round to its code: acceptConnection does not *)
(* look whether an invented code is in use.                                *)
(***************************************************************************)
THEOREM Mode1TablesAgree ==
  ASSUME Mode1Only
  PROVE  Spec /\ [][NoCodeReused]_vars => [](TypeOK /\ TablesAgree)
<1>1. IInv => TypeOK /\ TablesAgree
  BY DEF IInv
<1> QED
  BY <1>1, Mode1Invariance, PTL

(***************************************************************************)
(* And each session that the repeater opened has its child, then, if no     *)
(* signal ends one.                                                        *)
(***************************************************************************)
THEOREM Mode1SessionsHaveChildren ==
  ASSUME Mode1Only, NoSignals
  PROVE  Spec /\ [][NoCodeReused]_vars => []ActiveHasChild
BY Mode1SessionInvariance, SessionsAreServed, PTL

(***************************************************************************)
(* With both modes it takes more: a session that acceptConnection opens     *)
(* finds an entry in both tables or in none.  Then the tables agree and the *)
(* ends of mode 2 are paired as Pairing says, whatever mode 1 adds.        *)
(***************************************************************************)
THEOREM BothModesAgree ==
  Spec /\ [][OpensWhole]_vars => [](TypeOK /\ TablesAgree) /\ PairsEnds
<1>1. Init => Ends!Init
  BY InitRefines
<1>2. IInv /\ [Next]_vars /\ [OpensWhole]_vars => [Ends!Next]_(Ends!vars)
  <2> SUFFICES ASSUME IInv, [Next]_vars, [OpensWhole]_vars
               PROVE  [Ends!Next]_(Ends!vars)
    OBVIOUS
  <2>1. TablesStep
    <3>1. CASE OpensWhole
      BY <3>1, NextAgrees
    <3>2. CASE UNCHANGED vars
      BY <3>2, TablesStay DEF vars
    <3> QED
      BY <3>1, <3>2
  <2> QED
    BY <2>1, StepRefines
<1>3. IInv => TypeOK /\ TablesAgree
  BY DEF IInv
<1> QED
  BY <1>1, <1>2, <1>3, WholeInvariance, PTL DEF Spec, PairsEnds, Ends!Spec
=============================================================================
