-------------------------- MODULE SlotStoreProofs --------------------------
(***************************************************************************)
(* Proofs about SlotStore, for any disks, slots and writers, any number of *)
(* transactions, indexes and disk tasks.                                   *)
(***************************************************************************)
EXTENDS SlotStore, FiniteSetTheorems, TLAPS

InTransaction == {"begun", "chosen", "locked"}
Writing == {"mkdir", "open", "write", "link"}

\* The slot that OLDEST_SLOT_Q gave to writer w is still the oldest of its disk.
Oldest(w) ==
    /\ slot[w] \in Slot /\ DiskOf[slot[w]] = disk[w]
    /\ \A r \in Slot : DiskOf[r] = disk[w] =>
          used[slot[w]] < used[r] \/ (used[slot[w]] = used[r] /\ slot[w] <= r)

\* What a writer has in hand, at each of its places.
HandOK(w) ==
    /\ pc[w] \in InTransaction => stamp[w] \in Nat \ {0}
    /\ pc[w] \in {"chosen", "locked"} => disk[w] \in Disk
    /\ pc[w] = "locked" => lock[disk[w]] = w /\ Oldest(w)
    /\ pc[w] \in Writing \cup {"ready"} => slot[w] \in Slot /\ idx[w] \in 1..lastId

\* A slot has a time exactly if it was given to an index.
TimesOK == \A s \in Slot : used[s] = 0 <=> taken[s] = 0

\* The search has an index in hand.
SearchOK == search.step # "none" => search.id \in Id

TxnInv == (\A w \in Writer : HandOK(w)) /\ TimesOK /\ SearchOK

-----------------------------------------------------------------------------
\* How far the writers that have chosen disk d may still raise its usage.
Pending(d) == {w \in Writer : pc[w] \in {"chosen", "locked"} /\ disk[w] = d}

\* No disk ran ahead, what is pending included, as long as no disk came back.
BalanceInv ==
    /\ toggles = 0 => operator = None /\ Active = Disk
    /\ toggles = 1 /\ operator # None => operator.mode = "DISABLED"
    /\ toggles < 2 => \A d, e \in Active :
          usage[d] + Cardinality(Pending(d)) * UsageInc[d]
              <= usage[e] + Cardinality(Writer) * UsageInc[d]

-----------------------------------------------------------------------------
\* A slot belongs to one index, and what belongs to an index is no business of
\* clean_indexes.
SlotsOK ==
    /\ \A i, j \in Id : slotOf[i] = slotOf[j] /\ slotOf[i] # None => i = j
    /\ \A i \in Id : slotOf[i] # None => i \in rows /\ ~expired[i] /\ i \notin work /\ i # item

\* An index without a row is neither ready nor expired, and clean_indexes has rows in
\* hand that are there.
RowsOK ==
    /\ \A i \in Id : i \notin rows => ~ready[i] /\ ~expired[i]
    /\ work \subseteq rows
    /\ item # None => item \in rows /\ item \notin work /\ cleaner = "delete"

\* Each writer writes an index of its own.
OwnIndex ==
    \A v, w \in Writer :
        pc[v] \in Writing \cup {"ready"} /\ pc[w] \in Writing \cup {"ready"} /\ idx[v] = idx[w] => v = w

RowsInv == SlotsOK /\ RowsOK /\ OwnIndex

\* The index is on the disk with all that belongs to it.
Stored(i) ==
    /\ i \in dir /\ data[slotOf[i]] = {i}
    /\ link[i] = IF unlinked[i] THEN None ELSE slotOf[i]

\* What writer w has done by now.
ProgressOK(w) ==
    /\ pc[w] \in Writing => slotOf[idx[w]] = slot[w] /\ ~ready[idx[w]]
    /\ pc[w] = "write" => data[slot[w]] = {}
    /\ pc[w] = "link" => data[slot[w]] = {idx[w]}
    /\ pc[w] = "ready" /\ slotOf[idx[w]] # None => Stored(idx[w])

FilesOK ==
    /\ \A i \in Id : ready[i] /\ slotOf[i] # None => Stored(i)
    /\ \A w \in Writer : ProgressOK(w)
    /\ dir \subseteq rows
    /\ item \notin dir

FilesInv == ~lapped => FilesOK

-----------------------------------------------------------------------------
(***************************************************************************)
(* Types, and what the writers have in hand.                               *)
(***************************************************************************)
LEMMA InitOK == ASSUME Init PROVE TypeOK /\ TxnInv
<1> USE StoreAssumption DEF Init, Id
<1>1. TypeOK
  <2>1. /\ ready \in [Id -> BOOLEAN] /\ expired \in [Id -> BOOLEAN] /\ sawReady \in [Id -> BOOLEAN]
        /\ lapped \in BOOLEAN
    BY Zenon
  <2> QED
    BY <2>1 DEF TypeOK, NoSearch
<1>2. TxnInv
  BY DEF TxnInv, HandOK, TimesOK, SearchOK, NoSearch, InTransaction, Writing
<1> QED
  BY <1>1, <1>2

\* A directory is one of finitely many indexes.
LEMMA DirFinite == ASSUME dir \subseteq Id PROVE Cardinality(dir) \in Nat
<1>1. IsFiniteSet(Id)
  BY StoreAssumption, FS_Interval DEF Id
<1> QED
  BY <1>1, FS_Subset, FS_CardinalityType

LEMMA HandTypes ==
  ASSUME TypeOK, TxnInv, NEW w \in Writer, pc[w] \in Writing \cup {"ready"}
  PROVE  slot[w] \in Slot /\ idx[w] \in Id /\ idx[w] \in 1..lastId
<1>1. slot[w] \in Slot /\ idx[w] \in 1..lastId
  BY DEF TxnInv, HandOK
<1> QED
  BY <1>1, StoreAssumption DEF TypeOK, Id

\* Index rows have ids.
LEMMA RowIds == ASSUME TypeOK PROVE rows \subseteq Id
BY StoreAssumption DEF TypeOK, Id

LEMMA WriterTypes ==
  ASSUME TypeOK, TxnInv, NEW w \in Writer, WriterStep(w)
  PROVE  TypeOK'
<1> USE StoreAssumption DEF Goto, Leave, Unlocked, allocVars, diskVars, rowVars, fileVars,
        writerVars, cleanerVars, otherVars
<1>0. HandOK(w)
  BY DEF TxnInv
<1>1. CASE Begin(w)
  BY <1>1 DEF Begin, TypeOK
<1>2. CASE NextDisk(w)
  BY <1>2 DEF NextDisk, Active, TypeOK
<1>3. CASE IncUsage(w)
  BY <1>3 DEF IncUsage, TypeOK
<1>4. ASSUME Committed(w)
      PROVE  /\ usage' \in [Disk -> Nat] /\ used' \in [Slot -> Nat] /\ lastId' \in 1..MaxIndex
             /\ rows' \subseteq 1..lastId' /\ slotOf' \in [Id -> Slot \cup {None}]
             /\ lock' \in [Disk -> Writer \cup {None}] /\ taken' \in [Slot -> 0..MaxIndex]
             /\ lapped' \in BOOLEAN
  <2>1. /\ slot[w] \in Slot /\ disk[w] \in Disk /\ stamp[w] \in Nat /\ lastId' = lastId + 1
        /\ lastId' \in Id
    BY <1>4, <1>0 DEF HandOK, Oldest, Committed, TypeOK, Id, InTransaction
  <2>2. slotOf' \in [Id -> Slot \cup {None}]
    BY <1>4, <2>1 DEF Committed, ClearIndexRec, TypeOK
  <2>3. usage' \in [Disk -> Nat]
    BY <1>4, <2>1 DEF Committed, TypeOK
  <2>4. lapped' \in BOOLEAN
    BY <1>4, Zenon DEF Committed
  <2> QED
    BY <1>4, <2>1, <2>2, <2>3, <2>4 DEF Committed, TypeOK, Id
<1>5. CASE Commit(w)
  <2>1. Committed(w) /\ lastId' \in 1..MaxIndex /\ idx' = [idx EXCEPT ![w] = lastId']
    BY <1>5, <1>4 DEF Commit
  <2>2. idx' \in [Writer -> Id \cup {None}]
    BY <2>1 DEF TypeOK, Id
  <2>3. /\ pc' = [pc EXCEPT ![w] = "mkdir"] /\ stamp' = [stamp EXCEPT ![w] = 0]
        /\ disk' = [disk EXCEPT ![w] = None] /\ slot' = slot
    BY <1>5 DEF Commit
  <2> QED
    BY <2>1, <2>2, <2>3, <1>4 DEF Committed, TypeOK
<1>6. CASE CommitLost(w)
  BY <1>6, <1>4 DEF CommitLost, Committed, TypeOK
<1>7. CASE RollBack(w)
  BY <1>7 DEF RollBack, TypeOK
<1>8. CASE MkDir(w)
  <2>1. idx[w] \in Id
    BY <1>8, HandTypes DEF MkDir, Writing
  <2> QED
    BY <1>8, <2>1 DEF MkDir, TypeOK
<1>9. CASE FcapOpen(w)
  BY <1>9 DEF FcapOpen, TypeOK
<1>10. CASE WriteFlows(w)
  <2>1. idx[w] \in Id /\ slot[w] \in Slot
    BY <1>10, HandTypes DEF WriteFlows, Writing
  <2>2. data' \in [Slot -> SUBSET Id]
    BY <1>10, <2>1 DEF WriteFlows, TypeOK
  <2> QED
    BY <1>10, <2>2 DEF WriteFlows, TypeOK
<1>11. CASE WriteIndexes(w)
  BY <1>11 DEF WriteIndexes, TypeOK
<1>12. CASE IoError(w)
  BY <1>12 DEF IoError, TypeOK
<1>13. CASE SetIndexReady(w)
  <2>1. ready' \in [Id -> BOOLEAN]
    <3>1. CASE UNCHANGED ready
      BY <3>1 DEF TypeOK
    <3>2. CASE ready' = [ready EXCEPT ![idx[w]] = idx[w] \in rows]
      <4>1. (idx[w] \in rows) \in BOOLEAN
        OBVIOUS
      <4>2. \A b \in BOOLEAN : [ready EXCEPT ![idx[w]] = b] \in [Id -> BOOLEAN]
        BY DEF TypeOK
      <4> QED
        BY <3>2, <4>1, <4>2, Zenon
    <3> QED
      BY <1>13, <3>1, <3>2 DEF SetIndexReady
  <2> QED
    BY <1>13, <2>1 DEF SetIndexReady, TypeOK
<1> QED
  BY <1>1, <1>2, <1>3, <1>5, <1>6, <1>7, <1>8, <1>9, <1>10, <1>11, <1>12, <1>13 DEF WriterStep

LEMMA OtherTypes ==
  ASSUME TypeOK, TxnInv,
         Crash \/ CleanerStep \/ (\E d \in Toggled : LoadDisk(d)) \/ SaveDisk
         \/ (\E i \in InSpan : SelectIndex(i)) \/ FetchPackets \/ SearchEnd \/ UNCHANGED vars
  PROVE  TypeOK'
<1> USE StoreAssumption DEF Leave, allocVars, diskVars, rowVars, fileVars, writerVars,
        cleanerVars, otherVars, storeVars, restVars, noSearchVars
<1>1. CASE Crash
  BY <1>1 DEF Crash, TypeOK
<1>2. CASE CleanStart
  <2>1. work' \subseteq Id
    BY <1>2, RowIds DEF CleanStart
  <2> QED
    BY <1>2, <2>1 DEF CleanStart, TypeOK
<1>3. CASE RemoveDir
  BY <1>3 DEF RemoveDir, TypeOK
<1>4. CASE RemoveRow
  BY <1>4 DEF RemoveRow, TypeOK
<1>5. CASE CleanMeasure
  <2>1. free' \in Nat
    <3>1. Cardinality(dir) \in Nat
      BY DirFinite DEF TypeOK
    <3> QED
      BY <1>5, <3>1 DEF CleanMeasure
  <2>2. sawReady' \in [Id -> BOOLEAN]
    BY <1>5, Zenon DEF CleanMeasure
  <2>3. work' \subseteq Id
    BY <1>5, RowIds DEF CleanMeasure, Expirable
  <2> QED
    BY <1>5, <2>1, <2>2, <2>3 DEF CleanMeasure, TypeOK
<1>6. CASE Expire
  BY <1>6 DEF Expire, TypeOK
<1>7. CASE CleanEnd
  BY <1>7 DEF CleanEnd, TypeOK
<1>8. ASSUME NEW d \in Toggled, LoadDisk(d) PROVE TypeOK'
  BY <1>8 DEF LoadDisk, TypeOK
<1>9. CASE SaveDisk
  BY <1>9 DEF SaveDisk, TypeOK
<1>10. ASSUME NEW i \in InSpan, SelectIndex(i) PROVE TypeOK'
  BY <1>10 DEF SelectIndex, TypeOK
<1>11. CASE FetchPackets
  BY <1>11 DEF FetchPackets, NoSearch, TypeOK
<1>12. CASE SearchEnd
  BY <1>12 DEF SearchEnd, NoSearch, TypeOK
<1>13. CASE UNCHANGED vars
  BY <1>13 DEF vars, TypeOK
<1> QED
  BY <1>1, <1>2, <1>3, <1>4, <1>5, <1>6, <1>7, <1>8, <1>9, <1>10, <1>11, <1>12, <1>13 DEF CleanerStep

-----------------------------------------------------------------------------
\* A step that leaves a writer alone, does not touch the times of the slots of the
\* disk it has locked, nor that lock, and takes back no id, keeps what is in its hand.
LEMMA HandFrame ==
  ASSUME TypeOK, NEW v \in Writer, HandOK(v),
         pc'[v] = pc[v], stamp'[v] = stamp[v], disk'[v] = disk[v], idx'[v] = idx[v], slot'[v] = slot[v],
         lastId' \in Nat, lastId <= lastId',
         pc[v] = "locked" => /\ lock'[disk[v]] = lock[disk[v]]
                             /\ \A r \in Slot : DiskOf[r] = disk[v] => used'[r] = used[r]
  PROVE  HandOK(v)'
<1>1. lastId \in Nat
  BY StoreAssumption DEF TypeOK
<1>2. ASSUME pc[v] = "locked" PROVE lock'[disk'[v]] = v /\ Oldest(v)'
  BY <1>2 DEF HandOK, Oldest
<1> QED
  BY <1>1, <1>2 DEF HandOK

\* A writer that has nothing in hand.
LEMMA HandIdle == ASSUME NEW v \in Writer, pc'[v] = "idle" PROVE HandOK(v)'
BY DEF HandOK, InTransaction, Writing

LEMMA WriterHands ==
  ASSUME TypeOK, TxnInv, NEW w \in Writer, WriterStep(w)
  PROVE  TxnInv'
<1> USE DEF allocVars, diskVars, rowVars, fileVars, writerVars, cleanerVars, otherVars
<1>0. HandOK(w) /\ \A v \in Writer : HandOK(v)
  BY DEF TxnInv
<1>a. \A v \in Writer \ {w} : /\ pc'[v] = pc[v] /\ stamp'[v] = stamp[v] /\ disk'[v] = disk[v]
                              /\ idx'[v] = idx[v] /\ slot'[v] = slot[v]
  <2> USE DEF Goto, Leave, TypeOK
  <2>1. CASE Begin(w) \/ NextDisk(w) \/ IncUsage(w) \/ Commit(w) \/ CommitLost(w) \/ RollBack(w)
    BY <2>1 DEF Begin, NextDisk, IncUsage, Commit, CommitLost, RollBack
  <2>2. CASE MkDir(w) \/ FcapOpen(w) \/ WriteFlows(w) \/ WriteIndexes(w) \/ IoError(w) \/ SetIndexReady(w)
    BY <2>2 DEF MkDir, FcapOpen, WriteFlows, WriteIndexes, IoError, SetIndexReady
  <2> QED
    BY <2>1, <2>2 DEF WriterStep
<1>b. lastId \in Nat
  BY StoreAssumption DEF TypeOK
<1>c. SearchOK'
  BY DEF WriterStep, Begin, NextDisk, IncUsage, Commit, CommitLost, Committed, RollBack, MkDir,
         FcapOpen, WriteFlows, WriteIndexes, IoError, SetIndexReady, SearchOK, TxnInv
<1>d. ASSUME UNCHANGED <<used, lastId, taken>>, HandOK(w)',
             \A v \in Writer \ {w} : pc[v] = "locked" => lock'[disk[v]] = lock[disk[v]]
      PROVE  TxnInv'
  <2>1. \A v \in Writer \ {w} : HandOK(v)'
    BY <1>0, <1>a, <1>b, <1>d, HandFrame
  <2>2. TimesOK'
    BY <1>d DEF TxnInv, TimesOK
  <2> QED
    BY <2>1, <2>2, <1>c, <1>d DEF TxnInv
<1>1. CASE Begin(w)
  <2>1. pc'[w] = "begun" /\ stamp'[w] \in Nat \ {0}
    BY <1>1, StoreAssumption DEF Begin, Goto, TypeOK
  <2>2. HandOK(w)'
    BY <2>1 DEF HandOK, Writing
  <2> QED
    BY <1>1, <2>2, <1>d DEF Begin
<1>2. CASE NextDisk(w)
  <2>1. pc'[w] = "chosen" /\ stamp'[w] = stamp[w] /\ disk'[w] \in Disk
    BY <1>2 DEF NextDisk, Active, Goto, TypeOK
  <2>2. HandOK(w)'
    BY <1>0, <1>2, <2>1 DEF NextDisk, HandOK, Writing, InTransaction
  <2> QED
    BY <1>2, <2>2, <1>d DEF NextDisk
<1>3. CASE IncUsage(w)
  <2>1. pc'[w] = "locked" /\ stamp'[w] = stamp[w] /\ disk'[w] = disk[w] /\ disk[w] \in Disk
    BY <1>0, <1>3 DEF IncUsage, Goto, TypeOK, HandOK
  <2>2. lock' = [lock EXCEPT ![disk[w]] = w] /\ lock[disk[w]] = None
    BY <1>3 DEF IncUsage
  <2>3. Oldest(w)'
    BY <1>3, <2>1 DEF IncUsage, Oldest, TypeOK
  <2>4. HandOK(w)'
    BY <1>0, <1>3, <2>1, <2>2, <2>3 DEF IncUsage, HandOK, Writing, InTransaction, TypeOK
  <2>5. ASSUME NEW v \in Writer \ {w}, pc[v] = "locked" PROVE lock'[disk[v]] = lock[disk[v]]
    <3>1. lock[disk[v]] = v /\ disk[v] \in Disk
      BY <1>0, <2>5 DEF HandOK
    <3>2. disk[v] # disk[w]
      BY <3>1, <2>2, StoreAssumption
    <3> QED
      BY <2>2, <3>2, <3>1 DEF TypeOK
  <2> QED
    BY <1>3, <2>4, <2>5, <1>d DEF IncUsage
<1>4. ASSUME Committed(w), HandOK(w)' PROVE TxnInv'
  <2>1. /\ pc[w] = "locked" /\ lock[disk[w]] = w /\ disk[w] \in Disk /\ slot[w] \in Slot
        /\ DiskOf[slot[w]] = disk[w] /\ stamp[w] \in Nat \ {0}
    BY <1>0, <1>4 DEF Committed, HandOK, Oldest, InTransaction
  <2>2. /\ used' = [used EXCEPT ![slot[w]] = stamp[w]] /\ lastId' = lastId + 1
        /\ taken' = [taken EXCEPT ![slot[w]] = lastId + 1] /\ lock' = Unlocked(w)
    BY <1>4 DEF Committed
  <2>3. ASSUME NEW v \in Writer \ {w}, pc[v] = "locked"
        PROVE  /\ lock'[disk[v]] = lock[disk[v]]
               /\ \A r \in Slot : DiskOf[r] = disk[v] => used'[r] = used[r]
    <3>1. lock[disk[v]] = v /\ disk[v] \in Disk
      BY <1>0, <2>3 DEF HandOK
    <3>2. disk[v] # disk[w]
      BY <3>1, <2>1
    <3> QED
      BY <2>1, <2>2, <3>1, <3>2 DEF Unlocked, TypeOK
  <2>4. \A v \in Writer \ {w} : HandOK(v)'
    BY <1>0, <1>a, <1>b, <2>2, <2>3, HandFrame
  <2>5. TimesOK'
    BY <1>b, <2>1, <2>2 DEF TxnInv, TimesOK, TypeOK
  <2> QED
    BY <2>4, <2>5, <1>4, <1>c DEF TxnInv
<1>5. CASE Commit(w)
  <2>1. pc'[w] = "mkdir" /\ slot'[w] = slot[w] /\ idx'[w] = lastId' /\ lastId' = lastId + 1
    BY <1>5 DEF Commit, Committed, Goto, TypeOK
  <2>2. slot[w] \in Slot
    BY <1>0, <1>5 DEF Commit, Committed, HandOK, Oldest
  <2>3. HandOK(w)'
    BY <2>1, <2>2, <1>b DEF HandOK, InTransaction
  <2> QED
    BY <2>3, <1>4, <1>5 DEF Commit
<1>6. CASE CommitLost(w)
  BY <1>4, <1>6, HandIdle DEF CommitLost, Leave
<1>7. CASE RollBack(w)
  <2>1. ASSUME NEW v \in Writer \ {w}, pc[v] = "locked" PROVE lock'[disk[v]] = lock[disk[v]]
    BY <1>0, <1>7, <2>1 DEF RollBack, Unlocked, HandOK
  <2> QED
    BY <1>7, <1>d, <2>1, HandIdle DEF RollBack, Leave
<1>8. CASE MkDir(w) \/ FcapOpen(w) \/ WriteFlows(w) \/ WriteIndexes(w)
  <2>1. /\ pc[w] \in Writing /\ pc'[w] \in {"open", "write", "link", "ready"}
        /\ idx'[w] = idx[w] /\ slot'[w] = slot[w]
        /\ UNCHANGED <<used, lastId, taken, lock>>
    BY <1>8 DEF MkDir, FcapOpen, WriteFlows, WriteIndexes, Goto, Writing, TypeOK
  <2>2. HandOK(w)'
    BY <1>0, <2>1 DEF HandOK, InTransaction, Writing
  <2> QED
    BY <2>1, <2>2, <1>d
<1>9. CASE IoError(w) \/ SetIndexReady(w)
  BY <1>9, <1>d, HandIdle DEF IoError, SetIndexReady, Leave
<1> QED
  BY <1>1, <1>2, <1>3, <1>5, <1>6, <1>7, <1>8, <1>9 DEF WriterStep

LEMMA OtherHands ==
  ASSUME TypeOK, TxnInv,
         Crash \/ CleanerStep \/ (\E d \in Toggled : LoadDisk(d)) \/ SaveDisk
         \/ (\E i \in InSpan : SelectIndex(i)) \/ FetchPackets \/ SearchEnd \/ UNCHANGED vars
  PROVE  TxnInv'
<1> USE DEF allocVars, diskVars, rowVars, fileVars, writerVars, cleanerVars, otherVars,
        storeVars, restVars, noSearchVars
<1>1. CASE Crash
  <2>1. \A v \in Writer : HandOK(v)'
    BY <1>1, HandIdle DEF Crash, Leave
  <2> QED
    BY <1>1, <2>1 DEF Crash, TxnInv, TimesOK, SearchOK
<1>2. ASSUME UNCHANGED <<used, lastId, taken, lock, writerVars>>, SearchOK' PROVE TxnInv'
  BY <1>2 DEF TxnInv, HandOK, Oldest, TimesOK
<1>3. CASE CleanerStep
  BY <1>2, <1>3 DEF CleanerStep, CleanStart, RemoveDir, RemoveRow, CleanMeasure, Expire, CleanEnd,
                    TxnInv, SearchOK
<1>4. CASE (\E d \in Toggled : LoadDisk(d)) \/ SaveDisk
  BY <1>2, <1>4 DEF LoadDisk, SaveDisk, TxnInv, SearchOK
<1>5. CASE (\E i \in InSpan : SelectIndex(i)) \/ FetchPackets \/ SearchEnd
  <2>1. SearchOK'
    <3>1. CASE \E i \in InSpan : SelectIndex(i)
      BY <3>1, RowIds DEF SelectIndex, SearchOK
    <3>2. CASE FetchPackets
      BY <3>2 DEF FetchPackets, NoSearch, SearchOK, TxnInv, TypeOK
    <3>3. CASE SearchEnd
      BY <3>3 DEF SearchEnd, NoSearch, SearchOK
    <3> QED
      BY <1>5, <3>1, <3>2, <3>3
  <2> QED
    BY <1>2, <1>5, <2>1 DEF SelectIndex, FetchPackets, SearchEnd
<1>6. CASE UNCHANGED vars
  BY <1>2, <1>6 DEF vars, TxnInv, SearchOK
<1> QED
  BY <1>1, <1>3, <1>4, <1>5, <1>6

\* The two kinds of steps of Next.
LEMMA Steps ==
  ASSUME [Next]_vars
  PROVE  \/ \E w \in Writer : WriterStep(w)
         \/ Crash \/ CleanerStep \/ (\E d \in Toggled : LoadDisk(d)) \/ SaveDisk
            \/ (\E i \in InSpan : SelectIndex(i)) \/ FetchPackets \/ SearchEnd \/ UNCHANGED vars
BY DEF Next

\* The variables of database, files and processes keep their types
\* (output.c:736-888, maint.py:17-66, disk_management.py:734-758).
THEOREM TypeCorrect == Spec => []TypeOK
<1>1. Init => TypeOK /\ TxnInv
  BY InitOK
<1>2. TypeOK /\ TxnInv /\ [Next]_vars => (TypeOK /\ TxnInv)'
  BY Steps, WriterTypes, WriterHands, OtherTypes, OtherHands
<1> QED
  BY <1>1, <1>2, PTL DEF Spec

\* No slot is overwritten while another one of its disk was never used, whatever
\* transactions are open at the time (output.c:749-750, 785-799).
THEOREM FreshSlotsFirst == Spec => FreshFirst
<1>1. Init => TypeOK /\ TxnInv
  BY InitOK
<1>2. TypeOK /\ TxnInv /\ [Next]_vars => (TypeOK /\ TxnInv)'
  BY Steps, WriterTypes, WriterHands, OtherTypes, OtherHands
<1>3. ASSUME TypeOK, TxnInv, [Next]_vars, NEW s \in Slot, NEW r \in Slot,
             taken'[s] # taken[s], taken[s] # 0, DiskOf[r] = DiskOf[s]
      PROVE  taken[r] # 0
  <2> USE DEF allocVars, diskVars, rowVars, fileVars, writerVars, cleanerVars, otherVars,
          storeVars, restVars, noSearchVars
  <2>1. PICK w \in Writer : Committed(w)
    <3>1. CASE \E w \in Writer : WriterStep(w)
      BY <1>3, <3>1 DEF WriterStep, Begin, NextDisk, IncUsage, Commit, CommitLost, RollBack, MkDir,
            FcapOpen, WriteFlows, WriteIndexes, IoError, SetIndexReady
    <3>2. CASE Crash \/ CleanerStep
      BY <1>3, <3>2 DEF Crash, CleanerStep, CleanStart, RemoveDir, RemoveRow, CleanMeasure, Expire, CleanEnd
    <3>3. CASE (\E d \in Toggled : LoadDisk(d)) \/ SaveDisk \/ (\E i \in InSpan : SelectIndex(i))
               \/ FetchPackets \/ SearchEnd \/ UNCHANGED vars
      BY <1>3, <3>3 DEF LoadDisk, SaveDisk, SelectIndex, FetchPackets, SearchEnd, vars
    <3> QED
      BY <1>3, <3>1, <3>2, <3>3 DEF Next
  <2>2. s = slot[w] /\ pc[w] = "locked"
    BY <1>3, <2>1 DEF Committed, TypeOK
  <2>3. used[s] <= used[r] /\ used[s] # 0
    <3>1. Oldest(w) /\ TimesOK
      BY <1>3, <2>2 DEF TxnInv, HandOK
    <3> QED
      BY <1>3, <2>2, <3>1 DEF Oldest, TimesOK, TypeOK
  <2> QED
    <3>1. used[s] \in Nat /\ used[r] \in Nat
      BY <1>3 DEF TypeOK
    <3>2. used[r] # 0
      BY <2>3, <3>1
    <3> QED
      BY <1>3, <3>2 DEF TxnInv, TimesOK
<1>4. TypeOK /\ TxnInv /\ [Next]_vars =>
        [\A s, r \in Slot :
            taken'[s] # taken[s] /\ taken[s] # 0 /\ DiskOf[r] = DiskOf[s] => taken[r] # 0]_vars
  BY <1>3
<1> QED
  BY <1>1, <1>2, <1>4, PTL DEF Spec, FreshFirst

-----------------------------------------------------------------------------
(***************************************************************************)
(* Index rows and their slots.                                             *)
(***************************************************************************)
LEMMA InitRows == ASSUME Init PROVE RowsInv
BY DEF Init, RowsInv, SlotsOK, RowsOK, OwnIndex, Writing

\* A commit makes a row that there was not, for a slot it takes from all others.
LEMMA CommitRows ==
  ASSUME TypeOK, TxnInv, SlotsOK, RowsOK, NEW w \in Writer, Committed(w)
  PROVE  SlotsOK' /\ RowsOK'
<1> DEFINE n == lastId + 1
<1>1. n \in Id /\ n \notin rows
  BY StoreAssumption DEF Committed, TypeOK, Id
<1>2. slot[w] \in Slot /\ slot[w] # None
  BY StoreAssumption DEF Committed, TxnInv, HandOK, Oldest
<1>3. /\ rows' = rows \cup {n} /\ UNCHANGED <<ready, expired, work, item, cleaner>>
      /\ slotOf' = [ClearIndexRec(slot[w]) EXCEPT ![n] = slot[w]]
  BY DEF Committed, otherVars, cleanerVars
<1>4. slotOf' = [i \in Id |-> IF i = n THEN slot[w] ELSE IF slotOf[i] = slot[w] THEN None ELSE slotOf[i]]
  BY <1>1, <1>3 DEF ClearIndexRec
<1> HIDE DEF n
<1>5. ~ready[n] /\ ~expired[n] /\ n \notin work /\ n # item
  BY <1>1, StoreAssumption DEF RowsOK
<1>6. SlotsOK'
  BY <1>1, <1>2, <1>3, <1>4, <1>5 DEF SlotsOK
<1>7. RowsOK'
  BY <1>1, <1>3, <1>5 DEF RowsOK
<1> QED
  BY <1>6, <1>7

\* set_index_ready changes the flag of the writer's own index, and only if it has a row.
LEMMA ReadySet ==
  ASSUME TypeOK, NEW w \in Writer, SetIndexReady(w), NEW i \in Id
  PROVE  ready'[i] = ready[i] \/ (i = idx[w] /\ (ready'[i] <=> i \in rows))
<1>1. CASE UNCHANGED ready
  BY <1>1
<1>2. CASE ready' = [ready EXCEPT ![idx[w]] = idx[w] \in rows]
  <2>1. DOMAIN ready = Id
    BY DEF TypeOK
  <2>2. CASE i = idx[w]
    BY <1>2, <2>1, <2>2, Zenon
  <2>3. CASE i # idx[w]
    BY <1>2, <2>1, <2>3
  <2> QED
    BY <2>2, <2>3
<1> QED
  BY <1>1, <1>2 DEF SetIndexReady

LEMMA WriterRows ==
  ASSUME TypeOK, TxnInv, RowsInv, NEW w \in Writer, WriterStep(w)
  PROVE  RowsInv'
<1> USE DEF allocVars, diskVars, rowVars, fileVars, writerVars, cleanerVars, otherVars, Goto, Leave
<1>1. CASE Commit(w)
  <2>1. SlotsOK' /\ RowsOK'
    BY <1>1, CommitRows DEF Commit, RowsInv
  <2>2. /\ pc' = [pc EXCEPT ![w] = "mkdir"] /\ idx' = [idx EXCEPT ![w] = lastId + 1]
    BY <1>1 DEF Commit, Committed
  <2>3. \A v \in Writer : pc[v] \in Writing \cup {"ready"} => idx[v] # lastId + 1
    BY HandTypes, StoreAssumption DEF TypeOK
  <2>4. OwnIndex'
    BY <2>2, <2>3 DEF OwnIndex, RowsInv, TypeOK
  <2> QED
    BY <2>1, <2>4 DEF RowsInv
<1>2. CASE CommitLost(w)
  <2>1. SlotsOK' /\ RowsOK'
    BY <1>2, CommitRows DEF CommitLost, RowsInv
  <2>2. OwnIndex'
    BY <1>2 DEF CommitLost, OwnIndex, RowsInv, Writing
  <2> QED
    BY <2>1, <2>2 DEF RowsInv
<1>3. CASE SetIndexReady(w)
  <2>1. OwnIndex'
    BY <1>3 DEF SetIndexReady, OwnIndex, RowsInv, Writing
  <2>2. \A i \in Id : i \notin rows => ready'[i] = ready[i] \/ ~ready'[i]
    BY <1>3, ReadySet
  <2>3. RowsOK'
    BY <1>3, <2>2 DEF SetIndexReady, RowsOK, RowsInv
  <2>4. SlotsOK'
    BY <1>3 DEF SetIndexReady, SlotsOK, RowsInv
  <2> QED
    BY <2>1, <2>3, <2>4 DEF RowsInv
<1>4. ASSUME UNCHANGED <<rowVars, cleanerVars, idx>>,
             \A v \in Writer : pc'[v] \in Writing \cup {"ready"} => pc[v] \in Writing \cup {"ready"}
      PROVE  RowsInv'
  BY <1>4 DEF RowsInv, SlotsOK, RowsOK, OwnIndex
<1>5. CASE Begin(w) \/ NextDisk(w) \/ IncUsage(w)
  BY <1>4, <1>5 DEF Begin, NextDisk, IncUsage, TypeOK, Writing
<1>6. CASE RollBack(w) \/ IoError(w)
  BY <1>6 DEF RollBack, IoError, RowsInv, SlotsOK, RowsOK, OwnIndex, Writing
<1>7. CASE MkDir(w) \/ FcapOpen(w) \/ WriteFlows(w) \/ WriteIndexes(w)
  BY <1>4, <1>7 DEF MkDir, FcapOpen, WriteFlows, WriteIndexes, TypeOK, Writing
<1> QED
  BY <1>1, <1>2, <1>3, <1>5, <1>6, <1>7 DEF WriterStep

LEMMA OtherRows ==
  ASSUME TypeOK, RowsInv,
         Crash \/ CleanerStep \/ (\E d \in Toggled : LoadDisk(d)) \/ SaveDisk
         \/ (\E i \in InSpan : SelectIndex(i)) \/ FetchPackets \/ SearchEnd \/ UNCHANGED vars
  PROVE  RowsInv'
<1> USE DEF allocVars, diskVars, rowVars, fileVars, writerVars, cleanerVars, otherVars,
        storeVars, restVars, noSearchVars
<1>0. None \notin Id
  BY StoreAssumption
<1>1. CASE Crash
  BY <1>1 DEF Crash, Leave, RowsInv, SlotsOK, RowsOK, OwnIndex, Writing
<1>2. ASSUME UNCHANGED <<pc, idx>>, SlotsOK', RowsOK' PROVE RowsInv'
  BY <1>2 DEF RowsInv, OwnIndex
<1>3. CASE CleanStart
  <2>1. SlotsOK' /\ RowsOK'
    BY <1>0, <1>3 DEF CleanStart, RowsInv, SlotsOK, RowsOK
  <2> QED
    BY <1>2, <1>3, <2>1 DEF CleanStart
<1>4. CASE RemoveDir
  <2>1. SlotsOK' /\ RowsOK'
    BY <1>0, <1>4 DEF RemoveDir, RowsInv, SlotsOK, RowsOK, TypeOK
  <2> QED
    BY <1>2, <1>4, <2>1 DEF RemoveDir
<1>5. CASE RemoveRow
  <2>1. SlotsOK'
    BY <1>0, <1>5 DEF RemoveRow, RowsInv, SlotsOK, RowsOK, TypeOK
  <2>2. RowsOK'
    BY <1>0, <1>5 DEF RemoveRow, RowsInv, RowsOK, TypeOK
  <2> QED
    BY <1>2, <1>5, <2>1, <2>2 DEF RemoveRow
<1>6. CASE CleanMeasure
  <2>1. SlotsOK' /\ RowsOK'
    BY <1>0, <1>6 DEF CleanMeasure, Expirable, RowsInv, SlotsOK, RowsOK
  <2> QED
    BY <1>2, <1>6, <2>1 DEF CleanMeasure
<1>7. CASE Expire
  <2>1. SlotsOK'
    BY <1>0, <1>7 DEF Expire, RowsInv, SlotsOK, RowsOK, TypeOK
  <2>2. RowsOK'
    BY <1>0, <1>7 DEF Expire, RowsInv, RowsOK, TypeOK
  <2> QED
    BY <1>2, <1>7, <2>1, <2>2 DEF Expire
<1>8. CASE CleanEnd
  <2>1. SlotsOK' /\ RowsOK'
    BY <1>0, <1>8 DEF CleanEnd, RowsInv, SlotsOK, RowsOK
  <2> QED
    BY <1>2, <1>8, <2>1 DEF CleanEnd
<1>9. CASE UNCHANGED <<rowVars, writerVars, cleanerVars>>
  BY <1>9 DEF RowsInv, SlotsOK, RowsOK, OwnIndex
<1>10. CASE (\E d \in Toggled : LoadDisk(d)) \/ SaveDisk \/ (\E i \in InSpan : SelectIndex(i))
            \/ FetchPackets \/ SearchEnd \/ UNCHANGED vars
  BY <1>9, <1>10 DEF LoadDisk, SaveDisk, SelectIndex, FetchPackets, SearchEnd, vars
<1> QED
  BY <1>1, <1>3, <1>4, <1>5, <1>6, <1>7, <1>8, <1>10 DEF CleanerStep

\* No two index rows name the same slot, however transactions, crashes and
\* clean_indexes interleave (output.c:751-752, 801-804).
THEOREM OneIndexOfASlot == Spec => []OneIndexPerSlot
<1>1. Init => TypeOK /\ TxnInv /\ RowsInv
  BY InitOK, InitRows
<1>2. TypeOK /\ TxnInv /\ RowsInv /\ [Next]_vars => (TypeOK /\ TxnInv /\ RowsInv)'
  BY Steps, WriterTypes, WriterHands, WriterRows, OtherTypes, OtherHands, OtherRows
<1>3. TypeOK /\ RowsInv => OneIndexPerSlot
  BY RowIds DEF RowsInv, SlotsOK, OneIndexPerSlot
<1> QED
  BY <1>1, <1>2, <1>3, PTL DEF Spec

-----------------------------------------------------------------------------
(***************************************************************************)
(* Files and rows agree, as long as no slot came round while it was still  *)
(* written to.                                                             *)
(***************************************************************************)
LEMMA InitFiles == ASSUME Init PROVE FilesInv
BY DEF Init, FilesInv, FilesOK, ProgressOK, Writing

\* A writer keeps its progress when nobody touches it, its row, its directory, nor its slot.
LEMMA ProgressFrame ==
  ASSUME TypeOK, TxnInv, NEW v \in Writer, ProgressOK(v),
         pc'[v] = pc[v], idx'[v] = idx[v], slot'[v] = slot[v],
         pc[v] \in Writing => /\ slotOf'[idx[v]] = slotOf[idx[v]]
                              /\ ready[idx[v]] \/ ~ready'[idx[v]]
                              /\ data'[slot[v]] = data[slot[v]],
         pc[v] = "ready" /\ slotOf'[idx[v]] # None =>
             /\ slotOf'[idx[v]] = slotOf[idx[v]]
             /\ Stored(idx[v]) => Stored(idx[v])'
  PROVE  ProgressOK(v)'
<1>1. CASE pc[v] \in Writing
  BY <1>1 DEF ProgressOK, Writing
<1>2. CASE pc[v] = "ready"
  BY <1>2 DEF ProgressOK, Writing
<1>3. CASE pc[v] \notin Writing \cup {"ready"}
  BY <1>3 DEF ProgressOK, Writing
<1> QED
  BY <1>1, <1>2, <1>3

LEMMA ProgressIdle == ASSUME NEW v \in Writer, pc'[v] \in {"idle"} \cup InTransaction PROVE ProgressOK(v)'
BY DEF ProgressOK, Writing, InTransaction

\* The slot a writer writes to is nobody else's: not of an index that is ready, nor of
\* one that another writer has finished or writes.
LEMMA OwnSlot ==
  ASSUME TypeOK, TxnInv, RowsInv, FilesOK, NEW w \in Writer, pc[w] \in Writing
  PROVE  /\ \A i \in Id : ready[i] => slotOf[i] # slot[w]
         /\ \A v \in Writer \ {w} : pc[v] \in Writing \cup {"ready"} => slotOf[idx[v]] # slot[w]
         /\ \A v \in Writer \ {w} : pc[v] \in Writing => slot[v] # slot[w]
<1>1. slot[w] \in Slot /\ idx[w] \in Id /\ slot[w] # None /\ slotOf[idx[w]] = slot[w] /\ ~ready[idx[w]]
  BY HandTypes, StoreAssumption DEF FilesOK, ProgressOK
<1>2. \A i \in Id : slotOf[i] = slot[w] => i = idx[w]
  BY <1>1 DEF RowsInv, SlotsOK
<1>3. ASSUME NEW v \in Writer \ {w}, pc[v] \in Writing \cup {"ready"} PROVE slotOf[idx[v]] # slot[w]
  BY <1>2, <1>3, HandTypes DEF RowsInv, OwnIndex
<1>4. ASSUME NEW v \in Writer \ {w}, pc[v] \in Writing PROVE slot[v] # slot[w]
  BY <1>3, <1>4 DEF FilesOK, ProgressOK
<1> QED
  BY <1>1, <1>2, <1>3, <1>4

\* The transaction: the slot's last index loses it, and nobody was writing to it.
LEMMA CommitFiles ==
  ASSUME TypeOK, TxnInv, RowsInv, FilesOK, NEW w \in Writer, Committed(w), ~lapped',
         \A v \in Writer \ {w} : pc'[v] = pc[v] /\ idx'[v] = idx[v] /\ slot'[v] = slot[v],
         ProgressOK(w)'
  PROVE  FilesOK'
<1> DEFINE n == lastId + 1
<1>1. n \in Id /\ n \notin rows /\ ~ready[n]
  BY StoreAssumption DEF Committed, TypeOK, Id, RowsInv, RowsOK
<1>2. /\ rows' = rows \cup {n} /\ UNCHANGED <<ready, item, data, dir, link, unlinked>>
      /\ slotOf' = [ClearIndexRec(slot[w]) EXCEPT ![n] = slot[w]]
  BY DEF Committed, otherVars, cleanerVars, fileVars
<1>3. slotOf' = [i \in Id |-> IF i = n THEN slot[w] ELSE IF slotOf[i] = slot[w] THEN None ELSE slotOf[i]]
  BY <1>1, <1>2 DEF ClearIndexRec
<1>4. \A v \in Writer : pc[v] \in Writing => slot[v] # slot[w]
  BY DEF Committed, WritingTo, Writing
<1>5. \A v \in Writer : pc[v] \in Writing \cup {"ready"} => idx[v] # n /\ idx[v] \in Id
  BY HandTypes, StoreAssumption DEF TypeOK
<1> HIDE DEF n
<1>6. ASSUME NEW i \in Id, i # n, slotOf'[i] # None
      PROVE  slotOf'[i] = slotOf[i] /\ (Stored(i) => Stored(i)')
  BY <1>2, <1>3, <1>6 DEF Stored
<1>7. \A i \in Id : ready'[i] /\ slotOf'[i] # None => Stored(i)'
  BY <1>1, <1>2, <1>6 DEF FilesOK
<1>8. ASSUME NEW v \in Writer \ {w} PROVE ProgressOK(v)'
  <2>1. ProgressOK(v)
    BY DEF FilesOK
  <2>2. pc[v] \in Writing => slotOf'[idx[v]] = slotOf[idx[v]]
    BY <1>3, <1>4, <1>5, <2>1 DEF ProgressOK
  <2> QED
    BY <1>2, <1>5, <1>6, <2>1, <2>2, ProgressFrame
<1> QED
  BY <1>2, <1>7, <1>8 DEF FilesOK

LEMMA WriterFiles ==
  ASSUME TypeOK, TxnInv, RowsInv, FilesInv, NEW w \in Writer, WriterStep(w)
  PROVE  FilesInv'
<1> USE DEF allocVars, diskVars, rowVars, fileVars, writerVars, cleanerVars, otherVars
<1>1. SUFFICES ASSUME ~lapped' PROVE FilesOK'
  BY DEF FilesInv
<1>2. FilesOK
  <2>1. ~lapped
    BY <1>1 DEF WriterStep, Begin, NextDisk, IncUsage, Commit, CommitLost, Committed, RollBack, MkDir,
         FcapOpen, WriteFlows, WriteIndexes, IoError, SetIndexReady
  <2> QED
    BY <2>1 DEF FilesInv
<1>3. \A v \in Writer \ {w} : pc'[v] = pc[v] /\ idx'[v] = idx[v] /\ slot'[v] = slot[v]
  <2> USE DEF Goto, Leave, TypeOK
  <2>1. CASE Begin(w) \/ NextDisk(w) \/ IncUsage(w) \/ Commit(w) \/ CommitLost(w) \/ RollBack(w)
    BY <2>1 DEF Begin, NextDisk, IncUsage, Commit, CommitLost, RollBack
  <2>2. CASE MkDir(w) \/ FcapOpen(w) \/ WriteFlows(w) \/ WriteIndexes(w) \/ IoError(w) \/ SetIndexReady(w)
    BY <2>2 DEF MkDir, FcapOpen, WriteFlows, WriteIndexes, IoError, SetIndexReady
  <2> QED
    BY <2>1, <2>2 DEF WriterStep
<1>4. \A v \in Writer : ProgressOK(v)
  BY <1>2 DEF FilesOK
<1>5. \A v \in Writer : pc[v] \in Writing \cup {"ready"} => slot[v] \in Slot /\ idx[v] \in Id
  BY HandTypes
<1>6. None \notin Id /\ None \notin Slot
  BY StoreAssumption
<1>7. CASE Commit(w)
  <2>1. /\ Committed(w) /\ pc'[w] = "mkdir" /\ idx'[w] = lastId + 1 /\ slot'[w] = slot[w]
        /\ lastId + 1 \in Id /\ lastId + 1 \notin rows /\ UNCHANGED ready
    BY <1>7, StoreAssumption DEF Commit, Committed, Goto, TypeOK, Id
  <2>2. slotOf'[lastId + 1] = slot[w] /\ ~ready[lastId + 1]
    BY <2>1 DEF Committed, ClearIndexRec, RowsInv, RowsOK
  <2>3. ProgressOK(w)'
    BY <2>1, <2>2 DEF ProgressOK, Writing
  <2> QED
    BY <1>1, <1>2, <1>3, <2>1, <2>3, CommitFiles
<1>8. CASE CommitLost(w)
  BY <1>1, <1>2, <1>3, <1>8, CommitFiles, ProgressIdle DEF CommitLost, Leave
<1>9. ASSUME UNCHANGED <<rowVars, fileVars, item>>, pc'[w] \in {"idle"} \cup InTransaction PROVE FilesOK'
  <2>1. ProgressOK(w)'
    BY <1>9, ProgressIdle
  <2>2. \A i \in Id : Stored(i)' = Stored(i)
    BY <1>9 DEF Stored
  <2>3. \A v \in Writer \ {w} : ProgressOK(v)'
    BY <1>3, <1>4, <1>5, <1>9, <2>2, ProgressFrame
  <2> QED
    BY <1>2, <1>9, <2>1, <2>2, <2>3 DEF FilesOK
<1>10. CASE Begin(w) \/ NextDisk(w) \/ IncUsage(w)
  BY <1>9, <1>10 DEF Begin, NextDisk, IncUsage, Goto, InTransaction, TypeOK
<1>11. CASE RollBack(w) \/ IoError(w)
  BY <1>9, <1>11 DEF RollBack, IoError, Leave
<1>12. CASE MkDir(w)
  <2>1. /\ pc[w] \in Writing /\ pc'[w] = "open" /\ idx'[w] = idx[w] /\ slot'[w] = slot[w]
        /\ dir' = dir \cup {idx[w]} /\ UNCHANGED <<rowVars, data, link, unlinked, item>>
    BY <1>12 DEF MkDir, Goto, Writing, TypeOK
  <2>2. slotOf[idx[w]] = slot[w] /\ slot[w] # None /\ ~ready[idx[w]]
    BY <1>4, <1>5, <1>6, <2>1 DEF ProgressOK
  <2>3. idx[w] \in rows /\ idx[w] # item
    BY <1>5, <2>1, <2>2 DEF RowsInv, SlotsOK
  <2>4. \A i \in Id : Stored(i) => Stored(i)'
    BY <2>1 DEF Stored
  <2>5. ProgressOK(w)'
    BY <2>1, <2>2 DEF ProgressOK, Writing
  <2>6. \A v \in Writer \ {w} : ProgressOK(v)'
    BY <1>3, <1>4, <1>5, <2>1, <2>4, ProgressFrame
  <2> QED
    BY <1>2, <2>1, <2>3, <2>4, <2>5, <2>6 DEF FilesOK
<1>13. CASE FcapOpen(w) \/ WriteFlows(w)
  <2>1. /\ pc[w] \in Writing /\ pc'[w] \in Writing /\ idx'[w] = idx[w] /\ slot'[w] = slot[w]
        /\ UNCHANGED <<rowVars, dir, link, unlinked, item>>
        /\ \A r \in Slot \ {slot[w]} : data'[r] = data[r]
    BY <1>13 DEF FcapOpen, WriteFlows, Goto, Writing, TypeOK
  <2>2. /\ \A i \in Id : ready[i] => slotOf[i] # slot[w]
        /\ \A v \in Writer \ {w} : pc[v] \in Writing \cup {"ready"} => slotOf[idx[v]] # slot[w]
        /\ \A v \in Writer \ {w} : pc[v] \in Writing => slot[v] # slot[w]
    BY <1>2, <2>1, OwnSlot
  <2>3. \A i \in Id : Stored(i) /\ slotOf[i] # slot[w] /\ slotOf[i] # None => Stored(i)'
    BY <2>1 DEF Stored, TypeOK
  <2>4. ProgressOK(w)'
    <3>1. slot[w] \in Slot /\ ProgressOK(w)
      BY <1>4, <1>5, <2>1
    <3>2. CASE FcapOpen(w)
      BY <3>1, <3>2, <2>1 DEF FcapOpen, Goto, ProgressOK, Writing, TypeOK
    <3>3. CASE WriteFlows(w)
      <4>1. pc[w] = "write" /\ pc'[w] = "link" /\ data[slot[w]] = {} /\ data'[slot[w]] = {} \cup {idx[w]}
        BY <3>1, <3>3 DEF WriteFlows, Goto, ProgressOK, TypeOK
      <4> QED
        BY <2>1, <3>1, <4>1 DEF ProgressOK, Writing
    <3> QED
      BY <1>13, <3>2, <3>3
  <2>5. \A v \in Writer \ {w} : ProgressOK(v)'
    BY <1>3, <1>4, <1>5, <2>1, <2>2, <2>3, ProgressFrame
  <2> QED
    BY <1>2, <2>1, <2>2, <2>3, <2>4, <2>5 DEF FilesOK
<1>14. CASE WriteIndexes(w)
  <2>1. PICK made \in BOOLEAN :
           /\ pc[w] = "link" /\ pc'[w] = "ready" /\ idx'[w] = idx[w] /\ slot'[w] = slot[w]
           /\ idx[w] \in dir /\ link' = [link EXCEPT ![idx[w]] = IF made THEN slot[w] ELSE None]
           /\ unlinked' = [unlinked EXCEPT ![idx[w]] = ~made]
           /\ UNCHANGED <<rowVars, dir, data, item>>
    BY <1>14 DEF WriteIndexes, Goto, TypeOK
  <2>2. slotOf[idx[w]] = slot[w] /\ data[slot[w]] = {idx[w]} /\ idx[w] \in Id
    BY <1>4, <1>5, <2>1 DEF ProgressOK, Writing
  <2>3. \A i \in Id \ {idx[w]} : Stored(i) => Stored(i)'
    BY <2>1, <2>2 DEF Stored, TypeOK
  <2>4. ProgressOK(w)'
    <3>1. link'[idx[w]] = IF unlinked'[idx[w]] THEN None ELSE slot[w]
      BY <2>1, <2>2 DEF TypeOK
    <3> QED
      BY <2>1, <2>2, <3>1 DEF ProgressOK, Stored, Writing, TypeOK
  <2>5. \A v \in Writer \ {w} : pc[v] \in Writing \cup {"ready"} => idx[v] # idx[w]
    BY <2>1 DEF RowsInv, OwnIndex, Writing
  <2>6. \A v \in Writer \ {w} : ProgressOK(v)'
    BY <1>3, <1>4, <1>5, <2>1, <2>3, <2>5, ProgressFrame
  <2>7. ~ready[idx[w]]
    BY <1>4, <2>1 DEF ProgressOK, Writing
  <2> QED
    BY <1>2, <2>1, <2>3, <2>4, <2>6, <2>7 DEF FilesOK
<1>15. CASE SetIndexReady(w)
  <2>1. /\ pc[w] = "ready" /\ pc'[w] = "idle" /\ idx[w] \in Id
        /\ UNCHANGED <<rows, slotOf, fileVars, item>>
    BY <1>5, <1>15 DEF SetIndexReady, Leave
  <2>2. \A i \in Id : Stored(i)' = Stored(i)
    BY <2>1 DEF Stored
  <2>3. \A i \in Id \ {idx[w]} : ready'[i] = ready[i]
    BY <1>15, ReadySet
  <2>4. slotOf[idx[w]] # None => Stored(idx[w])
    BY <1>4, <2>1 DEF ProgressOK
  <2>5. \A v \in Writer \ {w} : pc[v] \in Writing \cup {"ready"} => idx[v] # idx[w]
    BY <2>1 DEF RowsInv, OwnIndex
  <2>6. ProgressOK(w)'
    BY <2>1, ProgressIdle
  <2>7. \A v \in Writer \ {w} : ProgressOK(v)'
    BY <1>3, <1>4, <1>5, <2>1, <2>2, <2>3, <2>5, ProgressFrame
  <2> QED
    BY <1>2, <2>1, <2>2, <2>3, <2>4, <2>6, <2>7 DEF FilesOK
<1> QED
  BY <1>7, <1>8, <1>10, <1>11, <1>12, <1>13, <1>14, <1>15 DEF WriterStep

\* clean_indexes has only rows in hand whose index has no slot any more.
LEMMA CleanerFiles ==
  ASSUME TypeOK, TxnInv, RowsInv, FilesOK, CleanerStep
  PROVE  FilesOK'
<1> USE DEF allocVars, diskVars, rowVars, fileVars, writerVars, cleanerVars, otherVars, storeVars
<1>1. UNCHANGED <<pc, idx, slot, data>>
  BY DEF CleanerStep, CleanStart, RemoveDir, RemoveRow, CleanMeasure, Expire, CleanEnd
<1>2. \A v \in Writer : pc[v] \in Writing \cup {"ready"} => slot[v] \in Slot /\ idx[v] \in Id
  BY HandTypes
<1>3. None \notin Id /\ None \notin Slot
  BY StoreAssumption
<1>4. ASSUME NEW i \in Id, slotOf[i] = None,
             \A j \in Id \ {i} : /\ slotOf'[j] = slotOf[j] /\ ready'[j] = ready[j]
                                 /\ link'[j] = link[j] /\ unlinked'[j] = unlinked[j]
                                 /\ (j \in dir' <=> j \in dir),
             slotOf'[i] = None
      PROVE  /\ \A j \in Id : ready'[j] /\ slotOf'[j] # None => Stored(j)'
             /\ \A v \in Writer : ProgressOK(v)'
  <2>1. \A j \in Id \ {i} : Stored(j) => Stored(j)'
    BY <1>1, <1>4 DEF Stored
  <2>2. \A j \in Id : ready'[j] /\ slotOf'[j] # None => Stored(j)'
    BY <1>4, <2>1 DEF FilesOK
  <2>3. ASSUME NEW v \in Writer PROVE ProgressOK(v)'
    <3>1. ProgressOK(v)
      BY DEF FilesOK
    <3>2. pc[v] \in Writing => idx[v] # i
      BY <1>2, <1>3, <1>4, <3>1 DEF ProgressOK
    <3> QED
      BY <1>1, <1>2, <1>4, <2>1, <3>1, <3>2, ProgressFrame
  <2> QED
    BY <2>2, <2>3
<1>5. CASE CleanStart \/ CleanMeasure \/ CleanEnd
  <2>1. UNCHANGED <<rowVars, fileVars, item>>
    BY <1>5 DEF CleanStart, CleanMeasure, CleanEnd
  <2>2. \A i \in Id : Stored(i)' = Stored(i)
    BY <2>1 DEF Stored
  <2>3. \A v \in Writer : ProgressOK(v)'
    BY <1>1, <1>2, <2>1, <2>2, ProgressFrame DEF FilesOK
  <2> QED
    BY <2>1, <2>2, <2>3 DEF FilesOK
<1>6. CASE RemoveDir
  <2>1. PICK i \in work : /\ dir' = dir \ {i} /\ link' = [link EXCEPT ![i] = None]
                          /\ unlinked' = [unlinked EXCEPT ![i] = FALSE] /\ item' = i
    BY <1>6 DEF RemoveDir
  <2>2. i \in Id /\ slotOf[i] = None /\ UNCHANGED rowVars
    BY <1>6 DEF RemoveDir, RowsInv, SlotsOK, TypeOK
  <2>3. /\ \A j \in Id : ready'[j] /\ slotOf'[j] # None => Stored(j)'
        /\ \A v \in Writer : ProgressOK(v)'
    BY <1>4, <2>1, <2>2 DEF TypeOK
  <2> QED
    BY <2>1, <2>2, <2>3 DEF FilesOK
<1>7. CASE RemoveRow
  <2>1. /\ item \in Id /\ rows' = rows \ {item} /\ slotOf' = [slotOf EXCEPT ![item] = None]
        /\ ready' = [ready EXCEPT ![item] = FALSE] /\ item' = None /\ UNCHANGED fileVars
    BY <1>7 DEF RemoveRow, TypeOK
  <2>2. slotOf[item] = None
    BY <2>1 DEF RowsInv, SlotsOK
  <2>3. /\ \A j \in Id : ready'[j] /\ slotOf'[j] # None => Stored(j)'
        /\ \A v \in Writer : ProgressOK(v)'
    <3>1. \A j \in Id \ {item} : slotOf'[j] = slotOf[j] /\ ready'[j] = ready[j]
      BY <2>1 DEF TypeOK
    <3>2. slotOf'[item] = None
      BY <2>1 DEF TypeOK
    <3> QED
      BY <1>4, <2>1, <2>2, <3>1, <3>2
  <2>4. dir' \subseteq rows' /\ item' \notin dir'
    BY <1>3, <2>1 DEF FilesOK, TypeOK
  <2> QED
    BY <2>3, <2>4 DEF FilesOK
<1>8. CASE Expire
  <2>1. PICK i \in work : /\ ready' = [ready EXCEPT ![i] = sawReady[i]]
                          /\ slotOf' = [slotOf EXCEPT ![i] = None]
    BY <1>8 DEF Expire
  <2>2. i \in Id /\ slotOf[i] = None /\ UNCHANGED <<rows, fileVars, item>>
    BY <1>8 DEF Expire, RowsInv, SlotsOK, TypeOK
  <2>3. /\ \A j \in Id : ready'[j] /\ slotOf'[j] # None => Stored(j)'
        /\ \A v \in Writer : ProgressOK(v)'
    <3>1. \A j \in Id \ {i} : slotOf'[j] = slotOf[j] /\ ready'[j] = ready[j]
      BY <2>1, <2>2 DEF TypeOK
    <3>2. slotOf'[i] = None
      BY <2>1, <2>2 DEF TypeOK
    <3> QED
      BY <1>4, <2>2, <3>1, <3>2
  <2> QED
    BY <2>2, <2>3 DEF FilesOK
<1> QED
  BY <1>5, <1>6, <1>7, <1>8 DEF CleanerStep

LEMMA OtherFiles ==
  ASSUME TypeOK, TxnInv, RowsInv, FilesInv,
         Crash \/ CleanerStep \/ (\E d \in Toggled : LoadDisk(d)) \/ SaveDisk
         \/ (\E i \in InSpan : SelectIndex(i)) \/ FetchPackets \/ SearchEnd \/ UNCHANGED vars
  PROVE  FilesInv'
<1> USE DEF allocVars, diskVars, rowVars, fileVars, writerVars, cleanerVars, otherVars,
        storeVars, restVars, noSearchVars
<1>1. CASE Crash
  <2>1. \A v \in Writer : ProgressOK(v)'
    BY <1>1, ProgressIdle DEF Crash, Leave
  <2>2. UNCHANGED <<rowVars, fileVars, item, lapped>>
    BY <1>1 DEF Crash
  <2> QED
    BY <2>1, <2>2 DEF FilesInv, FilesOK, Stored
<1>2. CASE CleanerStep
  <2>1. UNCHANGED lapped
    BY <1>2 DEF CleanerStep, CleanStart, RemoveDir, RemoveRow, CleanMeasure, Expire, CleanEnd
  <2> QED
    BY <1>2, <2>1, CleanerFiles DEF FilesInv
<1>3. CASE UNCHANGED <<rowVars, fileVars, writerVars, item, lapped>>
  BY <1>3 DEF FilesInv, FilesOK, Stored, ProgressOK
<1>4. CASE (\E d \in Toggled : LoadDisk(d)) \/ SaveDisk \/ (\E i \in InSpan : SelectIndex(i))
            \/ FetchPackets \/ SearchEnd \/ UNCHANGED vars
  BY <1>3, <1>4 DEF LoadDisk, SaveDisk, SelectIndex, FetchPackets, SearchEnd, vars
<1> QED
  BY <1>1, <1>2, <1>4

StoreInv == TypeOK /\ TxnInv /\ RowsInv /\ FilesInv

LEMMA StoreKept == Spec => []StoreInv
<1>1. Init => StoreInv
  BY InitOK, InitRows, InitFiles DEF StoreInv
<1>2. StoreInv /\ [Next]_vars => StoreInv'
  BY Steps, WriterTypes, WriterHands, WriterRows, WriterFiles,
     OtherTypes, OtherHands, OtherRows, OtherFiles DEF StoreInv
<1> QED
  BY <1>1, <1>2, PTL DEF Spec

\* An index that is ready and has its slot has its directory, its packets and no others',
\* and its link exactly unless symlink() failed, whatever errors, crashes and cleaning
\* there were; except if a slot came round while it was still written to
\* (output.c:138, 152-158, 852-863).
THEOREM ReadyIsStored == Spec => []ReadyHasData
<1>1. StoreInv => ReadyHasData
  BY RowIds DEF StoreInv, FilesInv, FilesOK, Stored, ReadyHasData
<1> QED
  BY <1>1, StoreKept, PTL

\* Every index directory has its row, under the same condition (output.c:107-123,
\* capture.py:277-287).
THEOREM DirsHaveRows == Spec => []NoOrphanDir
<1>1. StoreInv => NoOrphanDir
  BY DEF StoreInv, FilesInv, FilesOK, NoOrphanDir
<1> QED
  BY <1>1, StoreKept, PTL

-----------------------------------------------------------------------------
(***************************************************************************)
(* What a search can rely on: of an index it has selected, only the slot   *)
(* and the row can get lost.                                               *)
(***************************************************************************)
SearchInv ==
    /\ search.step # "none" =>
          /\ search.id \in 1..lastId
          /\ search.id \in rows /\ slotOf[search.id] # None => ready[search.id]
    /\ FetchFailsOnlyLost

\* A step takes nothing away from index i but its slot, with that its directory, its row.
Keeps(i) ==
    /\ lapped => lapped'
    /\ i \notin rows => i \notin rows'
    /\ slotOf[i] = None => slotOf'[i] = None
    /\ i \in rows' /\ slotOf'[i] # None /\ ready[i] => ready'[i]
    /\ ~lapped /\ i \in rows' /\ slotOf'[i] # None /\ ready[i] /\ unlinked[i] => unlinked'[i]

LEMMA WriterKeeps ==
  ASSUME StoreInv, NEW w \in Writer, WriterStep(w), NEW i \in 1..lastId
  PROVE  Keeps(i) /\ lastId <= lastId' /\ lastId' \in Nat /\ UNCHANGED search
<1> USE DEF allocVars, diskVars, rowVars, fileVars, writerVars, cleanerVars, otherVars
<1>1. i \in Id /\ lastId \in Nat /\ TypeOK
  BY StoreAssumption DEF StoreInv, TypeOK, Id
<1>2. ASSUME UNCHANGED <<rowVars, unlinked, lapped, lastId, search>>
      PROVE  Keeps(i) /\ lastId <= lastId' /\ lastId' \in Nat /\ UNCHANGED search
  BY <1>1, <1>2 DEF Keeps
<1>3. CASE Begin(w) \/ NextDisk(w) \/ IncUsage(w) \/ RollBack(w) \/ IoError(w)
  BY <1>2, <1>3 DEF Begin, NextDisk, IncUsage, RollBack, IoError
<1>4. CASE MkDir(w) \/ FcapOpen(w) \/ WriteFlows(w)
  BY <1>2, <1>4 DEF MkDir, FcapOpen, WriteFlows
<1>5. CASE Commit(w) \/ CommitLost(w)
  <2>1. Committed(w)
    BY <1>5 DEF Commit, CommitLost
  <2>2. lastId' = lastId + 1 /\ i # lastId + 1 /\ UNCHANGED <<ready, unlinked, search>>
    BY <1>1, <2>1 DEF Committed
  <2>3. rows' = rows \cup {lastId + 1} /\ (lapped => lapped')
    BY <2>1 DEF Committed
  <2>4. slotOf[i] = None => slotOf'[i] = None
    BY <1>1, <2>1, <2>2 DEF Committed, ClearIndexRec
  <2> QED
    BY <1>1, <2>2, <2>3, <2>4 DEF Keeps
<1>6. CASE WriteIndexes(w)
  <2>1. PICK made \in BOOLEAN : unlinked' = [unlinked EXCEPT ![idx[w]] = ~made]
    BY <1>6 DEF WriteIndexes
  <2>2. UNCHANGED <<rowVars, lapped, lastId, search>>
    BY <1>6 DEF WriteIndexes
  <2>3. ~lapped => ~ready[idx[w]]
    BY <1>6 DEF WriteIndexes, StoreInv, FilesInv, FilesOK, ProgressOK, Writing
  <2>4. ~lapped /\ ready[i] => unlinked'[i] = unlinked[i]
    BY <1>1, <2>1, <2>3 DEF TypeOK
  <2> QED
    BY <1>1, <2>2, <2>4 DEF Keeps
<1>7. CASE SetIndexReady(w)
  <2>1. UNCHANGED <<rows, slotOf, unlinked, lapped, lastId, search>>
    BY <1>7 DEF SetIndexReady
  <2>2. i \in rows /\ ready[i] => ready'[i]
    BY <1>1, <1>7 DEF SetIndexReady, TypeOK
  <2> QED
    BY <1>1, <2>1, <2>2 DEF Keeps
<1> QED
  BY <1>3, <1>4, <1>5, <1>6, <1>7 DEF WriterStep

LEMMA CleanerKeeps ==
  ASSUME StoreInv, CleanerStep, NEW i \in 1..lastId
  PROVE  Keeps(i) /\ UNCHANGED <<lastId, search>>
<1> USE DEF rowVars, fileVars, cleanerVars, storeVars, allocVars
<1>1. i \in Id /\ TypeOK /\ SlotsOK
  BY StoreAssumption DEF StoreInv, TypeOK, Id, RowsInv
<1>2. UNCHANGED <<lastId, search, lapped>>
  BY DEF CleanerStep, CleanStart, RemoveDir, RemoveRow, CleanMeasure, Expire, CleanEnd
<1>3. CASE CleanStart \/ CleanMeasure \/ CleanEnd
  BY <1>2, <1>3 DEF CleanStart, CleanMeasure, CleanEnd, Keeps
<1>4. CASE RemoveDir
  <2>1. PICK j \in work : unlinked' = [unlinked EXCEPT ![j] = FALSE]
    BY <1>4 DEF RemoveDir
  <2>2. UNCHANGED rowVars
    BY <1>4 DEF RemoveDir
  <2>3. slotOf[i] # None => unlinked'[i] = unlinked[i]
    BY <1>1, <2>1 DEF SlotsOK, TypeOK
  <2> QED
    BY <1>2, <2>2, <2>3 DEF Keeps
<1>5. CASE RemoveRow
  <2>1. rows' = rows \ {item} /\ slotOf' = [slotOf EXCEPT ![item] = None]
        /\ ready' = [ready EXCEPT ![item] = FALSE] /\ UNCHANGED unlinked
    BY <1>5 DEF RemoveRow
  <2> QED
    BY <1>1, <1>2, <2>1 DEF Keeps, TypeOK
<1>6. CASE Expire
  <2>1. PICK j \in work : /\ ready' = [ready EXCEPT ![j] = sawReady[j]]
                          /\ slotOf' = [slotOf EXCEPT ![j] = None]
    BY <1>6 DEF Expire
  <2>2. UNCHANGED <<rows, unlinked>> /\ j \in Id
    BY <1>6, <1>1 DEF Expire, TypeOK
  <2> QED
    BY <1>1, <1>2, <2>1, <2>2 DEF Keeps, TypeOK
<1> QED
  BY <1>3, <1>4, <1>5, <1>6 DEF CleanerStep

LEMMA SearchKept ==
  ASSUME StoreInv, SearchInv, [Next]_vars
  PROVE  SearchInv'
<1>1. ASSUME UNCHANGED search, lastId <= lastId', lastId' \in Nat,
             \A i \in 1..lastId : Keeps(i)
      PROVE  SearchInv'
  <2>1. CASE search.step = "none"
    BY <1>1, <2>1 DEF SearchInv, FetchFailsOnlyLost
  <2>2. CASE search.step # "none"
    <3>1. search.id \in 1..lastId /\ Keeps(search.id)
      BY <1>1, <2>2 DEF SearchInv
    <3>2. search.id \in 1..lastId'
      BY <1>1, <3>1 DEF StoreInv, TypeOK
    <3>3. search.id \in rows' /\ slotOf'[search.id] # None => ready[search.id] /\ ready'[search.id]
      BY <2>2, <3>1 DEF SearchInv, Keeps
    <3> QED
      BY <1>1, <3>1, <3>2, <3>3 DEF SearchInv, FetchFailsOnlyLost, Keeps
  <2> QED
    BY <2>1, <2>2
<1>2. ASSUME NEW w \in Writer, WriterStep(w) PROVE SearchInv'
  <2>1. CASE lastId = 0
    <3>1. search.step = "none"
      BY <2>1 DEF SearchInv
    <3>2. UNCHANGED search
      BY <1>2 DEF WriterStep, Begin, NextDisk, IncUsage, Commit, CommitLost, Committed, RollBack, MkDir,
           FcapOpen, WriteFlows, WriteIndexes, IoError, SetIndexReady, otherVars
    <3> QED
      BY <3>1, <3>2 DEF SearchInv, FetchFailsOnlyLost
  <2>2. CASE lastId # 0
    <3>1. 1 \in 1..lastId
      BY <2>2 DEF StoreInv, TypeOK
    <3> QED
      BY <1>1, <1>2, <3>1, WriterKeeps
  <2> QED
    BY <2>1, <2>2
<1>3. lastId \in Nat /\ lastId <= lastId
  BY DEF StoreInv, TypeOK
<1>4. CASE CleanerStep
  <2>1. UNCHANGED <<lastId, search>>
    BY <1>4 DEF CleanerStep, CleanStart, RemoveDir, RemoveRow, CleanMeasure, Expire, CleanEnd, storeVars, allocVars
  <2> QED
    BY <1>1, <1>3, <1>4, <2>1, CleanerKeeps
<1>5. CASE UNCHANGED <<rowVars, unlinked, lapped, lastId, search>>
  BY <1>1, <1>3, <1>5 DEF Keeps, rowVars
<1>6. CASE Crash \/ (\E d \in Toggled : LoadDisk(d)) \/ SaveDisk \/ UNCHANGED vars
  BY <1>5, <1>6 DEF Crash, LoadDisk, SaveDisk, vars, allocVars, rowVars, fileVars, otherVars, restVars
<1>7. CASE \E i \in InSpan : SelectIndex(i)
  BY <1>7 DEF SelectIndex, SearchInv, FetchFailsOnlyLost, StoreInv, TypeOK, noSearchVars, rowVars,
              allocVars
<1>8. CASE SearchEnd
  BY <1>8 DEF SearchEnd, NoSearch, SearchInv, FetchFailsOnlyLost
<1>9. CASE FetchPackets
  <2>0. UNCHANGED <<rows, slotOf, ready, unlinked, lapped, lastId>> /\ search.step = "selected"
    BY <1>9 DEF FetchPackets, noSearchVars, rowVars, fileVars, allocVars
  <2>1. CASE search' = NoSearch
    BY <2>1 DEF NoSearch, SearchInv, FetchFailsOnlyLost
  <2>2. CASE Reached(search.id) # {search.id} /\ search' = [search EXCEPT !.step = "failed"]
    <3>1. search'.id = search.id /\ search.id \in 1..lastId /\ search.id \in Id
      BY <2>0, <2>2, StoreAssumption DEF StoreInv, TypeOK, SearchInv, Id
    <3>2. ASSUME ~lapped, ~unlinked[search.id], search.id \in rows, slotOf[search.id] # None PROVE FALSE
      <4>1. ready[search.id]
        BY <2>0, <3>2 DEF SearchInv
      <4>2. link[search.id] = slotOf[search.id] /\ data[slotOf[search.id]] = {search.id}
        BY <3>1, <3>2, <4>1 DEF StoreInv, FilesInv, FilesOK, Stored
      <4> QED
        BY <2>2, <3>2, <4>2 DEF Reached
    <3> QED
      BY <2>0, <3>1, <3>2 DEF SearchInv, FetchFailsOnlyLost
  <2> QED
    BY <1>9, <2>1, <2>2 DEF FetchPackets
<1> QED
  BY <1>2, <1>4, <1>6, <1>7, <1>8, <1>9, Steps

\* A search that fetches the packets of an index it selected fails only if the link was
\* never made, or if the slot or the row is gone by then; unless a slot came round while it
\* was still written to (search.py:53-60, packets.c:57-110).
THEOREM FetchesFailOnlyLost == Spec => []FetchFailsOnlyLost
<1>1. Init => SearchInv
  BY DEF Init, NoSearch, SearchInv, FetchFailsOnlyLost
<1>2. StoreInv /\ SearchInv /\ [Next]_vars => SearchInv'
  BY SearchKept
<1>3. SearchInv => FetchFailsOnlyLost
  BY DEF SearchInv
<1> QED
  BY <1>1, <1>2, <1>3, StoreKept, PTL DEF Spec

-----------------------------------------------------------------------------
(***************************************************************************)
(* The disks fill evenly.                                                  *)
(***************************************************************************)
LEMMA TimesMono ==
  ASSUME NEW a \in Nat, NEW b \in Nat, NEW c \in Nat, a <= b
  PROVE  a * c \in Nat /\ b * c \in Nat /\ a * c <= b * c
<1>1. PICK k \in Nat : b = a + k
  <2>1. b - a \in Nat /\ b = a + (b - a)
    OBVIOUS
  <2> QED
    BY <2>1
<1>2. b * c = a * c + k * c
  BY <1>1
<1>3. a * c \in Nat /\ k * c \in Nat /\ b * c \in Nat
  OBVIOUS
<1> QED
  BY <1>2, <1>3

\* At most all writers are about to use a disk.
LEMMA PendingBound ==
  ASSUME NEW P, P \subseteq Writer
  PROVE  /\ IsFiniteSet(P) /\ Cardinality(P) \in Nat /\ Cardinality(Writer) \in Nat
         /\ Cardinality(P) <= Cardinality(Writer)
<1>1. IsFiniteSet(Writer)
  BY StoreAssumption
<1> QED
  BY <1>1, FS_Subset, FS_CardinalityType

\* Disk d is not ahead of e, what is pending included.
Ahead(d, e) ==
    usage[d] + Cardinality(Pending(d)) * UsageInc[d] <= usage[e] + Cardinality(Writer) * UsageInc[d]

\* No more is pending, and e did not fall back.
LEMMA AheadLess ==
  ASSUME TypeOK, TypeOK', NEW d \in Disk, NEW e \in Disk, Ahead(d, e),
         Pending(d)' \subseteq Pending(d), usage'[d] = usage[d], usage[e] <= usage'[e]
  PROVE  Ahead(d, e)'
<1> DEFINE p == Cardinality(Pending(d))
           q == Cardinality(Pending(d)')
           N == Cardinality(Writer)
           c == UsageInc[d]
<1>1. c \in Nat /\ usage[d] \in Nat /\ usage[e] \in Nat /\ usage'[e] \in Nat
  BY StoreAssumption DEF TypeOK
<1>2. IsFiniteSet(Pending(d)) /\ p \in Nat /\ N \in Nat
  BY PendingBound DEF Pending
<1>3. q \in Nat /\ q <= p
  BY <1>2, FS_Subset, FS_CardinalityType
<1>4. q * c <= p * c /\ q * c \in Nat /\ p * c \in Nat
  BY <1>1, <1>2, <1>3, TimesMono
<1>5. N * c \in Nat
  BY <1>1, <1>2
<1>6. usage[d] + p * c <= usage[e] + N * c
  BY DEF Ahead
<1> HIDE DEF p, q, N, c
<1>7. usage'[d] + q * c <= usage'[e] + N * c
  BY <1>1, <1>4, <1>5, <1>6
<1> QED
  BY <1>7 DEF Ahead, p, q, N, c

\* The balance after a step that makes no disk active, chooses none and commits nothing.
LEMMA BalanceFrame ==
  ASSUME TypeOK, TypeOK', BalanceInv,
         toggles' < 2 => /\ toggles < 2 /\ Active' \subseteq Active
                         /\ \A d \in Active' : usage'[d] = usage[d],
         \A d \in Disk : Pending(d)' \subseteq Pending(d),
         toggles' = 0 => operator' = None /\ Active' = Disk,
         toggles' = 1 /\ operator' # None => operator'.mode = "DISABLED"
  PROVE  BalanceInv'
<1>1. SUFFICES ASSUME toggles' < 2, NEW d \in Active', NEW e \in Active' PROVE Ahead(d, e)'
  BY DEF BalanceInv, Ahead
<1>2. d \in Disk /\ e \in Disk
  BY DEF Active
<1>3. Ahead(d, e)
  BY <1>1 DEF BalanceInv, Ahead
<1>4. usage'[d] = usage[d] /\ usage[e] <= usage'[e]
  BY <1>1, <1>2 DEF TypeOK
<1> QED
  BY <1>2, <1>3, <1>4, AheadLess

LEMMA InitBalance == ASSUME Init PROVE BalanceInv
<1>1. /\ usage = [d \in Disk |-> 0] /\ operator = None /\ toggles = 0 /\ mode = [d \in Disk |-> "ACTIVE"]
      /\ pc = [w \in Writer |-> "idle"]
  BY DEF Init
<1>2. \A d \in Disk : Pending(d) = {}
  BY <1>1 DEF Pending
<1>3. Active = Disk
  BY <1>1 DEF Active
<1>4. ASSUME NEW d \in Disk, NEW e \in Disk PROVE Ahead(d, e)
  <2>1. Cardinality(Pending(d)) = 0
    BY <1>2, FS_EmptySet
  <2>2. UsageInc[d] \in Nat /\ Cardinality(Writer) \in Nat
    BY StoreAssumption, FS_CardinalityType
  <2>3. Cardinality(Writer) * UsageInc[d] \in Nat /\ 0 * UsageInc[d] = 0
    BY <2>2
  <2> QED
    BY <1>1, <2>1, <2>3 DEF Ahead
<1> QED
  BY <1>1, <1>3, <1>4 DEF BalanceInv, Ahead

\* The disk that is chosen is the least used one, however many others have chosen it.
LEMMA ChooseBalance ==
  ASSUME TypeOK, TypeOK', BalanceInv, NEW w \in Writer, NextDisk(w)
  PROVE  BalanceInv'
<1> USE DEF allocVars, diskVars, otherVars
<1>1. PICK f \in Active : (\A e \in Active : usage[f] <= usage[e]) /\ disk' = [disk EXCEPT ![w] = f]
  BY DEF NextDisk
<1>2. /\ pc[w] = "begun" /\ pc' = [pc EXCEPT ![w] = "chosen"]
      /\ UNCHANGED <<usage, mode, operator, toggles>>
  BY DEF NextDisk, Goto
<1>3. Active' = Active
  BY <1>2 DEF Active
<1>4. SUFFICES ASSUME toggles < 2, NEW d \in Active, NEW e \in Active PROVE Ahead(d, e)'
  BY <1>2, <1>3 DEF BalanceInv, Ahead
<1>5. d \in Disk /\ e \in Disk /\ usage[d] \in Nat /\ usage[e] \in Nat /\ UsageInc[d] \in Nat
  BY StoreAssumption DEF Active, TypeOK
<1>6. CASE d # f
  <2>1. Pending(d)' = Pending(d)
    BY <1>1, <1>2, <1>6 DEF Pending, TypeOK
  <2>2. Ahead(d, e)
    BY <1>4 DEF BalanceInv, Ahead
  <2> QED
    BY <1>2, <1>5, <2>1, <2>2, AheadLess
<1>7. CASE d = f
  <2> DEFINE q == Cardinality(Pending(d)')
             N == Cardinality(Writer)
             c == UsageInc[d]
  <2>1. q \in Nat /\ N \in Nat /\ q <= N
    BY PendingBound DEF Pending
  <2>2. q * c <= N * c /\ q * c \in Nat /\ N * c \in Nat
    BY <1>5, <2>1, TimesMono
  <2>3. usage[d] <= usage[e]
    BY <1>1, <1>7
  <2> HIDE DEF q, N, c
  <2>4. usage[d] + q * c <= usage[e] + N * c
    BY <1>5, <2>2, <2>3
  <2> QED
    BY <1>2, <2>4 DEF Ahead, q, N, c
<1> QED
  BY <1>6, <1>7

\* A commit turns a pending increment into a real one.
LEMMA CommitBalance ==
  ASSUME TypeOK, TypeOK', TxnInv, BalanceInv, NEW w \in Writer, Committed(w),
         \A v \in Writer \ {w} : pc'[v] = pc[v] /\ disk'[v] = disk[v],
         pc'[w] \in {"mkdir", "idle"}
  PROVE  BalanceInv'
<1> DEFINE f == disk[w]
<1>1. /\ f \in Disk /\ pc[w] = "locked" /\ usage' = [usage EXCEPT ![f] = usage[f] + UsageInc[f]]
      /\ UNCHANGED <<mode, operator, toggles>>
  BY DEF Committed, TxnInv, HandOK, otherVars
<1>2. \A d \in Disk : Pending(d)' = Pending(d) \ {w}
  BY DEF Pending
<1>3. \A d \in Disk : w \in Pending(d) <=> d = f
  BY <1>1 DEF Pending
<1> HIDE DEF f
<1>4. Active' = Active
  BY <1>1 DEF Active
<1>5. SUFFICES ASSUME toggles < 2, NEW d \in Active, NEW e \in Active PROVE Ahead(d, e)'
  BY <1>1, <1>4 DEF BalanceInv, Ahead
<1>6. /\ d \in Disk /\ e \in Disk /\ UsageInc[d] \in Nat /\ UsageInc[f] \in Nat
      /\ usage[d] \in Nat /\ usage[e] \in Nat
  BY <1>1, StoreAssumption DEF Active, TypeOK
<1>7. Ahead(d, e)
  BY <1>5 DEF BalanceInv, Ahead
<1>8. usage'[e] \in Nat /\ usage[e] <= usage'[e]
  BY <1>1, <1>6 DEF TypeOK
<1>9. CASE d # f
  BY <1>1, <1>2, <1>6, <1>7, <1>8, <1>9, AheadLess DEF TypeOK
<1>10. CASE d = f
  <2> DEFINE p == Cardinality(Pending(d))
             q == Cardinality(Pending(d)')
             N == Cardinality(Writer)
             c == UsageInc[d]
  <2>1. IsFiniteSet(Pending(d)) /\ p \in Nat /\ N \in Nat
    BY PendingBound DEF Pending
  <2>2. q = p - 1 /\ q \in Nat
    BY <1>2, <1>3, <1>6, <1>10, <2>1, FS_RemoveElement, FS_CardinalityType, FS_Subset
  <2>3. p * c = q * c + c /\ q * c \in Nat /\ N * c \in Nat /\ c \in Nat
    <3>1. c \in Nat
      BY <1>6
    <3> HIDE DEF p, q, N, c
    <3> QED
      BY <2>1, <2>2, <3>1
  <2>4. usage[d] + p * c <= usage[e] + N * c
    BY <1>7 DEF Ahead
  <2>5. usage'[d] = usage[d] + c
    BY <1>1, <1>6, <1>10 DEF TypeOK
  <2> HIDE DEF p, q, N, c
  <2>6. usage'[d] + q * c <= usage'[e] + N * c
    BY <1>6, <1>8, <2>3, <2>4, <2>5
  <2> QED
    BY <2>6 DEF Ahead, p, q, N, c
<1> QED
  BY <1>9, <1>10

LEMMA WriterBalance ==
  ASSUME TypeOK, TypeOK', TxnInv, BalanceInv, NEW w \in Writer, WriterStep(w)
  PROVE  BalanceInv'
<1> USE DEF allocVars, diskVars, rowVars, fileVars, writerVars, cleanerVars, otherVars, Goto, Leave
<1>1. CASE NextDisk(w)
  BY <1>1, ChooseBalance
<1>2. CASE Commit(w)
  BY <1>2, CommitBalance DEF Commit, TypeOK
<1>3. CASE CommitLost(w)
  BY <1>3, CommitBalance DEF CommitLost, TypeOK
<1>4. ASSUME UNCHANGED <<mode, usage, operator, toggles>>, \A d \in Disk : Pending(d)' \subseteq Pending(d)
      PROVE  BalanceInv'
  <2>1. Active' = Active
    BY <1>4 DEF Active
  <2> QED
    BY <1>4, <2>1, BalanceFrame DEF BalanceInv
<1>5. CASE Begin(w) \/ IncUsage(w) \/ RollBack(w)
  <2>1. \A d \in Disk : Pending(d)' \subseteq Pending(d)
    BY <1>5 DEF Begin, IncUsage, RollBack, Pending, TypeOK
  <2> QED
    BY <1>4, <1>5, <2>1 DEF Begin, IncUsage, RollBack
<1>6. CASE MkDir(w) \/ FcapOpen(w) \/ WriteFlows(w) \/ WriteIndexes(w) \/ IoError(w) \/ SetIndexReady(w)
  <2>1. \A d \in Disk : Pending(d)' \subseteq Pending(d)
    BY <1>6 DEF MkDir, FcapOpen, WriteFlows, WriteIndexes, IoError, SetIndexReady, Pending, TypeOK
  <2> QED
    BY <1>4, <1>6, <2>1 DEF MkDir, FcapOpen, WriteFlows, WriteIndexes, IoError, SetIndexReady
<1> QED
  BY <1>1, <1>2, <1>3, <1>5, <1>6 DEF WriterStep

LEMMA OtherBalance ==
  ASSUME TypeOK, TypeOK', BalanceInv,
         Crash \/ CleanerStep \/ (\E d \in Toggled : LoadDisk(d)) \/ SaveDisk
         \/ (\E i \in InSpan : SelectIndex(i)) \/ FetchPackets \/ SearchEnd \/ UNCHANGED vars
  PROVE  BalanceInv'
<1> USE DEF allocVars, diskVars, rowVars, fileVars, writerVars, cleanerVars, otherVars,
        storeVars, restVars, noSearchVars
<1>0. toggles \in Nat
  BY StoreAssumption DEF TypeOK
<1>1. ASSUME UNCHANGED <<mode, usage, operator, toggles>>, \A d \in Disk : Pending(d)' \subseteq Pending(d)
      PROVE  BalanceInv'
  <2>1. Active' = Active
    BY <1>1 DEF Active
  <2> QED
    BY <1>1, <2>1, BalanceFrame DEF BalanceInv
<1>2. CASE Crash
  <2>1. \A d \in Disk : Pending(d)' \subseteq Pending(d)
    BY <1>2 DEF Crash, Leave, Pending
  <2> QED
    BY <1>1, <1>2, <2>1 DEF Crash
<1>3. CASE UNCHANGED <<mode, usage, operator, toggles, writerVars>>
  BY <1>1, <1>3 DEF Pending
<1>4. CASE CleanerStep
  BY <1>3, <1>4 DEF CleanerStep, CleanStart, RemoveDir, RemoveRow, CleanMeasure, Expire, CleanEnd
<1>5. ASSUME NEW d \in Toggled, LoadDisk(d) PROVE BalanceInv'
  <2>1. toggles' = toggles + 1 /\ UNCHANGED <<mode, usage, writerVars>>
    BY <1>5 DEF LoadDisk
  <2>2. Active' = Active /\ \A f \in Disk : Pending(f)' = Pending(f)
    BY <2>1 DEF Active, Pending
  <2>3. toggles' = 1 => operator'.mode = "DISABLED"
    <3>1. ASSUME toggles' = 1 PROVE mode[d] = "ACTIVE"
      BY <1>0, <2>1, <3>1, StoreAssumption DEF BalanceInv, Active
    <3> QED
      BY <1>5, <3>1 DEF LoadDisk
  <2> QED
    BY <1>0, <2>1, <2>2, <2>3, BalanceFrame
<1>6. CASE SaveDisk
  <2>1. /\ operator # None /\ operator.disk \in Disk /\ operator' = None /\ UNCHANGED <<toggles, writerVars>>
        /\ mode' = [mode EXCEPT ![operator.disk] = operator.mode]
        /\ usage' = [usage EXCEPT ![operator.disk] = operator.usage]
    BY <1>6 DEF SaveDisk, TypeOK
  <2>2. toggles # 0
    BY <2>1 DEF BalanceInv
  <2>3. ASSUME toggles' < 2 PROVE toggles = 1 /\ Active' = Active \ {operator.disk}
    <3>1. toggles = 1 /\ operator.mode = "DISABLED"
      BY <1>0, <2>1, <2>2, <2>3 DEF BalanceInv
    <3> QED
      BY <2>1, <3>1 DEF Active, TypeOK
  <2>4. ASSUME toggles' < 2, NEW f \in Active' PROVE usage'[f] = usage[f]
    BY <2>1, <2>3, <2>4 DEF Active, TypeOK
  <2>5. \A f \in Disk : Pending(f)' = Pending(f)
    BY <2>1 DEF Pending
  <2> QED
    BY <2>1, <2>2, <2>3, <2>4, <2>5, BalanceFrame
<1>7. CASE (\E i \in InSpan : SelectIndex(i)) \/ FetchPackets \/ SearchEnd \/ UNCHANGED vars
  BY <1>3, <1>7 DEF SelectIndex, FetchPackets, SearchEnd, vars
<1> QED
  BY <1>2, <1>4, <1>5, <1>6, <1>7

\* The disks in use fill evenly, though NEXT_DISK_Q reads their usage without a lock, for
\* any number of writers and any increments (output.c:746-748).
THEOREM DisksFillEvenly == Spec => []DisksBalanced
<1> DEFINE BInv == TypeOK /\ TxnInv /\ BalanceInv
<1>1. Init => BInv
  BY InitOK, InitBalance
<1>2. BInv /\ [Next]_vars => BInv'
  BY Steps, WriterTypes, WriterHands, WriterBalance, OtherTypes, OtherHands, OtherBalance
<1>3. BInv => DisksBalanced
  <2>1. SUFFICES ASSUME BInv, toggles < 2, NEW d \in Active, NEW e \in Active
                 PROVE  usage[d] <= usage[e] + Cardinality(Writer) * UsageInc[d]
    BY DEF DisksBalanced
  <2>2. /\ UsageInc[d] \in Nat /\ usage[d] \in Nat /\ usage[e] \in Nat
        /\ Cardinality(Pending(d)) \in Nat /\ Cardinality(Writer) \in Nat
    BY <2>1, StoreAssumption, PendingBound DEF Active, TypeOK, Pending
  <2>3. Cardinality(Pending(d)) * UsageInc[d] \in Nat /\ Cardinality(Writer) * UsageInc[d] \in Nat
    BY <2>2
  <2>4. usage[d] + Cardinality(Pending(d)) * UsageInc[d] <= usage[e] + Cardinality(Writer) * UsageInc[d]
    BY <2>1 DEF BalanceInv
  <2> QED
    BY <2>2, <2>3, <2>4
<1> QED
  BY <1>1, <1>2, <1>3, PTL DEF Spec
=============================================================================
