----------------------------- MODULE SlotStore -----------------------------
(***************************************************************************)
(* Where the output threads of a capture node put their chains, and who    *)
(* else touches that: the slots (preallocated FCAP files) of the capture   *)
(* disks, the index directories, and the rows of both in PostgreSQL.       *)
(*                                                                         *)
(*   writers    output_bucket: a transaction gets a slot and a new index   *)
(*              row (set_save_info), then files are written, then the row  *)
(*              becomes ready;                                             *)
(*   cleaner    the periodic task clean_indexes;                           *)
(*   operator   the task that activates and deactivates disks;             *)
(*   searcher   a search task that fetches packets.                        *)
(*                                                                         *)
(* Transactions run at PostgreSQL's default level, read committed: each    *)
(* statement sees what is committed when it starts, an UPDATE holds its    *)
(* row until the end, and NOW() is the time the transaction began.  Only   *)
(* the row of a disk is ever wanted by two transactions at a time.         *)
(***************************************************************************)
EXTENDS Integers, FiniteSets

CONSTANTS
    Disk, Writer,
    Slot,        \* the ids of the slots, numbers
    DiskOf,      \* the disk of each slot
    UsageInc,    \* usage_inc of each disk
    None,        \* SQL's NULL, and no value in general
    Reserved,    \* how many index directories should fit besides those there are
    IndexSpace,  \* how many index directories fit on the index device
    MaxIndex,    \* bound on the ids of index rows
    MaxBegin,    \* bound on the transactions that begin
    MaxToggles,  \* bound on the operator's tasks
    Toggled,     \* the disks the operator's tasks are about
    Cleaning,    \* clean_indexes is scheduled
    InSpan,      \* the indexes in the time span of the search
    LinkFails    \* bound on the failures of symlink: the indexes it may fail for

Id == 1..MaxIndex

ASSUME StoreAssumption ==
    /\ Slot \subseteq Nat
    /\ DiskOf \in [Slot -> Disk]
    /\ \A d \in Disk : \E s \in Slot : DiskOf[s] = d
    /\ UsageInc \in [Disk -> Nat] /\ IsFiniteSet(Writer)
    /\ None \notin Slot \cup Disk \cup Writer \cup Id
    /\ Reserved \in Nat /\ IndexSpace \in Nat
    /\ MaxIndex \in Nat /\ MaxBegin \in Nat /\ MaxToggles \in Nat
    /\ Cleaning \in BOOLEAN /\ InSpan \subseteq Id /\ Toggled \subseteq Disk

VARIABLES
    \* The database.
    mode, usage,   \* of each disk
    used,          \* of each slot, a time
    rows,          \* the ids of the index rows there are
    slotOf, ready, expired,  \* of each index row
    lastId,        \* the sequence of index ids
    clock,         \* the database's time
    lock,          \* the writer whose transaction holds a disk's row, or None
    \* The file systems.
    data,          \* of each slot: the indexes whose chains have data in the file
    dir,           \* the indexes that have a directory
    link,          \* of each index: the slot its directory's link FCAP names, or None
    \* The processes.
    pc, stamp, disk, idx, slot,   \* of each writer
    cleaner,       \* what clean_indexes is doing
    work,          \* the rows it still has in hand
    item,          \* the row it deletes, or None
    sawReady,      \* the ready column of the rows in hand when they were read
    free,          \* the free space it counts with
    operator,      \* the activation task: the disk row it has in hand, or None
    toggles,       \* how many activation tasks there were
    search,        \* the search task: what it does, its index
    \* History.
    unlinked,      \* of each index: its directory has no link since symlink() failed
    taken,         \* of each slot: the id of the last index it was given to
    lapped         \* a slot was given away while a writer still wrote to it

diskVars == <<mode, usage>>
rowVars == <<rows, slotOf, ready, expired>>
fileVars == <<data, dir, link, unlinked>>
writerVars == <<pc, stamp, disk, idx, slot>>
cleanerVars == <<cleaner, work, item, sawReady, free>>
otherVars == <<cleanerVars, operator, toggles, search>>
allocVars == <<diskVars, used, lastId, taken, lapped>>
vars == <<allocVars, rowVars, clock, lock, fileVars, writerVars, otherVars>>

NoSearch == [step |-> "none", id |-> None]

Init ==
    /\ mode = [d \in Disk |-> "ACTIVE"]
    /\ usage = [d \in Disk |-> 0]
    /\ used = [s \in Slot |-> 0]
    /\ rows = {}
    /\ slotOf = [i \in Id |-> None]
    /\ ready = [i \in Id |-> FALSE]
    /\ expired = [i \in Id |-> FALSE]
    /\ lastId = 0 /\ clock = 0
    /\ lock = [d \in Disk |-> None]
    /\ data = [s \in Slot |-> {}]
    /\ dir = {}
    /\ link = [i \in Id |-> None]
    /\ unlinked = [i \in Id |-> FALSE]
    /\ pc = [w \in Writer |-> "idle"]
    /\ stamp = [w \in Writer |-> 0]
    /\ disk = [w \in Writer |-> None]
    /\ idx = [w \in Writer |-> None]
    /\ slot = [w \in Writer |-> None]
    /\ cleaner = "idle" /\ work = {} /\ item = None /\ free = 0
    /\ sawReady = [i \in Id |-> FALSE]
    /\ operator = None /\ toggles = 0
    /\ search = NoSearch
    /\ taken = [s \in Slot |-> 0]
    /\ lapped = FALSE

-----------------------------------------------------------------------------
\* set_save_info: one transaction.

Goto(w, l) == pc' = [pc EXCEPT ![w] = l]

\* The functions return, and what they had in hand is gone.
Leave(W) ==
    /\ pc' = [w \in Writer |-> IF w \in W THEN "idle" ELSE pc[w]]
    /\ stamp' = [w \in Writer |-> IF w \in W THEN 0 ELSE stamp[w]]
    /\ disk' = [w \in Writer |-> IF w \in W THEN None ELSE disk[w]]
    /\ idx' = [w \in Writer |-> IF w \in W THEN None ELSE idx[w]]
    /\ slot' = [w \in Writer |-> IF w \in W THEN None ELSE slot[w]]

\* BEGIN, for a new chain or for one whose last attempt failed.
Begin(w) ==
    /\ pc[w] = "idle"
    /\ clock < MaxBegin
    /\ clock' = clock + 1
    /\ stamp' = [stamp EXCEPT ![w] = clock']
    /\ Goto(w, "begun")
    /\ UNCHANGED <<allocVars, rowVars, lock, fileVars, disk, idx, slot, otherVars>>

Active == {d \in Disk : mode[d] = "ACTIVE"}

\* Faulty form: NEXT_DISK_Q without its ORDER BY.
NextDiskAny(w) ==
    /\ pc[w] = "begun"
    /\ \E d \in Active : disk' = [disk EXCEPT ![w] = d]
    /\ Goto(w, "chosen")
    /\ UNCHANGED <<allocVars, rowVars, clock, lock, fileVars, stamp, idx, slot, otherVars>>

\* NEXT_DISK_Q.
NextDisk(w) ==
    /\ pc[w] = "begun"
    /\ \E d \in Active :
          /\ \A e \in Active : usage[d] <= usage[e]
          /\ disk' = [disk EXCEPT ![w] = d]
    /\ Goto(w, "chosen")
    /\ UNCHANGED <<allocVars, rowVars, clock, lock, fileVars, stamp, idx, slot, otherVars>>

\* Faulty form: the disk's row is not locked.
IncUsageNoLock(w) ==
    /\ pc[w] = "chosen"
    /\ Goto(w, "locked")
    /\ UNCHANGED <<allocVars, rowVars, clock, lock, fileVars, stamp, disk, idx, otherVars>>
    /\ \E s \in Slot :
          /\ DiskOf[s] = disk[w]
          /\ \A r \in Slot : DiskOf[r] = disk[w] =>
                used[s] < used[r] \/ (used[s] = used[r] /\ s <= r)
          /\ slot' = [slot EXCEPT ![w] = s]

\* USAGE_INC_Q waits for the disk's row; OLDEST_SLOT_Q then reads the slots.
IncUsage(w) ==
    /\ pc[w] = "chosen"
    /\ lock[disk[w]] = None
    /\ lock' = [lock EXCEPT ![disk[w]] = w]
    /\ \E s \in Slot :
          /\ DiskOf[s] = disk[w]
          /\ \A r \in Slot : DiskOf[r] = disk[w] =>
                used[s] < used[r] \/ (used[s] = used[r] /\ s <= r)
          /\ slot' = [slot EXCEPT ![w] = s]
    /\ Goto(w, "locked")
    /\ UNCHANGED <<allocVars, rowVars, clock, fileVars, stamp, disk, idx, otherVars>>

Unlocked(w) == [d \in Disk |-> IF lock[d] = w THEN None ELSE lock[d]]

\* The writers that still write to slot s.
WritingTo(s) == {w \in Writer : pc[w] \in {"mkdir", "open", "write", "link"} /\ slot[w] = s}

\* Faulty form: CLEAR_INDEX_REC_Q is missing.
ClearIndexRecNot(s) == slotOf

\* CLEAR_INDEX_REC_Q.
ClearIndexRec(s) == [i \in Id |-> IF slotOf[i] = s THEN None ELSE slotOf[i]]

\* UPDATE_SLOT_AGE_Q, NEW_INDEX_Q and COMMIT: the transaction's effects.
Committed(w) ==
    LET s == slot[w]
        i == lastId + 1
    IN  /\ pc[w] = "locked"
        /\ lastId < MaxIndex
        /\ lastId' = i
        /\ usage' = [usage EXCEPT ![disk[w]] = @ + UsageInc[disk[w]]]
        /\ used' = [used EXCEPT ![s] = stamp[w]]
        /\ slotOf' = [ClearIndexRec(s) EXCEPT ![i] = s]
        /\ rows' = rows \cup {i}
        /\ lock' = Unlocked(w)
        /\ taken' = [taken EXCEPT ![s] = i]
        /\ lapped' = (lapped \/ WritingTo(s) # {})
        /\ UNCHANGED <<mode, ready, expired, clock, fileVars, otherVars>>

Commit(w) ==
    /\ Committed(w)
    /\ idx' = [idx EXCEPT ![w] = lastId']
    /\ Goto(w, "mkdir")
    /\ stamp' = [stamp EXCEPT ![w] = 0]
    /\ disk' = [disk EXCEPT ![w] = None]
    /\ UNCHANGED slot

\* The connection fails after the server committed: the chain is tried again.
CommitLost(w) ==
    /\ Committed(w)
    /\ Leave({w})

\* A statement fails and the transaction is rolled back.
RollBack(w) ==
    /\ pc[w] \in {"begun", "chosen", "locked"}
    /\ lock' = Unlocked(w)
    /\ Leave({w})
    /\ UNCHANGED <<allocVars, rowVars, clock, fileVars, otherVars>>

-----------------------------------------------------------------------------
\* output_bucket: the files, then the ready flag.

MkDir(w) ==
    /\ pc[w] = "mkdir"
    /\ idx[w] \notin dir
    /\ dir' = dir \cup {idx[w]}
    /\ Goto(w, "open")
    /\ UNCHANGED <<allocVars, rowVars, clock, lock, data, link, unlinked, stamp, disk, idx, slot, otherVars>>

\* write_index for the flows: the file FLOW is made and the slot truncated ...
FcapOpen(w) ==
    /\ pc[w] = "open"
    /\ idx[w] \in dir
    /\ data' = [data EXCEPT ![slot[w]] = {}]
    /\ Goto(w, "write")
    /\ UNCHANGED <<allocVars, rowVars, clock, lock, dir, link, unlinked, stamp, disk, idx, slot, otherVars>>

\* ... and the flows are written.
WriteFlows(w) ==
    /\ pc[w] = "write"
    /\ data' = [data EXCEPT ![slot[w]] = @ \cup {idx[w]}]
    /\ Goto(w, "link")
    /\ UNCHANGED <<allocVars, rowVars, clock, lock, dir, link, unlinked, stamp, disk, idx, slot, otherVars>>

\* Faulty form: the row is made ready before the indexes and the link are there.
WriteIndexesLate(w) ==
    /\ pc[w] = "link"
    /\ ready' = [ready EXCEPT ![idx[w]] = idx[w] \in rows]
    /\ Goto(w, "ready")
    /\ UNCHANGED <<allocVars, rows, slotOf, expired, clock, lock, fileVars, stamp, disk, idx, slot,
                   otherVars>>

\* The other indexes, then the symbolic link to the slot: nobody looks whether symlink
\* made it.  Nor does write_index fail when a header or a preview cannot be written;
\* what the index files hold is not in this model.
WriteIndexes(w) ==
    /\ pc[w] = "link"
    /\ idx[w] \in dir
    /\ \E made \in BOOLEAN :
          /\ made \/ idx[w] \in LinkFails
          /\ link' = [link EXCEPT ![idx[w]] = IF made THEN slot[w] ELSE None]
          /\ unlinked' = [unlinked EXCEPT ![idx[w]] = ~made]
    /\ Goto(w, "ready")
    /\ UNCHANGED <<allocVars, rowVars, clock, lock, data, dir, stamp, disk, idx, slot, otherVars>>

\* A directory or a file cannot be made, or a flow or a record not be written: the chain
\* is given up.
IoError(w) ==
    /\ pc[w] \in {"mkdir", "open", "write", "link"}
    /\ Leave({w})
    /\ UNCHANGED <<allocVars, rowVars, clock, lock, fileVars, otherVars>>

\* set_index_ready, an UPDATE that may fail or find no row.
SetIndexReady(w) ==
    /\ pc[w] = "ready"
    /\ \/ UNCHANGED ready
       \/ ready' = [ready EXCEPT ![idx[w]] = idx[w] \in rows]
    /\ Leave({w})
    /\ UNCHANGED <<allocVars, rows, slotOf, expired, clock, lock, fileVars, otherVars>>

\* The capture process dies and is started again.  Without an ACTIVE disk it does so
\* in set_save_info, which reads a row that is not there.
Crash ==
    /\ \E w \in Writer : pc[w] # "idle"
    /\ Leave(Writer)
    /\ lock' = [d \in Disk |-> None]
    /\ UNCHANGED <<allocVars, rowVars, clock, fileVars, otherVars>>

WriterStep(w) ==
    \/ Begin(w) \/ NextDisk(w) \/ IncUsage(w) \/ Commit(w) \/ CommitLost(w) \/ RollBack(w)
    \/ MkDir(w) \/ FcapOpen(w) \/ WriteFlows(w) \/ WriteIndexes(w) \/ IoError(w) \/ SetIndexReady(w)

-----------------------------------------------------------------------------
\* clean_indexes.

storeVars == <<allocVars, clock, lock, writerVars, operator, toggles, search>>

CleanStart ==
    /\ Cleaning
    /\ cleaner = "idle"
    /\ rows # {}
    /\ cleaner' = "delete"
    /\ work' = {i \in rows : expired[i]}
    /\ UNCHANGED <<storeVars, rowVars, fileVars, item, sawReady, free>>

\* Index.delete: the directory ...
RemoveDir ==
    /\ cleaner = "delete" /\ item = None
    /\ \E i \in work :
          /\ dir' = dir \ {i}
          /\ link' = [link EXCEPT ![i] = None]
          /\ unlinked' = [unlinked EXCEPT ![i] = FALSE]
          /\ item' = i
          /\ work' = work \ {i}
    /\ UNCHANGED <<storeVars, rowVars, data, cleaner, sawReady, free>>

\* ... then the row.
RemoveRow ==
    /\ item # None
    /\ rows' = rows \ {item}
    /\ slotOf' = [slotOf EXCEPT ![item] = None]
    /\ ready' = [ready EXCEPT ![item] = FALSE]
    /\ expired' = [expired EXCEPT ![item] = FALSE]
    /\ item' = None
    /\ UNCHANGED <<storeVars, fileVars, cleaner, work, sawReady, free>>

\* Faulty form: indexes that are not ready may go as well.
ExpirableUnready == {i \in rows : slotOf[i] = None \/ ~ready[i]}

\* What may be expired: index rows without a slot.
Expirable == {i \in rows : slotOf[i] = None}

\* The space is measured and the expirable rows are read.
CleanMeasure ==
    /\ cleaner = "delete" /\ work = {} /\ item = None
    /\ cleaner' = "expire"
    /\ free' = IF Cardinality(dir) > IndexSpace THEN 0 ELSE IndexSpace - Cardinality(dir)
    /\ work' = Expirable
    /\ sawReady' = [i \in Id |-> i \in Expirable /\ ready[i]]
    /\ UNCHANGED <<storeVars, rowVars, fileVars, item>>

\* Faulty form: the space of the expired index is taken off the free space.
ExpireCountsDown ==
    /\ cleaner = "expire"
    /\ free < Reserved
    /\ \E i \in work :
          /\ expired' = [expired EXCEPT ![i] = TRUE]
          /\ ready' = [ready EXCEPT ![i] = sawReady[i]]
          /\ slotOf' = [slotOf EXCEPT ![i] = None]
          /\ free' = free - (IF i \in dir THEN 1 ELSE 0)
          /\ work' = work \ {i}
    /\ UNCHANGED <<storeVars, rows, fileVars, cleaner, item, sawReady>>

\* The row with the latest start_ts, which need not have the highest id, is saved
\* as it was read, but expired.
Expire ==
    /\ cleaner = "expire"
    /\ free < Reserved
    /\ \E i \in work :
          /\ expired' = [expired EXCEPT ![i] = TRUE]
          /\ ready' = [ready EXCEPT ![i] = sawReady[i]]
          /\ slotOf' = [slotOf EXCEPT ![i] = None]
          /\ free' = free + (IF i \in dir THEN 1 ELSE 0)
          /\ work' = work \ {i}
    /\ UNCHANGED <<storeVars, rows, fileVars, cleaner, item, sawReady>>

CleanEnd ==
    /\ cleaner = "expire"
    /\ free >= Reserved \/ work = {}
    /\ cleaner' = "idle" /\ work' = {} /\ free' = 0
    /\ sawReady' = [i \in Id |-> FALSE]
    /\ UNCHANGED <<storeVars, rowVars, fileVars, item>>

CleanerStep ==
    CleanStart \/ RemoveDir \/ RemoveRow \/ CleanMeasure \/ Expire \/ CleanEnd

-----------------------------------------------------------------------------
\* The activation task reads a disk's row and saves all of it with the other mode.

restVars == <<used, lastId, taken, lapped, rowVars, clock, lock, fileVars, writerVars, cleanerVars, search>>

LoadDisk(d) ==
    /\ operator = None /\ toggles < MaxToggles
    /\ toggles' = toggles + 1
    /\ operator' = [disk |-> d, usage |-> usage[d],
                    mode |-> IF mode[d] = "ACTIVE" THEN "DISABLED" ELSE "ACTIVE"]
    /\ UNCHANGED <<diskVars, restVars>>

SaveDisk ==
    /\ operator # None
    /\ lock[operator.disk] = None
    /\ mode' = [mode EXCEPT ![operator.disk] = operator.mode]
    /\ usage' = [usage EXCEPT ![operator.disk] = operator.usage]
    /\ operator' = None
    /\ UNCHANGED <<toggles, restVars>>

-----------------------------------------------------------------------------
\* search_node with packets, for one of the indexes it selects.

noSearchVars == <<allocVars, rowVars, clock, lock, fileVars, writerVars, cleanerVars, operator, toggles>>

SelectIndex(i) ==
    /\ search.step = "none"
    /\ i \in rows /\ ready[i]
    /\ search' = [step |-> "selected", id |-> i]
    /\ UNCHANGED noSearchVars

\* The indexes that have packets where the link FCAP of index i leads to.
Reached(i) == IF link[i] = None THEN {} ELSE data[link[i]]

\* pcap_fetch reads the packets through the link FCAP.  fh_load compares what it reads
\* with the flow record: a file that is too short, or another first packet than this
\* index has there, ends the search with an error, as does a link that is not there.
FetchPackets ==
    /\ search.step = "selected"
    /\ \/ /\ search.id \in Reached(search.id)
          /\ search' = NoSearch
       \/ /\ Reached(search.id) # {search.id}
          /\ search' = [search EXCEPT !.step = "failed"]
    /\ UNCHANGED noSearchVars

SearchEnd ==
    /\ search.step # "none"
    /\ search' = NoSearch
    /\ UNCHANGED noSearchVars

Next ==
    \/ \E w \in Writer : WriterStep(w)
    \/ Crash
    \/ CleanerStep
    \/ \E d \in Toggled : LoadDisk(d)
    \/ SaveDisk
    \/ \E i \in InSpan : SelectIndex(i)
    \/ FetchPackets \/ SearchEnd

Spec == Init /\ [][Next]_vars

-----------------------------------------------------------------------------

\* The variables have their types.
TypeOK ==
    /\ mode \in [Disk -> {"ACTIVE", "DISABLED"}] /\ usage \in [Disk -> Nat]
    /\ used \in [Slot -> Nat] /\ lastId \in 0..MaxIndex /\ clock \in 0..MaxBegin
    /\ rows \subseteq 1..lastId
    /\ slotOf \in [Id -> Slot \cup {None}]
    /\ ready \in [Id -> BOOLEAN] /\ expired \in [Id -> BOOLEAN]
    /\ lock \in [Disk -> Writer \cup {None}]
    /\ data \in [Slot -> SUBSET Id] /\ dir \subseteq Id /\ link \in [Id -> Slot \cup {None}]
    /\ pc \in [Writer -> {"idle", "begun", "chosen", "locked", "mkdir", "open", "write", "link", "ready"}]
    /\ stamp \in [Writer -> Nat] /\ disk \in [Writer -> Disk \cup {None}]
    /\ idx \in [Writer -> Id \cup {None}] /\ slot \in [Writer -> Slot \cup {None}]
    /\ cleaner \in {"idle", "delete", "expire"} /\ work \subseteq Id /\ item \in Id \cup {None}
    /\ sawReady \in [Id -> BOOLEAN] /\ free \in Nat
    /\ operator = None \/ operator \in [disk : Disk, usage : Nat, mode : {"ACTIVE", "DISABLED"}]
    /\ toggles \in 0..MaxToggles
    /\ search \in [step : {"none", "selected", "failed"}, id : Id \cup {None}]
    /\ unlinked \in [Id -> BOOLEAN]
    /\ taken \in [Slot -> 0..MaxIndex] /\ lapped \in BOOLEAN

\* No two index rows name the same capture slot: an index whose slot is given to
\* another one loses it in the same transaction (output.c:751-752, 801-804).
OneIndexPerSlot ==
    \A i, j \in rows : slotOf[i] = slotOf[j] /\ slotOf[i] # None => i = j

\* An index that is ready and still has its slot has its directory, and the slot holds
\* its packets and nothing else, whatever errors and crashes there were; it has the link
\* to them, too, exactly unless symlink() failed, which output_bucket does not notice
\* (output.c:138, 152-158, 852-863).  Except if a writer was so slow that its slot came
\* round again.
ReadyHasData ==
    ~lapped => \A i \in rows : ready[i] /\ slotOf[i] # None =>
                  /\ i \in dir /\ data[slotOf[i]] = {i}
                  /\ link[i] = IF unlinked[i] THEN None ELSE slotOf[i]

\* Every index directory has its row, so that clean_indexes finds it one day: the
\* row is made before the directory and goes after it (output.c:107-123,
\* capture.py:277-287).
NoOrphanDir == ~lapped => dir \subseteq rows

\* No data is overwritten on a disk that has a slot that was never used: the lock
\* on the disk's row keeps two threads from getting the same oldest slot
\* (output.c:749-750, 785-799).
FreshFirst ==
    [][\A s, r \in Slot :
          taken'[s] # taken[s] /\ taken[s] # 0 /\ DiskOf[r] = DiskOf[s] => taken[r] # 0]_vars

\* The disks in use fill evenly: none is ahead of another by more than one
\* increment for each writer, though NEXT_DISK_Q reads usage without a lock
\* (output.c:746-748, disk_management.py:744-750).  That goes for disks of which one
\* may have been disabled; one that comes back is as far behind as it was away.
DisksBalanced ==
    toggles < 2 =>
        \A d, e \in Active : usage[d] <= usage[e] + Cardinality(Writer) * UsageInc[d]

\* A packet search that selected an index fetches its packets, although it has no lock
\* and others write meanwhile: it fails only if the link was never made, or the slot was
\* given to another index or the index was deleted since (search.py:53-60,
\* packets.c:57-110).
FetchFailsOnlyLost ==
    search.step = "failed" =>
        lapped \/ unlinked[search.id] \/ search.id \notin rows \/ slotOf[search.id] = None
=============================================================================
