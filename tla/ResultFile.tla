----------------------------- MODULE ResultFile -----------------------------
(***************************************************************************)
(* How searches share a result file.  Each step of a search (sub-index,    *)
(* AND, OR, flows) has a result file in the index directory; a search that *)
(* does not find it makes it, writing to <path>.tmp and renaming, and then *)
(* reads it (ord_set_init, ord_set_cleanup).  Searches are processes that  *)
(* run at the same time over the same index.                               *)
(*                                                                         *)
(* A file is named by the search that created it.  Times are abstracted: a *)
(* temporary file can look old, and a reader's wait can time out, when its *)
(* writer is dead, or is alive and Pauses lets it be slow.                 *)
(***************************************************************************)
EXTENDS Naturals, FiniteSets

CONSTANTS
    Search,      \* the searches
    NoFile,      \* the path names nothing
    CleansUp,    \* the step calls ord_set_cleanup after EEXIST, as flow_fetch does
    Pauses,      \* a live writer may stop writing for longer than the timeouts
    MaxCrashes,  \* how many searches may die
    MaxErrors    \* how many may fail to write all of their items

ASSUME ResultAssumption ==
    /\ NoFile \notin Search /\ CleansUp \in BOOLEAN /\ Pauses \in BOOLEAN /\ MaxCrashes \in Nat
    /\ MaxErrors \in Nat

VARIABLES
    at,        \* what each search does
    tmp,       \* the file at <path>.tmp
    final,     \* the file at <path>
    complete,  \* the files that have all their items
    broken,    \* the files of which some items could not be written
    watch,     \* of each search: the file its inotify watch is on
    moved,     \* the files that were renamed since they were made
    crashes,   \* how many searches died
    robbed     \* history: the temporary file of a live writer was removed

vars == <<at, tmp, final, complete, broken, watch, moved, crashes, robbed>>
files == <<tmp, final, complete, broken, moved, robbed>>

Init ==
    /\ at = [p \in Search |-> "look"]
    /\ tmp = NoFile /\ final = NoFile
    /\ complete = {} /\ broken = {} /\ moved = {}
    /\ watch = [p \in Search |-> NoFile]
    /\ crashes = 0 /\ robbed = FALSE

Goes(p, l) == at' = [at EXCEPT ![p] = l]

\* Nobody writes to file f any more: its maker died, or left it after an error.
Abandoned(f) == at[f] \in {"dead", "failed"}

\* The file f may look as if nobody wrote to it any more.
Idle(f) == Pauses \/ Abandoned(f)

-----------------------------------------------------------------------------
\* ord_set_init in OSET_WRITE mode.

\* access(path): with the file there, there is nothing to make.
Look(p) ==
    /\ at[p] = "look"
    /\ Goes(p, IF final = NoFile THEN "tmp" ELSE "exists")
    /\ UNCHANGED <<files, watch, crashes>>

\* access(tmp) and stat: an old temporary file is to go.
LookTmp(p) ==
    /\ at[p] = "tmp"
    /\ \/ Goes(p, "create")
       \/ tmp # NoFile /\ Idle(tmp) /\ Goes(p, "unlink")
    /\ UNCHANGED <<files, watch, crashes>>

\* unlink(tmp), whoever is writing to it by now.
Unlink(p) ==
    /\ at[p] = "unlink"
    /\ robbed' = (robbed \/ (tmp # NoFile /\ ~Abandoned(tmp)))
    /\ tmp' = NoFile
    /\ Goes(p, "create")
    /\ UNCHANGED <<final, complete, broken, moved, watch, crashes>>

\* open(tmp, O_CREAT | O_EXCL).
Create(p) ==
    /\ at[p] = "create"
    /\ IF tmp = NoFile
         THEN tmp' = p /\ Goes(p, "write")
         ELSE UNCHANGED tmp /\ Goes(p, "exists")
    /\ UNCHANGED <<final, complete, broken, moved, watch, crashes, robbed>>

\* The caller gets EEXIST.
Exists(p) ==
    /\ at[p] = "exists"
    /\ Goes(p, IF CleansUp THEN "rename" ELSE "open")
    /\ UNCHANGED <<files, watch, crashes>>

-----------------------------------------------------------------------------
\* The step's work and ord_set_cleanup.

\* Faulty form: the file is renamed before its last items are written.
WriteLate(p) ==
    /\ at[p] = "write"
    /\ Goes(p, "rename")
    /\ UNCHANGED <<files, watch, crashes>>

\* All items are pushed; ord_set_cleanup dumps the last buffer.
Write(p) ==
    /\ at[p] = "write"
    /\ complete' = complete \cup {p}
    /\ Goes(p, "rename")
    /\ UNCHANGED <<tmp, final, broken, moved, watch, crashes, robbed>>

\* Some items are not written.  Of the errors of ord_set_push and o_set_dump_buffer
\* some callers know nothing: and_results and search_subindex go on, a short write is no
\* error at all, and ord_set_cleanup goes on to the rename.  Others return, and the
\* temporary file stays.
WriteFails(p) ==
    /\ at[p] = "write"
    /\ Cardinality(broken) < MaxErrors
    /\ broken' = broken \cup {p}
    /\ Goes(p, "rename") \/ Goes(p, "failed")
    /\ UNCHANGED <<tmp, final, complete, moved, watch, crashes, robbed>>

\* rename(tmp, path), whatever file that is now.  Only then the caller hears of a last
\* buffer that was not written.
Rename(p) ==
    /\ at[p] = "rename"
    /\ IF tmp = NoFile
         THEN UNCHANGED <<tmp, final, moved>>
         ELSE final' = tmp /\ tmp' = NoFile /\ moved' = moved \cup {tmp}
    /\ Goes(p, "open") \/ (p \in broken /\ Goes(p, "failed"))
    /\ UNCHANGED <<complete, broken, watch, crashes, robbed>>

-----------------------------------------------------------------------------
\* ord_set_init in OSET_READ mode, in the next step.

\* open(path).
Open(p) ==
    /\ at[p] = "open"
    /\ Goes(p, IF final = NoFile THEN "access" ELSE "read")
    /\ UNCHANGED <<files, watch, crashes>>

\* access(tmp): without it the file is not expected.
AccessTmp(p) ==
    /\ at[p] = "access"
    /\ Goes(p, IF tmp = NoFile THEN "failed" ELSE "watch")
    /\ UNCHANGED <<files, watch, crashes>>

\* inotify_add_watch(tmp) ...
AddWatch(p) ==
    /\ at[p] = "watch"
    /\ watch' = [watch EXCEPT ![p] = tmp]
    /\ Goes(p, "again")
    /\ UNCHANGED <<files, crashes>>

\* ... and access(path) once more.
AccessAgain(p) ==
    /\ at[p] = "again"
    /\ Goes(p, IF final = NoFile THEN "poll" ELSE "reopen")
    /\ UNCHANGED <<files, watch, crashes>>

\* Faulty form: only the event ends the wait.
PollEvent(p) ==
    /\ at[p] = "poll"
    /\ watch[p] \in moved
    /\ Goes(p, "reopen")
    /\ UNCHANGED <<files, watch, crashes>>

\* ppoll: the event; or a time-out and the temporary file is gone, or was not
\* written to since the last time-out.
Poll(p) ==
    /\ at[p] = "poll"
    /\ \/ (watch[p] \in moved \/ tmp = NoFile) /\ Goes(p, "reopen")
       \/ tmp # NoFile /\ Idle(tmp) /\ Goes(p, "failed")
    /\ UNCHANGED <<files, watch, crashes>>

\* open(path) again.
Reopen(p) ==
    /\ at[p] = "reopen"
    /\ Goes(p, IF final = NoFile THEN "failed" ELSE "read")
    /\ UNCHANGED <<files, watch, crashes>>

\* The search process dies while it makes the file.
Crash(p) ==
    /\ at[p] \in {"write", "rename"}
    /\ crashes < MaxCrashes
    /\ crashes' = crashes + 1
    /\ Goes(p, "dead")
    /\ UNCHANGED <<files, watch>>

Step(p) ==
    \/ Look(p) \/ LookTmp(p) \/ Unlink(p) \/ Create(p) \/ Exists(p)
    \/ Write(p) \/ WriteFails(p) \/ Rename(p)
    \/ Open(p) \/ AccessTmp(p) \/ AddWatch(p) \/ AccessAgain(p) \/ Poll(p) \/ Reopen(p)

Next == \E p \in Search : Step(p) \/ Crash(p)

\* Every search process is scheduled.
Spec == Init /\ [][Next]_vars /\ \A p \in Search : WF_vars(Step(p))

-----------------------------------------------------------------------------

\* A result file has all its items from the moment it can be found: the temporary
\* file is renamed "so that the file is atomically ready" (ordered_set.c:452-453).
\* Left out are searches that took a live writer's file for an abandoned one: two
\* that remove the same old file, or a writer silent for ten seconds.
AtomicallyReady == ~robbed /\ final # NoFile => final \in complete

\* A result file that can be found has all its items exactly unless one of its own
\* writes failed: the file under its name is never one that is still being written, nor
\* one that its writer left when it died (ordered_set.c:168-187, 432-460).  The same
\* executions are left out.
CompleteUnlessFailed ==
    ~robbed /\ final # NoFile => (final \in complete <=> final \notin broken)

\* Every search comes to an end, whoever dies: a reader does not wait for ever for a
\* file that nobody writes (ordered_set.c:96-131).
SearchesEnd == \A p \in Search : <>(at[p] \in {"read", "failed", "dead"})
=============================================================================
