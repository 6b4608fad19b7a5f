--------------------------- MODULE CaptureRunner ---------------------------
(***************************************************************************)
(* The capture runner (core/bin/capture_runner.py), the tasks of the       *)
(* celery worker that write the same row (capture_node_api/tasks), and the *)
(* capture processes the runner starts and stops.                          *)
(*                                                                         *)
(* They meet in the one row of the Status table.  Both sides load the      *)
(* whole row, work on their copy and save the whole copy, so each may undo *)
(* what the other saved in between.  The worker runs one task at a time    *)
(* (-c 1).  Of the row we keep what decides whether capture runs: the      *)
(* requested state, the pid and settings_changed.                          *)
(***************************************************************************)
EXTENDS Naturals

CONSTANTS
    Pids,       \* process ids; a dead one is given out again once forgotten
    NoPid,      \* Python's None
    Tasks,      \* the tasks that the users and celery beat ask for
    Installed,  \* the row exists before the runner starts
    MaxFaults   \* bound on refused starts, on interfaces found disabled and on
                \* deaths of the runner

TaskNames == {"start", "restart", "stop", "settings", "stats"}

ASSUME RunnerAssumption ==
    /\ NoPid \notin Pids
    /\ Tasks \subseteq TaskNames
    /\ Installed \in BOOLEAN
    /\ MaxFaults \in Nat

VARIABLES
    row,     \* the row of the Status table, if there is one
    mem,     \* the runner's Status object
    rpc,     \* where the runner is
    child,   \* the process the runner has just started
    task,    \* the task in the worker, or "none"
    wmem,    \* the task's Status object until it is saved
    wpc,     \* where the task is
    proc,    \* the state of every process
    termed,  \* processes that have received SIGTERM
    asked,   \* history: processes for which a stop or a restart was saved
    want,    \* history: the last of start, restart and stop that was saved
    faults   \* number of such events so far

runnerVars == <<mem, rpc, child, faults>>
workerVars == <<task, wmem, wpc>>
procVars == <<proc, termed>>
vars == <<row, runnerVars, workerVars, procVars, asked, want>>

-----------------------------------------------------------------------------
\* stored: the object has an id, that is, it is or comes from a row of the
\* table. The table is empty while row.stored is FALSE.
Rows == [capture : {"STARTED", "RESTART", "STOPPED"},
         pid : Pids \cup {NoPid},
         changed : BOOLEAN,
         stored : BOOLEAN]

\* The defaults of the model's fields, for an object or for a row.
NewStatus(stored) == [capture |-> "STOPPED", pid |-> NoPid, changed |-> TRUE,
                      stored |-> stored]

\* SingletonModel.load: the row, or a new object that is not in the table.
Load(r) == IF r.stored THEN r ELSE NewStatus(FALSE)

\* Model.save: every field is written, and a new object gets its row.
Saved(s) == [s EXCEPT !.stored = TRUE]

\* A process is in the process table until it has ended.
Alive == {p \in Pids : proc[p] # "none"}

\* The process that holds the lock file: it captures on the interfaces.
InOperation == {p \in Pids : proc[p] = "full"}

\* Status.capture_status. RESTART for other reasons than settings_changed
\* (a new binary, changed interfaces) is treated by every caller like OK; for
\* NOT_OK because no interface is enabled see NoInterface.
CaptureStatus(s) ==
    IF s.pid = NoPid THEN "NOT_OK"
    ELSE IF s.changed THEN "RESTART"
    ELSE IF s.pid \notin Alive THEN "NOT_OK"
    ELSE "OK"

Init ==
    /\ row = NewStatus(Installed)
    /\ mem = Load(row)
    /\ rpc = "sleep"
    /\ child = NoPid
    /\ task = "none"
    /\ wmem = NewStatus(FALSE)
    /\ wpc = "idle"
    /\ proc = [p \in Pids |-> "none"]
    /\ termed = {}
    /\ asked = {}
    /\ want = "none"
    /\ faults = 0

-----------------------------------------------------------------------------
(***************************************************************************)
(* The runner.                                                             *)
(***************************************************************************)

\* The top of main's loop: refresh_from_db looks the row up by the object's
\* id; an object that was never saved has none, so the look-up never
\* succeeds and the loop continues.
Refresh ==
    /\ rpc = "sleep"
    /\ mem.stored /\ row.stored
    /\ mem' = row
    /\ rpc' = CASE row.capture = "RESTART" -> "start"
                [] row.capture = "STARTED" -> "check"
                [] row.capture = "STOPPED" ->
                       IF row.pid = NoPid THEN "sleep" ELSE "stop"
    /\ UNCHANGED <<row, child, faults, workerVars, procVars, asked, want>>

\* main: capture should be running, is it?
Check ==
    /\ rpc = "check"
    /\ rpc' = IF CaptureStatus(mem) = "NOT_OK" THEN "start" ELSE "sleep"
    /\ UNCHANGED <<row, mem, child, faults, workerVars, procVars, asked, want>>

\* A mutation: stop_capture also forgets the pid, as 0.
StopCaptureZero ==
    IF mem.pid \in Alive
    THEN /\ termed' = termed \cup {mem.pid}
         /\ mem' = [mem EXCEPT !.changed = TRUE, !.pid = 0]
         /\ row' = Saved(mem')
    ELSE UNCHANGED <<termed, mem, row>>

\* Status.stop_capture: kill -15, and if that succeeds a new
\* capture_state_changed, which sets settings_changed through __setattr__,
\* and save(). Nobody but the runner sees whether the kill came before or
\* after a save of the worker, so both are one step.
StopCapture ==
    IF mem.pid \in Alive
    THEN /\ termed' = termed \cup {mem.pid}
         /\ mem' = [mem EXCEPT !.changed = TRUE]
         /\ row' = Saved(mem')
    ELSE UNCHANGED <<termed, mem, row>>

\* main: capture should be stopped and there is a pid.
Stop ==
    /\ rpc = "stop"
    /\ StopCapture
    /\ rpc' = "sleep"
    /\ UNCHANGED <<child, faults, workerVars, proc, asked, want>>

\* A mutation: nothing is started when the old process could not be killed.
StartCaptureKilled ==
    /\ rpc = "start"
    /\ IF CaptureStatus(mem) \in {"OK", "RESTART"}
       THEN StopCapture
       ELSE UNCHANGED <<termed, mem, row>>
    /\ rpc' = IF mem.pid = NoPid \/ mem.pid \in Alive THEN "launch" ELSE "sleep"
    /\ UNCHANGED <<child, faults, workerVars, proc, asked, want>>

\* start_capture: when something is or was running this is a restart.
StartCapture ==
    /\ rpc = "start"
    /\ IF CaptureStatus(mem) \in {"OK", "RESTART"}
       THEN StopCapture
       ELSE UNCHANGED <<termed, mem, row>>
    /\ rpc' = "launch"
    /\ UNCHANGED <<child, faults, workerVars, proc, asked, want>>

\* start_capture: the index disk, a capture disk, the interfaces or the
\* bucket memory are not as needed; running_message is saved.
Refuse ==
    /\ rpc = "launch"
    /\ faults < MaxFaults
    /\ faults' = faults + 1
    /\ row' = Saved(mem)
    /\ rpc' = "sleep"
    /\ UNCHANGED <<mem, child, workerVars, procVars, asked, want>>

\* main and start_capture: the process is there but no interface is enabled, so
\* capture_status says NOT_OK; start_capture does not stop the process and
\* refuses to start another.
NoInterface ==
    /\ rpc = "check"
    /\ CaptureStatus(mem) = "OK"
    /\ faults < MaxFaults
    /\ faults' = faults + 1
    /\ row' = Saved(mem)
    /\ rpc' = "sleep"
    /\ UNCHANGED <<mem, child, workerVars, procVars, asked, want>>

\* start_capture: Popen. The kernel gives out any pid that is not in use; we
\* leave out the chance that it is one somebody still remembers.
Launch ==
    /\ rpc = "launch"
    /\ \E p \in Pids \ (Alive \cup {mem.pid, wmem.pid, row.pid}) :
           /\ child' = p
           /\ proc' = [proc EXCEPT ![p] = "init"]
    /\ rpc' = "wait"
    /\ UNCHANGED <<row, mem, faults, workerVars, termed, asked, want>>

\* start_capture: the process ended within half a second.
LaunchFailed ==
    /\ rpc = "wait"
    /\ child \notin Alive
    /\ row' = Saved(mem)
    /\ child' = NoPid
    /\ rpc' = "sleep"
    /\ UNCHANGED <<mem, faults, workerVars, procVars, asked, want>>

\* start_capture: half a second has passed and the process was there.
Launched ==
    /\ rpc = "wait"
    /\ child \in Alive
    /\ rpc' = "record"
    /\ UNCHANGED <<row, mem, child, faults, workerVars, procVars, asked, want>>

\* A mutation: the request to restart stays in the row.
RecordRestart ==
    /\ rpc = "record"
    /\ mem' = [mem EXCEPT !.pid = child, !.changed = FALSE]
    /\ row' = Saved(mem')
    /\ child' = NoPid
    /\ rpc' = "sleep"
    /\ UNCHANGED <<faults, workerVars, procVars, asked, want>>

\* start_capture: the new pid, settings_changed and capture, and save().
Record ==
    /\ rpc = "record"
    /\ mem' = [mem EXCEPT !.capture = "STARTED", !.pid = child, !.changed = FALSE]
    /\ row' = Saved(mem')
    /\ child' = NoPid
    /\ rpc' = "sleep"
    /\ UNCHANGED <<faults, workerVars, procVars, asked, want>>

\* The runner is killed, or an exception ends it, and supervisord starts it
\* again: main loads the row. The capture process goes on.
RunnerRestart ==
    /\ faults < MaxFaults
    /\ faults' = faults + 1
    /\ mem' = Load(row)
    /\ child' = NoPid
    /\ rpc' = "sleep"
    /\ UNCHANGED <<row, workerVars, procVars, asked, want>>

RunnerStep == \/ Refresh \/ Check \/ Stop \/ StartCapture
              \/ Launch \/ LaunchFailed \/ Launched \/ Record

-----------------------------------------------------------------------------
(***************************************************************************)
(* The worker's tasks. All start with Status.load().                       *)
(***************************************************************************)

\* update_stats returns at once when no index is ready, so only a capture
\* node that has a row can have anything to upload.
Begin(t) ==
    /\ wpc = "idle"
    /\ t = "stats" => row.stored
    /\ task' = t
    /\ wmem' = Load(row)
    /\ wpc' = "save"
    /\ UNCHANGED <<row, runnerVars, procVars, asked, want>>

\* What a task changes in its object: set_capture_state sets capture,
\* set_capture_settings (and init_index_device) set settings_changed,
\* update_stats sets nothing we keep.
Changed(t, s) ==
    CASE t = "start"    -> [s EXCEPT !.capture = "STARTED"]
      [] t = "restart"  -> [s EXCEPT !.capture = "RESTART"]
      [] t = "stop"     -> [s EXCEPT !.capture = "STOPPED"]
      [] t = "settings" -> [s EXCEPT !.changed = TRUE]
      [] t = "stats"    -> s

Requests == {"start", "restart", "stop"}

Save ==
    /\ wpc = "save"
    /\ row' = Saved(Changed(task, wmem))
    /\ wmem' = NewStatus(FALSE)
    /\ task' = "none"
    /\ wpc' = IF task \in Requests THEN "poll" ELSE "idle"
    /\ want' = IF task \in Requests THEN task ELSE want
    /\ asked' = IF task \in {"restart", "stop"} THEN Alive ELSE asked
    /\ UNCHANGED <<runnerVars, procVars>>

\* set_capture_state looks at the row until capture_state_changed changes or
\* two seconds are over, and returns.
Poll ==
    /\ wpc = "poll"
    /\ wpc' = "idle"
    /\ UNCHANGED <<row, runnerVars, task, wmem, procVars, asked, want>>

-----------------------------------------------------------------------------
(***************************************************************************)
(* The capture processes (indexer/pcapdb.c).                               *)
(***************************************************************************)

\* A process has ended, and its pid is free.
Ended(p) ==
    /\ proc' = [proc EXCEPT ![p] = "none"]
    /\ termed' = termed \ {p}
    /\ asked' = asked \ {p}
    /\ UNCHANGED <<row, runnerVars, workerVars, want>>

\* main: flock without waiting.
Lock(p) ==
    /\ proc[p] = "init"
    /\ InOperation = {}
    /\ proc' = [proc EXCEPT ![p] = "full"]
    /\ UNCHANGED <<row, runnerVars, workerVars, termed, asked, want>>

\* main: the lock is held by another process.
NoLock(p) ==
    /\ proc[p] = "init"
    /\ InOperation # {}
    /\ Ended(p)

\* pcapdb_shutdown: the interfaces are closed and the lock is released.
Release(p) ==
    /\ proc[p] = "full"
    /\ p \in termed
    /\ proc' = [proc EXCEPT ![p] = "finishing"]
    /\ UNCHANGED <<row, runnerVars, workerVars, termed, asked, want>>

\* pcapdb_shutdown: the last buckets have been indexed and written.
Finish(p) ==
    /\ proc[p] = "finishing"
    /\ Ended(p)

\* SIGTERM before the handler is installed ends a process; a process in
\* operation may fail at any time, for one because it gets no buckets.
Die(p) ==
    /\ \/ proc[p] = "init" /\ p \in termed
       \/ proc[p] = "full"
    /\ Ended(p)

ProcStep(p) == Lock(p) \/ NoLock(p) \/ Release(p) \/ Finish(p)

-----------------------------------------------------------------------------
Next == \/ RunnerStep \/ Refuse \/ NoInterface \/ RunnerRestart
        \/ \E t \in Tasks : Begin(t)
        \/ Save \/ Poll
        \/ \E p \in Pids : ProcStep(p) \/ Die(p)

\* The runner's loop, a task that has begun and the processes go on; nobody
\* has to ask for anything, and nothing has to fail.
Spec == /\ Init /\ [][Next]_vars
        /\ WF_vars(RunnerStep)
        /\ WF_vars(Save \/ Poll)
        /\ \A p \in Pids : WF_vars(ProcStep(p))

-----------------------------------------------------------------------------
(***************************************************************************)
(* Properties.                                                             *)
(***************************************************************************)
TypeOK ==
    /\ row \in Rows
    /\ mem \in Rows
    /\ rpc \in {"sleep", "check", "stop", "start", "launch", "wait", "record"}
    /\ child \in Pids \cup {NoPid}
    /\ task \in TaskNames \cup {"none"}
    /\ wmem \in Rows
    /\ wpc \in {"idle", "save", "poll"}
    /\ wpc = "save" => task \in TaskNames
    /\ proc \in [Pids -> {"none", "init", "full", "finishing"}]
    /\ termed \subseteq Pids
    /\ asked \subseteq Pids
    /\ want \in {"none", "start", "restart", "stop"}
    /\ faults \in 0 .. MaxFaults

\* Nobody stops a capture process on its own: every process that was sent
\* SIGTERM was there when a stop or a restart was asked for, whatever rows
\* the runner and the tasks have overwritten since.
TermOnRequest == termed \subseteq asked

\* capture_runner.py: the script "makes sure it's running when appropriate":
\* while the row asks for capture, a capture process is in operation, and is
\* again when it has died. Left out are users who ask again and again.
StartObeyed ==
    []<>(\/ InOperation # {}
         \/ row.capture = "STOPPED"
         \/ wpc = "poll")

\* The one thing that keeps capture from running although the row asks for
\* it: a row with a pid and settings_changed, for which capture_status says
\* RESTART, and the runner starts nothing. A change of settings leaves such
\* a row, and so does every stop, through stop_capture's own save. In any
\* other row a process that has died, was refused or found the lock taken is
\* replaced, whatever saves of old copies the runner and the tasks make.
CaptureRuns ==
    []<>(\/ InOperation # {}
         \/ row.capture = "STOPPED"
         \/ row.capture = "STARTED" /\ row.changed /\ row.pid # NoPid
         \/ wpc = "poll")

\* capture_runner.py: "Capture is still running somewhere. Shut it down.":
\* once a stop is the last thing asked for, capture comes to an end.
StopObeyed ==
    []<>(\/ InOperation = {}
         \/ want # "stop"
         \/ wpc = "poll")
=============================================================================
