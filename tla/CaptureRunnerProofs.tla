------------------------ MODULE CaptureRunnerProofs ------------------------
(***************************************************************************)
(* Proofs about CaptureRunner, for any set of process ids, any set of      *)
(* tasks and any number of faults.                                         *)
(***************************************************************************)
EXTENDS CaptureRunner, TLAPS

(***************************************************************************)
(* Whole rows are saved, so a copy that asks for a stop or a restart names *)
(* a process for which that was asked, however old the copy is.            *)
(***************************************************************************)
Asking(s) == s.capture # "STARTED" /\ s.pid \in Alive => s.pid \in asked
RowsOK == Asking(row) /\ Asking(mem) /\ Asking(wmem)

\* Only running processes are in the two sets of processes.
SetsOK == termed \subseteq Alive /\ asked \subseteq Alive

\* The branch of main that calls stop_capture was taken for a stop, and
\* start_capture finds nothing to stop when it was called to start.
BranchOK ==
    /\ rpc = "stop" => mem.capture # "STARTED"
    /\ rpc = "start" /\ mem.capture = "STARTED" =>
           CaptureStatus(mem) = "NOT_OK"

IInv == TypeOK /\ RowsOK /\ SetsOK /\ BranchOK /\ TermOnRequest

LEMMA NewRow == \A b \in BOOLEAN : NewStatus(b) \in Rows /\ NewStatus(b).pid = NoPid
BY DEF NewStatus, Rows

LEMMA InitIInv == Init => IInv
<1> SUFFICES ASSUME Init PROVE IInv
  OBVIOUS
<1>1. row \in Rows /\ mem \in Rows /\ wmem \in Rows
  BY NewRow, RunnerAssumption DEF Init, Load
<1>2. row.pid = NoPid /\ mem.pid = NoPid /\ wmem.pid = NoPid
  BY NewRow, RunnerAssumption DEF Init, Load
<1>3. Alive = {}
  BY DEF Init, Alive
<1>4. TypeOK
  <2>1. faults \in 0 .. MaxFaults
    BY RunnerAssumption DEF Init
  <2>2. proc \in [Pids -> {"none", "init", "full", "finishing"}]
    BY DEF Init
  <2> QED
    BY <1>1, <2>1, <2>2 DEF Init, TypeOK
<1> QED
  BY <1>1, <1>2, <1>3, <1>4 DEF Init, IInv, RowsOK, Asking, SetsOK, BranchOK, TermOnRequest

-----------------------------------------------------------------------------
(***************************************************************************)
(* Types.                                                                  *)
(***************************************************************************)
LEMMA SavedRow == \A s \in Rows : /\ Saved(s) \in Rows
                                  /\ Saved(s).capture = s.capture
                                  /\ Saved(s).pid = s.pid
BY DEF Saved, Rows

LEMMA LoadRow == \A s \in Rows : Load(s) \in Rows /\ (Load(s) = s \/ Load(s).pid = NoPid)
BY NewRow DEF Load

LEMMA ChangedRow ==
    ASSUME NEW s \in Rows, NEW t \in TaskNames
    PROVE  /\ Changed(t, s) \in Rows
           /\ Changed(t, s).pid = s.pid
           /\ t = "start" => Changed(t, s).capture = "STARTED"
           /\ t \in {"settings", "stats"} => Changed(t, s).capture = s.capture
<1>1. CASE t = "start"
  BY <1>1 DEF Changed, Rows
<1>2. CASE t = "restart"
  BY <1>2 DEF Changed, Rows
<1>3. CASE t = "stop"
  BY <1>3 DEF Changed, Rows
<1>4. CASE t = "settings"
  BY <1>4 DEF Changed, Rows
<1>5. CASE t = "stats"
  BY <1>5 DEF Changed, Rows
<1> QED
  BY <1>1, <1>2, <1>3, <1>4, <1>5 DEF TaskNames

\* The effect of Status.stop_capture.
LEMMA StopTypes ==
    ASSUME TypeOK, StopCapture
    PROVE  /\ mem' \in Rows /\ row' \in Rows
           /\ mem'.pid = mem.pid /\ mem'.capture = mem.capture
           /\ row' = row \/ (row'.pid = mem.pid /\ row'.capture = mem.capture)
           /\ termed' = termed \/ (mem.pid \in Alive /\ termed' = termed \cup {mem.pid})
<1>1. CASE mem.pid \in Alive
  <2>1. mem' = [mem EXCEPT !.changed = TRUE] /\ row' = Saved(mem')
    BY <1>1 DEF StopCapture
  <2>2. mem' \in Rows /\ mem'.pid = mem.pid /\ mem'.capture = mem.capture
    BY <2>1 DEF TypeOK, Rows
  <2> QED
    BY <1>1, <2>1, <2>2, SavedRow DEF StopCapture
<1>2. CASE mem.pid \notin Alive
  BY <1>2 DEF StopCapture, TypeOK
<1> QED
  BY <1>1, <1>2

LEMMA TypeStep == TypeOK /\ [Next]_vars => TypeOK'
<1> SUFFICES ASSUME TypeOK, [Next]_vars PROVE TypeOK'
  OBVIOUS
<1> USE RunnerAssumption
<1>1. CASE Refresh
  BY <1>1 DEF Refresh, TypeOK, workerVars, procVars, Rows
<1>2. CASE Check
  BY <1>2 DEF Check, TypeOK, workerVars, procVars
<1>3. CASE Stop
  <2>1. termed' \subseteq Pids
    BY <1>3, StopTypes DEF Stop, TypeOK, Alive
  <2> QED
    BY <1>3, <2>1, StopTypes DEF Stop, TypeOK, workerVars
<1>4. CASE StartCapture
  <2>1. mem' \in Rows /\ row' \in Rows /\ termed' \subseteq Pids
    <3>1. CASE StopCapture
      BY <3>1, StopTypes DEF TypeOK, Alive
    <3>2. CASE UNCHANGED <<termed, mem, row>>
      BY <3>2 DEF TypeOK
    <3> QED
      BY <1>4, <3>1, <3>2 DEF StartCapture
  <2> QED
    BY <1>4, <2>1 DEF StartCapture, TypeOK, workerVars
<1>5. CASE Launch
  BY <1>5 DEF Launch, TypeOK, workerVars
<1>6. CASE LaunchFailed
  BY <1>6, SavedRow DEF LaunchFailed, TypeOK, workerVars, procVars
<1>7. CASE Launched
  BY <1>7 DEF Launched, TypeOK, workerVars, procVars
<1>8. CASE Record
  <2>1. mem' \in Rows
    BY <1>8 DEF Record, TypeOK, Rows
  <2> QED
    BY <1>8, <2>1, SavedRow DEF Record, TypeOK, workerVars, procVars
<1>9. CASE Refuse \/ NoInterface
  BY <1>9, SavedRow DEF Refuse, NoInterface, TypeOK, workerVars, procVars
<1>10. CASE RunnerRestart
  BY <1>10, LoadRow DEF RunnerRestart, TypeOK, workerVars, procVars
<1>11. ASSUME NEW t \in Tasks, Begin(t) PROVE TypeOK'
  BY <1>11, LoadRow DEF Begin, TypeOK, runnerVars, procVars
<1>12. CASE Save
  <2>1. row' \in Rows /\ wmem' \in Rows
    <3>1. Changed(task, wmem) \in Rows
      BY <1>12, ChangedRow DEF Save, TypeOK
    <3> QED
      BY <1>12, <3>1, NewRow, SavedRow DEF Save
  <2> QED
    BY <1>12, <2>1 DEF Save, TypeOK, runnerVars, procVars, Alive, Requests
<1>13. CASE Poll
  BY <1>13 DEF Poll, TypeOK, runnerVars, procVars
<1>14. ASSUME NEW p \in Pids, ProcStep(p) \/ Die(p) PROVE TypeOK'
  BY <1>14 DEF ProcStep, Lock, NoLock, Release, Finish, Die, Ended, TypeOK,
                runnerVars, workerVars
<1>15. CASE UNCHANGED vars
  BY <1>15 DEF vars, TypeOK, runnerVars, workerVars, procVars
<1> QED
  BY <1>1, <1>2, <1>3, <1>4, <1>5, <1>6, <1>7, <1>8, <1>9, <1>10, <1>11,
     <1>12, <1>13, <1>14, <1>15 DEF Next, RunnerStep

-----------------------------------------------------------------------------
(***************************************************************************)
(* The invariant.                                                          *)
(***************************************************************************)

\* A row without a process asks nothing of anybody.
LEMMA NoPidAsks == ASSUME NEW s, s.pid = NoPid PROVE Asking(s) /\ s.pid \notin Alive
BY RunnerAssumption DEF Asking, Alive

\* The runner's kill reaches only a process that mem names while mem asks
\* for a stop or a restart.
LEMMA StopInv ==
    ASSUME IInv, StopCapture, mem.capture # "STARTED",
           UNCHANGED <<proc, asked, wmem>>
    PROVE  RowsOK' /\ SetsOK' /\ TermOnRequest'
<1>1. Alive' = Alive
  BY DEF Alive
<1>2. mem.pid \in Alive => mem.pid \in asked
  BY DEF IInv, RowsOK, Asking
<1>3. Asking(mem)' /\ Asking(row)'
  BY <1>1, <1>2, StopTypes DEF IInv, RowsOK, Asking
<1>4. Asking(wmem)'
  BY <1>1 DEF IInv, RowsOK, Asking
<1>5. SetsOK' /\ TermOnRequest'
  BY <1>1, <1>2, StopTypes DEF IInv, SetsOK, TermOnRequest
<1> QED
  BY <1>3, <1>4, <1>5 DEF RowsOK

LEMMA RestStep ==
    ASSUME IInv, [Next]_vars
    PROVE  RowsOK' /\ SetsOK' /\ BranchOK' /\ TermOnRequest'
<1> USE DEF IInv
<1>1. CASE Refresh
  <2>1. Alive' = Alive /\ mem' = row /\ row' = row /\ wmem' = wmem /\ asked' = asked /\ termed' = termed
    BY <1>1 DEF Refresh, Alive, workerVars, procVars
  <2>2. rpc' = "stop" => row.capture # "STARTED"
    BY <1>1 DEF Refresh, TypeOK, Rows
  <2>3. rpc' = "start" => row.capture # "STARTED"
    BY <1>1 DEF Refresh, TypeOK, Rows
  <2> QED
    BY <2>1, <2>2, <2>3 DEF RowsOK, Asking, SetsOK, BranchOK, TermOnRequest
<1>2. CASE Check
  <2>1. Alive' = Alive /\ mem' = mem /\ row' = row /\ wmem' = wmem /\ asked' = asked /\ termed' = termed
    BY <1>2 DEF Check, Alive, workerVars, procVars
  <2>2. CaptureStatus(mem)' = CaptureStatus(mem)
    BY <2>1 DEF CaptureStatus
  <2>3. BranchOK'
    BY <1>2, <2>1, <2>2 DEF Check, BranchOK
  <2> QED
    BY <2>1, <2>3 DEF RowsOK, Asking, SetsOK, TermOnRequest
<1>3. CASE Stop
  <2>1. RowsOK' /\ SetsOK' /\ TermOnRequest'
    BY <1>3, StopInv DEF Stop, BranchOK, workerVars
  <2> QED
    BY <1>3, <2>1 DEF Stop, BranchOK
<1>4. CASE StartCapture
  <2>1. BranchOK'
    BY <1>4 DEF StartCapture, BranchOK
  <2>2. CASE CaptureStatus(mem) \in {"OK", "RESTART"}
    <3>1. mem.capture # "STARTED"
      BY <1>4, <2>2 DEF StartCapture, BranchOK
    <3> QED
      BY <1>4, <2>1, <2>2, <3>1, StopInv DEF StartCapture, workerVars
  <2>3. CASE CaptureStatus(mem) \notin {"OK", "RESTART"}
    <3>1. Alive' = Alive /\ mem' = mem /\ row' = row /\ wmem' = wmem /\ asked' = asked /\ termed' = termed
      BY <1>4, <2>3 DEF StartCapture, Alive, workerVars
    <3> QED
      BY <2>1, <3>1 DEF RowsOK, Asking, SetsOK, TermOnRequest
  <2> QED
    BY <2>2, <2>3
<1>5. CASE Launch
  <2>1. PICK p \in Pids \ (Alive \cup {mem.pid, wmem.pid, row.pid}) :
             proc' = [proc EXCEPT ![p] = "init"]
    BY <1>5 DEF Launch
  <2>2. Alive' = Alive \cup {p}
    BY <2>1 DEF Alive, TypeOK
  <2>3. mem' = mem /\ row' = row /\ wmem' = wmem /\ asked' = asked /\ termed' = termed /\ rpc' = "wait"
    BY <1>5 DEF Launch, workerVars
  <2> QED
    BY <2>1, <2>2, <2>3 DEF RowsOK, Asking, SetsOK, BranchOK, TermOnRequest
<1>6. CASE LaunchFailed \/ Refuse \/ NoInterface
  <2>1. Alive' = Alive /\ mem' = mem /\ row' = Saved(mem) /\ wmem' = wmem /\ asked' = asked
        /\ termed' = termed /\ rpc' = "sleep"
    BY <1>6 DEF LaunchFailed, Refuse, NoInterface, Alive, workerVars, procVars
  <2>2. row'.pid = mem.pid /\ row'.capture = mem.capture
    BY <2>1, SavedRow DEF TypeOK
  <2> QED
    BY <2>1, <2>2 DEF RowsOK, Asking, SetsOK, BranchOK, TermOnRequest
<1>7. CASE Launched
  BY <1>7 DEF Launched, Alive, workerVars, procVars, RowsOK, Asking, SetsOK, BranchOK, TermOnRequest
<1>8. CASE Record
  <2>1. Alive' = Alive /\ wmem' = wmem /\ asked' = asked /\ termed' = termed /\ rpc' = "sleep"
    BY <1>8 DEF Record, Alive, workerVars, procVars
  <2>2. mem' \in Rows /\ mem'.capture = "STARTED" /\ row' = Saved(mem')
    BY <1>8, RunnerAssumption DEF Record, TypeOK, Rows
  <2>3. row'.capture = "STARTED"
    BY <2>2, SavedRow
  <2> QED
    BY <2>1, <2>2, <2>3 DEF RowsOK, Asking, SetsOK, BranchOK, TermOnRequest
<1>9. CASE RunnerRestart
  <2>1. Alive' = Alive /\ mem' = Load(row) /\ row' = row /\ wmem' = wmem /\ asked' = asked
        /\ termed' = termed /\ rpc' = "sleep"
    BY <1>9 DEF RunnerRestart, Alive, workerVars, procVars
  <2>2. mem' = row \/ mem'.pid \notin Alive
    BY <2>1, LoadRow, NoPidAsks DEF TypeOK
  <2> QED
    BY <2>1, <2>2 DEF RowsOK, Asking, SetsOK, BranchOK, TermOnRequest
<1>10. ASSUME NEW t \in Tasks, Begin(t) PROVE RowsOK' /\ SetsOK' /\ BranchOK' /\ TermOnRequest'
  <2>1. Alive' = Alive /\ mem' = mem /\ row' = row /\ wmem' = Load(row) /\ asked' = asked
        /\ termed' = termed /\ rpc' = rpc
    BY <1>10 DEF Begin, Alive, runnerVars, procVars
  <2>2. wmem' = row \/ wmem'.pid \notin Alive
    BY <2>1, LoadRow, NoPidAsks DEF TypeOK
  <2>3. CaptureStatus(mem)' = CaptureStatus(mem)
    BY <2>1 DEF CaptureStatus
  <2> QED
    BY <2>1, <2>2, <2>3 DEF RowsOK, Asking, SetsOK, BranchOK, TermOnRequest
<1>11. CASE Save
  <2>1. Alive' = Alive /\ mem' = mem /\ termed' = termed /\ rpc' = rpc
    BY <1>11 DEF Save, Alive, runnerVars, procVars
  <2>2. /\ Changed(task, wmem) \in Rows
        /\ Changed(task, wmem).pid = wmem.pid
        /\ task = "start" => Changed(task, wmem).capture = "STARTED"
        /\ task \in {"settings", "stats"} => Changed(task, wmem).capture = wmem.capture
    BY <1>11, ChangedRow DEF Save, TypeOK
  <2>3. row'.pid = wmem.pid /\ row'.capture = Changed(task, wmem).capture
    BY <1>11, <2>2, SavedRow DEF Save
  <2>4. wmem'.pid \notin Alive
    BY <1>11, NewRow, RunnerAssumption DEF Save, Alive
  <2>5. CaptureStatus(mem)' = CaptureStatus(mem)
    BY <2>1 DEF CaptureStatus
  <2>6. asked \subseteq asked' /\ asked' \subseteq Alive
    BY <1>11 DEF Save, SetsOK
  <2>7. Asking(row)'
    <3>1. CASE task \in {"restart", "stop"}
      BY <1>11, <2>1, <3>1 DEF Save, Asking
    <3>2. CASE task \in {"start", "settings", "stats"}
      BY <2>1, <2>2, <2>3, <2>6, <3>2 DEF RowsOK, Asking
    <3> QED
      BY <1>11, <3>1, <3>2 DEF Save, TypeOK, TaskNames
  <2>8. RowsOK'
    BY <2>1, <2>4, <2>6, <2>7 DEF RowsOK, Asking
  <2> QED
    BY <2>1, <2>5, <2>6, <2>8 DEF SetsOK, BranchOK, TermOnRequest
<1>12. CASE Poll
  <2>1. Alive' = Alive /\ mem' = mem /\ row' = row /\ wmem' = wmem /\ asked' = asked
        /\ termed' = termed /\ rpc' = rpc
    BY <1>12 DEF Poll, Alive, runnerVars, procVars
  <2>2. CaptureStatus(mem)' = CaptureStatus(mem)
    BY <2>1 DEF CaptureStatus
  <2> QED
    BY <2>1, <2>2 DEF RowsOK, Asking, SetsOK, BranchOK, TermOnRequest
<1>13. ASSUME NEW p \in Pids, Ended(p) PROVE RowsOK' /\ SetsOK' /\ BranchOK' /\ TermOnRequest'
  <2>1. Alive' = Alive \ {p}
    BY <1>13 DEF Ended, Alive, TypeOK
  <2>2. mem' = mem /\ row' = row /\ wmem' = wmem /\ asked' = asked \ {p} /\ termed' = termed \ {p}
        /\ rpc' = rpc
    BY <1>13 DEF Ended, runnerVars, workerVars
  <2>3. CaptureStatus(mem) = "NOT_OK" => CaptureStatus(mem)' = "NOT_OK"
    BY <2>1, <2>2 DEF CaptureStatus
  <2> QED
    BY <2>1, <2>2, <2>3 DEF RowsOK, Asking, SetsOK, BranchOK, TermOnRequest
<1>14. ASSUME NEW p \in Pids, Lock(p) \/ Release(p) PROVE RowsOK' /\ SetsOK' /\ BranchOK' /\ TermOnRequest'
  <2>1. Alive' = Alive
    BY <1>14 DEF Lock, Release, Alive, TypeOK
  <2>2. mem' = mem /\ row' = row /\ wmem' = wmem /\ asked' = asked /\ termed' = termed /\ rpc' = rpc
    BY <1>14 DEF Lock, Release, runnerVars, workerVars
  <2>3. CaptureStatus(mem)' = CaptureStatus(mem)
    BY <2>1, <2>2 DEF CaptureStatus
  <2> QED
    BY <2>1, <2>2, <2>3 DEF RowsOK, Asking, SetsOK, BranchOK, TermOnRequest
<1>15. CASE UNCHANGED vars
  <2>1. Alive' = Alive /\ mem' = mem /\ row' = row /\ wmem' = wmem /\ asked' = asked
        /\ termed' = termed /\ rpc' = rpc
    BY <1>15 DEF vars, Alive, runnerVars, workerVars, procVars
  <2>2. CaptureStatus(mem)' = CaptureStatus(mem)
    BY <2>1 DEF CaptureStatus
  <2> QED
    BY <2>1, <2>2 DEF RowsOK, Asking, SetsOK, BranchOK, TermOnRequest
<1> QED
  BY <1>1, <1>2, <1>3, <1>4, <1>5, <1>6, <1>7, <1>8, <1>9, <1>10, <1>11,
     <1>12, <1>13, <1>14, <1>15
     DEF Next, RunnerStep, ProcStep, NoLock, Finish, Die

LEMMA IInvStep == IInv /\ [Next]_vars => IInv'
BY TypeStep, RestStep DEF IInv

\* Every reachable state of the runner, the worker and the processes is of
\* the declared type.
THEOREM TypeCorrect == Spec => []TypeOK
<1>1. Init => TypeOK
  BY InitIInv DEF IInv
<1> QED
  BY <1>1, TypeStep, PTL DEF Spec

\* However the runner, its deaths and the worker's tasks interleave and
\* overwrite each other's rows, a capture process is sent SIGTERM only when
\* a stop or a restart was asked for while it ran.
THEOREM TermsOnRequest == Spec => []TermOnRequest
<1>1. IInv => TermOnRequest
  BY DEF IInv
<1> QED
  BY <1>1, InitIInv, IInvStep, PTL DEF Spec
=============================================================================
