----------------------------- MODULE TaskPanel -----------------------------
(***************************************************************************)
(* The task list of a web page (pcapdb.js): the requests for the user's    *)
(* tasks, the timer between them, and what the page makes of the answers.  *)
(*                                                                         *)
(* JavaScript runs one handler at a time, so a handler is one action.      *)
(* Requests are not: several may be under way, and their answers come in   *)
(* any order.  A request that fails has no handler.                        *)
(*                                                                         *)
(* Not modelled: the length of the timer (time is left out, so the doubling*)
(* of _TASK_CHECK_PERIOD makes no difference), and how a task looks.       *)
(***************************************************************************)
EXTENDS Naturals, FiniteSets

CONSTANTS
    Task,      \* the tasks of the user
    Request    \* the names of the requests that can be under way, numbers

ASSUME PanelAssumption == Request \subseteq Nat /\ IsFiniteSet(Request)

VARIABLES
    known,     \* _TASKS_BY_ID: the status of each task the page knows
    dom,       \* the tasks that are displayed
    timers,    \* how many timers run that will call task_check
    current,   \* _TASK_TIMEOUT_ID is the id of a timer that runs
    gets,      \* of each request: free, sent, or the answer on its way back
    clearing,  \* the tasks of the POSTs to clear tasks that are under way
    lostGets   \* how many requests for the tasks failed

panelVars == <<known, dom, timers, current, gets, clearing, lostGets>>

Status == {"PENDING", "SUCCESS", "FAILURE"}
Free == [state |-> "free", list |-> <<>>]
Sent == [state |-> "sent", list |-> <<>>]
Answered(list) == [state |-> "answered", list |-> list]

\* An answer, and _TASKS_BY_ID, is a function of some tasks to their status.
TaskList == UNION {[T -> Status] : T \in SUBSET Task}

InFlight == {g \in Request : gets[g].state # "free"}

\* The page calls task_check when it is loaded.
PanelInit ==
    /\ known = <<>>
    /\ dom = {}
    /\ timers = 0
    /\ current = FALSE
    /\ \E g \in Request :
          /\ \A h \in Request : g <= h
          /\ gets = [h \in Request |-> IF h = g THEN Sent ELSE Free]
    /\ clearing = {}
    /\ lostGets = 0

-----------------------------------------------------------------------------
\* The first count of the free names: one order is as good as another.
FirstFree(count, new) ==
    /\ new \subseteq Request \ InFlight
    /\ Cardinality(new) = count
    /\ \A g \in new, h \in (Request \ InFlight) \ new : g < h

\* Mutant of task_check: the id of the cancelled timer is taken for that of one
\* that runs.
task_check_keep(count, running) ==
    /\ timers' = running - (IF current THEN 1 ELSE 0)
    /\ current' = current
    /\ \E new \in SUBSET Request :
          /\ FirstFree(count, new)
          /\ gets' = [g \in Request |-> IF g \in new THEN Sent ELSE gets[g]]

\* task_check called count times by one handler: the timer that is remembered
\* is cancelled, if it has not fired, and each call sends a request.
task_check(count, running) ==
    /\ timers' = running - (IF current THEN 1 ELSE 0)
    /\ current' = FALSE
    /\ \E new \in SUBSET Request :
          /\ FirstFree(count, new)
          /\ gets' = [g \in Request |-> IF g \in new THEN Sent ELSE gets[g]]

\* The timer the page remembers fires; its id stays behind and is cancelled in vain.
TimerFires ==
    /\ current
    /\ task_check(1, timers)
    /\ UNCHANGED <<known, dom, clearing, lostGets>>

\* A timer fires whose id was overwritten by that of a later one.
ForgottenTimerFires ==
    /\ timers > (IF current THEN 1 ELSE 0)
    /\ task_check(1, timers - 1)
    /\ UNCHANGED <<known, dom, clearing, lostGets>>

\* MyTasks.get reads the tasks of the user, who stays logged in.
Answer(g, list) ==
    /\ gets[g] = Sent
    /\ gets' = [gets EXCEPT ![g] = Answered(list)]
    /\ UNCHANGED <<known, dom, timers, current, clearing, lostGets>>

\* A request or its answer is lost.
GetFails(g) ==
    /\ gets[g] # Free
    /\ gets' = [gets EXCEPT ![g] = Free]
    /\ lostGets' = lostGets + 1
    /\ UNCHANGED <<known, dom, timers, current, clearing>>

\* Mutant of get_task: a task that is known is never updated.
get_task_once(t, list) == IF t \in DOMAIN known THEN known[t] ELSE list[t]

\* get_task: a task that is known and has ended is not updated.
get_task(t, list) ==
    IF t \in DOMAIN known /\ known[t] # "PENDING" THEN known[t] ELSE list[t]

\* Mutant of set_tasks: the next check is only set up while a task is running.
set_tasks_idle(g) ==
    /\ gets[g].state = "answered"
    /\ LET list == gets[g].list IN
          /\ known' = [t \in DOMAIN list |-> get_task(t, list)]
          /\ dom' = DOMAIN list
          /\ IF \E t \in DOMAIN list : list[t] = "PENDING"
               THEN timers' = timers + 1 /\ current' = TRUE
               ELSE UNCHANGED <<timers, current>>
    /\ gets' = [gets EXCEPT ![g] = Free]
    /\ UNCHANGED <<clearing, lostGets>>

\* set_tasks: the tasks of the answer are the tasks of the page, a task that was
\* removed from the page and is in the answer is inserted again, and a new timer
\* is set, whose id is remembered.
set_tasks(g) ==
    /\ gets[g].state = "answered"
    /\ LET list == gets[g].list IN
          /\ known' = [t \in DOMAIN list |-> get_task(t, list)]
          /\ dom' = DOMAIN list
    /\ timers' = timers + 1
    /\ current' = TRUE
    /\ gets' = [gets EXCEPT ![g] = Free]
    /\ UNCHANGED <<clearing, lostGets>>

\* Task.clear: a POST, and the task leaves the page but not _TASKS_BY_ID.
clear(t) ==
    /\ t \in dom
    /\ clearing' = clearing \cup {t}
    /\ dom' = dom \ {t}
    /\ UNCHANGED <<known, timers, current, gets, lostGets>>

\* clear_tasks: one POST for every task the page knows.
clear_tasks ==
    /\ clearing' = clearing \cup DOMAIN known
    /\ dom' = dom \ DOMAIN known
    /\ UNCHANGED <<known, timers, current, gets, lostGets>>

\* A POST is carried out for one of its tasks, or is lost for it.
ClearEnds(t) ==
    /\ t \in clearing
    /\ clearing' = clearing \ {t}
    /\ UNCHANGED <<known, dom, timers, current, gets, lostGets>>

-----------------------------------------------------------------------------
PanelTypeOK ==
    /\ known \in TaskList
    /\ dom \subseteq DOMAIN known
    /\ timers \in Nat /\ current \in BOOLEAN /\ (current => timers > 0)
    /\ gets \in [Request -> {Free, Sent} \cup {Answered(l) : l \in TaskList}]
    /\ clearing \subseteq Task /\ lostGets \in Nat

\* As long as no request for the tasks has failed the page goes on asking: there
\* is always a request under way or a timer that will send one, whatever timers
\* task_check cancels (pcapdb.js, task_check and set_tasks).
PollingAlive == lostGets = 0 => timers > 0 \/ InFlight # {}
=============================================================================
