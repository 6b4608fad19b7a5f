----------------------------- MODULE SearchPage -----------------------------
(***************************************************************************)
(* The search page (search.html) between the search head and the user: it  *)
(* posts searches, watches the task list of every page (TaskPanel) for the *)
(* task of its search, and fetches the flows when that task has succeeded. *)
(* The tasks of the list are the merge tasks of SearchHead.                *)
(***************************************************************************)
EXTENDS SearchHead, TaskPanel

CONSTANTS
    None,       \* JavaScript's null
    MaxClears,  \* bound on the user's clicks to clear tasks and on the tasks that get too old
    MaxLost     \* bound on the requests and answers that are lost

ASSUME PageAssumption ==
    /\ Task = Search    \* the task of a search is its merge task
    /\ None \notin Search
    /\ MaxClears \in Nat /\ MaxLost \in Nat

VARIABLES
    cleared,   \* the tasks with TaskTrack.cleared, or started longer ago than _OLDEST
    unread,    \* the searches whose request is not answered yet
    watched,   \* RESULTS_TASK_ID; RESULTS_URL always belongs to the same search or an earlier one
    table,     \* the flows that are displayed: of which search, from which nodes
    clears,    \* how often the user cleared tasks or one got too old
    lost       \* how many requests and answers were lost

pageVars == <<cleared, unread, watched, table, clears, lost>>
vars == <<headVars, panelVars, pageVars>>

NoTable == [search |-> None, flows |-> NoResult]

Init ==
    /\ HeadInit
    /\ PanelInit
    /\ cleared = {}
    /\ unread = {}
    /\ watched = None
    /\ table = NoTable
    /\ clears = 0
    /\ lost = 0

\* What MyTasks.get reads: the tasks that are tracked, not cleared and not too old.
Listed == {s \in Search : Visible(s) /\ s \notin cleared}
MyTasks == [s \in Listed |-> meta[s]]

-----------------------------------------------------------------------------
\* do_search: the search is posted.
DoSearch(s) ==
    /\ Ask(s)
    /\ unread' = unread \cup {s}
    /\ UNCHANGED <<panelVars, cleared, watched, table, clears, lost>>

\* The answer to a search: result_alerts calls task_check, the task of a flow
\* search that was started becomes the watched one, and task_check is called again.
SearchAnswered(s) ==
    /\ s \in unread
    /\ post[s] \in {"ok", "refused"}
    /\ task_check(2, timers)
    /\ watched' = IF post[s] = "ok" /\ s \in flows THEN s ELSE watched
    /\ unread' = unread \ {s}
    /\ UNCHANGED <<headVars, known, dom, clearing, lostGets, cleared, table, clears, lost>>

\* The view failed, or the answer is lost: do_search has no handler for it.
SearchUnanswered(s) ==
    /\ s \in unread
    /\ \/ post[s] = "error" /\ lost' = lost
       \/ post[s] \in {"ok", "refused"} /\ lost < MaxLost /\ lost' = lost + 1
    /\ unread' = unread \ {s}
    /\ UNCHANGED <<headVars, panelVars, cleared, watched, table, clears>>

\* Mutant of check_search_results: results are also shown for a failed task.
check_search_ended ==
    IF watched \in DOMAIN known' /\ known'[watched] \in Final
      THEN /\ table' = [search |-> watched, flows |-> result[watched]]
           /\ watched' = None
      ELSE UNCHANGED <<table, watched>>

\* check_search_results runs after set_tasks: when the watched task has
\* succeeded its flows are fetched and it is watched no longer.
check_search_results ==
    IF watched \in DOMAIN known' /\ known'[watched] = "SUCCESS"
      THEN /\ table' = [search |-> watched, flows |-> result[watched]]
           /\ watched' = None
      ELSE UNCHANGED <<table, watched>>

TasksAnswered(g) ==
    /\ set_tasks(g)
    /\ check_search_results
    /\ UNCHANGED <<headVars, cleared, unread, clears, lost>>

ReadTasks(g) ==
    /\ Answer(g, MyTasks)
    /\ UNCHANGED <<headVars, pageVars>>

TasksUnanswered(g) ==
    /\ lost < MaxLost
    /\ GetFails(g)
    /\ lost' = lost + 1
    /\ UNCHANGED <<headVars, cleared, unread, watched, table, clears>>

CheckTasks ==
    /\ TimerFires \/ ForgottenTimerFires
    /\ UNCHANGED <<headVars, pageVars>>

\* The user clears one task or all of them.
ClearTasks ==
    /\ clears < MaxClears
    /\ (\E s \in Search : clear(s)) \/ clear_tasks
    /\ clears' = clears + 1
    /\ UNCHANGED <<headVars, cleared, unread, watched, table, lost>>

\* MyTasks.post sets and saves the row of a task.
MarkCleared(s) ==
    /\ ClearEnds(s)
    /\ cleared' = cleared \cup {s}
    /\ UNCHANGED <<headVars, unread, watched, table, clears, lost>>

\* Seven days have passed since the task was started.
TaskAges(s) ==
    /\ clears < MaxClears
    /\ s \in Listed
    /\ cleared' = cleared \cup {s}
    /\ clears' = clears + 1
    /\ UNCHANGED <<headVars, panelVars, unread, watched, table, lost>>

ClearLost(s) ==
    /\ lost < MaxLost
    /\ ClearEnds(s)
    /\ lost' = lost + 1
    /\ UNCHANGED <<headVars, cleared, unread, watched, table, clears>>

HeadStep == HeadNext /\ UNCHANGED <<panelVars, pageVars>>

Next ==
    \/ HeadStep
    \/ \E s \in Search :
          \/ DoSearch(s) \/ SearchAnswered(s) \/ SearchUnanswered(s)
          \/ MarkCleared(s) \/ TaskAges(s) \/ ClearLost(s)
    \/ \E g \in Request : TasksAnswered(g) \/ ReadTasks(g) \/ TasksUnanswered(g)
    \/ CheckTasks
    \/ ClearTasks

\* What is sure to happen: views return and workers carry out the tasks in their
\* queues, a request is answered or lost, timers fire.  A search and a POST to
\* clear tasks take a bounded number of steps, so one condition for each of the
\* four kinds is enough.  Nobody has to search or to clear anything.
Fairness ==
    /\ WF_vars(HeadStep)
    /\ WF_vars(\E s \in Search : SearchAnswered(s) \/ SearchUnanswered(s) \/ MarkCleared(s))
    /\ WF_vars(\E g \in Request : ReadTasks(g) \/ TasksAnswered(g))
    /\ WF_vars(CheckTasks)

Spec == Init /\ [][Next]_vars
FairSpec == Spec /\ Fairness

-----------------------------------------------------------------------------
TypeOK ==
    /\ HeadTypeOK /\ PanelTypeOK
    /\ cleared \subseteq Search /\ unread \subseteq Search
    /\ watched \in flows \cup {None}
    /\ table \in [search : flows \cup {None}, flows : SUBSET Node]
    /\ clears \in 0..MaxClears /\ lost \in 0..MaxLost

\* The flows the page displays are the flows that were found: those of every
\* node whose search matched something.  If it displays none, either no node
\* found anything or the message of the task says that results are missing.
\* An upload that came before the search was committed, a node that had nothing
\* to search and a node that failed are among the cases (search_merge,
\* PutNodeSearchResult.put, check_search_results).
ShownComplete ==
    table.search # None =>
        \/ table.flows = found[table.search]
        \/ table.flows = {} /\ table.search \in incomplete

\* A search whose task succeeded has all of its results or none of them, unless
\* mergecap failed, whose exit status nobody looks at.  All: the flows of the nodes
\* that found some, or the packet file of every node, with packets or without.  None:
\* exactly then the message of the task says that results are missing, though nodes
\* may have found something and uploaded it too early.  Some of the results never make
\* a success: the file of a node that has none is asked for its path (search_merge,
\* PutNodeSearchResult.put).
AllResults(s) == IF s \in flows THEN found[s] ELSE NodesOf[s]
SuccessComplete ==
    \A s \in Search : meta[s] = "SUCCESS" /\ s \notin botched =>
        result[s] = IF s \in incomplete THEN {} ELSE AllResults(s)

\* The page ends up with what the server has, and the server with an outcome:
\* every task that is not cleared or too old is displayed and has succeeded or failed, though
\* nodes fail, the row of the task is written by two parties and answers overtake
\* each other; and no search is left waiting whose task has succeeded, unless it
\* was cleared or too old first.  Only the loss of a request for the tasks can prevent it
\* (search_merge, TaskTrack.save, set_tasks, get_task, check_search_results).
Settled ==
    /\ known = MyTasks /\ dom = Listed
    /\ \A s \in Listed : meta[s] \in Final
    /\ watched # None => watched \in cleared \/ meta[watched] = "FAILURE"
PageSettles == <>[](lostGets > 0 \/ Settled)
=============================================================================
