----------------------------- MODULE SearchHead -----------------------------
(***************************************************************************)
(* A search, from the request of the web page to the result file: the view *)
(* Search.post and its database transaction, the task search_node on each  *)
(* capture node, the upload of a node's result (PutNodeSearchResult.put),  *)
(* and the task search_merge that celery runs when the nodes' tasks have   *)
(* ended (a chord).                                                        *)
(*                                                                         *)
(* The whole view is one transaction, and the chord is sent before it is   *)
(* committed: the tasks may run, upload and even be merged while the rows  *)
(* of their search are not visible to anyone yet.                          *)
(*                                                                         *)
(* The view also writes the TaskMeta row of the merge task, which the      *)
(* worker that ends the task writes too.  The key of that row is unique:   *)
(* a worker that wants to insert it waits for the view's transaction when  *)
(* that has inserted it, and the view fails when the worker was first and  *)
(* the view has looked before.                                             *)
(***************************************************************************)
EXTENDS Naturals, FiniteSets

CONSTANTS
    Search,    \* the searches that are made
    Node,      \* the capture nodes
    NodesOf    \* the capture nodes of the sites a search may look at

ASSUME HeadAssumption == NodesOf \in [Search -> SUBSET Node]

VARIABLES
    flows,       \* the searches for flows; the others fetch packets
    post,        \* of each search: how far Search.post is
    task,        \* of each search and node: the task search_node
    file,        \* of each search and node: the file of the NodeSearch row
    found,       \* of each search: the nodes whose search matched something (history)
    merge,       \* of each search: the task search_merge
    botched,     \* the searches whose merge command failed (history)
    meta,        \* of each search: the TaskMeta row of search_merge, if committed
    result,      \* of each search: the nodes whose files are in the SearchResult file
    incomplete,  \* the searches whose message says that results are missing
    completed    \* the searches with a time of completion

postVars == <<flows, post, meta>>
nodeVars == <<task, file, found>>
mergeVars == <<merge, botched, result, incomplete, completed>>
headVars == <<postVars, nodeVars, mergeVars>>

\* The states of a task that do not change any more.
Final == {"SUCCESS", "FAILURE"}

NoResult == {}

HeadInit ==
    /\ flows = {}
    /\ post = [s \in Search |-> "idle"]
    /\ task = [s \in Search |-> [n \in Node |-> "none"]]
    /\ file = [s \in Search |-> [n \in Node |-> "none"]]
    /\ found = [s \in Search |-> {}]
    /\ merge = [s \in Search |-> "none"]
    /\ botched = {}
    /\ meta = [s \in Search |-> "absent"]
    /\ result = [s \in Search |-> NoResult]
    /\ incomplete = {}
    /\ completed = {}

PostGoto(s, l) == post' = [post EXCEPT ![s] = l]

\* The rows of the search can be seen by other connections.
Visible(s) == post[s] = "ok"

-----------------------------------------------------------------------------
\* Search.post.

\* The request arrives: for flows, or for packets.
Ask(s) ==
    /\ post[s] = "idle"
    /\ PostGoto(s, "asked")
    /\ flows' \in {flows, flows \cup {s}}
    /\ UNCHANGED <<meta, nodeVars, mergeVars>>

\* The request is refused: bad fields, bad query, or no node of a permitted
\* site.  Nothing was written.
Refuse(s) ==
    /\ post[s] = "asked"
    /\ PostGoto(s, "refused")
    /\ UNCHANGED <<flows, meta, nodeVars, mergeVars>>

\* The rows of the search and of its nodes are written and the chord is sent,
\* all of it before the transaction ends.
SendChord(s) ==
    /\ post[s] = "asked"
    /\ NodesOf[s] # {}
    /\ PostGoto(s, "sent")
    /\ task' = [task EXCEPT ![s] = [n \in Node |-> IF n \in NodesOf[s] THEN "queued" ELSE "none"]]
    /\ merge' = [merge EXCEPT ![s] = "waiting"]
    /\ UNCHANGED <<flows, meta, file, found, botched, result, incomplete, completed>>

\* TaskTrack.save writes its own row and looks for the TaskMeta row.
TrackLook(s) ==
    /\ post[s] = "sent"
    /\ PostGoto(s, IF meta[s] = "absent" THEN "looked" ELSE "tracked")
    /\ UNCHANGED <<flows, meta, nodeVars, mergeVars>>

\* It inserts the TaskMeta row it did not find.  If the worker has inserted it
\* since, the IntegrityError is caught, but the savepoint that is rolled back
\* takes the row of the TaskTrack along; the rows of its children follow.
TrackInsert(s) ==
    /\ post[s] = "looked"
    /\ PostGoto(s, IF meta[s] = "absent" THEN "inserted" ELSE "orphaned")
    /\ UNCHANGED <<flows, meta, nodeVars, mergeVars>>

\* The view returns and the transaction is committed.
Commit(s) ==
    /\ post[s] \in {"tracked", "inserted"}
    /\ PostGoto(s, "ok")
    /\ meta' = IF post[s] = "inserted" THEN [meta EXCEPT ![s] = "PENDING"] ELSE meta
    /\ UNCHANGED <<flows, nodeVars, mergeVars>>

\* The rows of the children refer to a TaskTrack row that is not there: the
\* deferred foreign key fails and everything is rolled back.
CommitFails(s) ==
    /\ post[s] = "orphaned"
    /\ PostGoto(s, "error")
    /\ UNCHANGED <<flows, meta, nodeVars, mergeVars>>

-----------------------------------------------------------------------------
\* search_node, on a capture node.  Its worker writes a TaskMeta row too; when
\* it wrote it before the view came to the rows of the children (its first
\* progress report), nothing makes it wait for the view's transaction.

TaskGoto(s, n, l) == task' = [task EXCEPT ![s][n] = l]

\* There is no ready index in the time span: the task returns and uploads nothing.
NothingToSearch(s, n) ==
    /\ task[s][n] = "queued"
    /\ TaskGoto(s, n, "done")
    /\ UNCHANGED <<postVars, file, found, mergeVars>>

\* The search ran and its results are merged into one file, empty or not.
NodeSearches(s, n) ==
    /\ task[s][n] = "queued"
    /\ TaskGoto(s, n, "holding")
    /\ \/ found' = [found EXCEPT ![s] = @ \cup {n}]
       \/ found' = found
    /\ UNCHANGED <<postVars, file, mergeVars>>

\* The query does not parse, a command fails, or the upload raises an exception.
NodeFails(s, n) ==
    /\ task[s][n] \in {"queued", "holding"}
    /\ TaskGoto(s, n, "failed")
    /\ UNCHANGED <<postVars, file, found, mergeVars>>

\* PutNodeSearchResult.put stores the file when it sees the row and the row has
\* none yet, and answers 404 otherwise.  A file without flows is empty; a file
\* without packets has the header of a pcap file.
Store(s, n) ==
    IF Visible(s) /\ file[s][n] = "none"
      THEN file' = [file EXCEPT ![s][n] = IF s \in flows /\ n \notin found[s] THEN "empty"
                                          ELSE "data"]
      ELSE file' = file

\* The upload.  The task looks at no status, removes its file and returns.
Upload(s, n) ==
    /\ task[s][n] = "holding"
    /\ Store(s, n)
    /\ TaskGoto(s, n, "done")
    /\ UNCHANGED <<postVars, found, mergeVars>>

-----------------------------------------------------------------------------
\* search_merge, on the search head.

\* The worker ends the merge task.  It waits while the view holds the new
\* TaskMeta row.
EndTask(s, status) ==
    /\ post[s] # "inserted"
    /\ meta' = [meta EXCEPT ![s] = status]
    /\ merge' = [merge EXCEPT ![s] = "ended"]
    /\ UNCHANGED <<flows, post>>

NodesEnded(s) == \A n \in NodesOf[s] : task[s][n] \in {"done", "failed"}

\* Celery calls search_merge when the tasks of all nodes have ended.  If one of
\* them raised an exception the callback fails without running.
ChordFails(s) ==
    /\ merge[s] = "waiting"
    /\ NodesEnded(s)
    /\ \E n \in NodesOf[s] : task[s][n] = "failed"
    /\ EndTask(s, "FAILURE")
    /\ UNCHANGED <<nodeVars, botched, result, incomplete, completed>>

MayMerge(s) ==
    /\ merge[s] = "waiting"
    /\ \A n \in NodesOf[s] : task[s][n] = "done"

\* The rows of the search are not there (not yet, or not any more).
MergeFindsNoSearch(s) ==
    /\ MayMerge(s)
    /\ ~ Visible(s)
    /\ EndTask(s, "FAILURE")
    /\ UNCHANGED <<nodeVars, botched, result, incomplete, completed>>

\* The nodes whose file is not of length 0, and those that uploaded nothing.
WithData(s) == {n \in NodesOf[s] : file[s][n] = "data"}
Missing(s) == {n \in NodesOf[s] : file[s][n] = "none"}

\* Mutant of MergeNothing: of the messages only "Search results were empty." is kept.
MergeNothingQuiet(s) ==
    /\ MayMerge(s)
    /\ Visible(s)
    /\ WithData(s) = {}
    /\ completed' = completed \cup {s}
    /\ EndTask(s, "SUCCESS")
    /\ UNCHANGED <<nodeVars, botched, result, incomplete>>

\* No node has a result: the search is complete and has no result file.  The
\* rows of the nodes and their empty files stay.
MergeNothing(s) ==
    /\ MayMerge(s)
    /\ Visible(s)
    /\ WithData(s) = {}
    /\ incomplete' = IF Missing(s) # {} THEN incomplete \cup {s} ELSE incomplete
    /\ completed' = completed \cup {s}
    /\ EndTask(s, "SUCCESS")
    /\ UNCHANGED <<nodeVars, botched, result>>

\* Several flow files: the command line is built from search_res.path, which
\* no SearchResult has.
MergeFlows(s) ==
    /\ MayMerge(s)
    /\ Visible(s)
    /\ s \in flows
    /\ Cardinality(WithData(s)) > 1
    /\ EndTask(s, "FAILURE")
    /\ UNCHANGED <<nodeVars, botched, result, incomplete, completed>>

\* The one file can be neither moved nor copied, or the merge command cannot be run.
MergeRaises(s) ==
    /\ MayMerge(s)
    /\ Visible(s)
    /\ WithData(s) # {}
    /\ s \notin flows \/ Cardinality(WithData(s)) = 1
    /\ EndTask(s, "FAILURE")
    /\ UNCHANGED <<nodeVars, botched, result, incomplete, completed>>

\* One file is moved, several packet files are merged by mergecap, whose exit
\* status nobody looks at; then the SearchResult row is saved.
MergeFiles(s) ==
    /\ MayMerge(s)
    /\ Visible(s)
    /\ WithData(s) # {}
    /\ s \notin flows \/ Cardinality(WithData(s)) = 1
    /\ \/ /\ result' = [result EXCEPT ![s] = WithData(s)]
          /\ botched' = botched
       \/ /\ Cardinality(WithData(s)) > 1
          /\ \E got \in SUBSET WithData(s) : result' = [result EXCEPT ![s] = got]
          /\ botched' = botched \cup {s}
    /\ incomplete' = IF Missing(s) # {} THEN incomplete \cup {s} ELSE incomplete
    /\ merge' = [merge EXCEPT ![s] = "saved"]
    /\ UNCHANGED <<postVars, nodeVars, completed>>

\* The rows and files of the nodes are deleted.  A row without a file raises an
\* exception: the path of no file is asked for.  The rows before it are gone.
DeleteResults(s) ==
    /\ merge[s] = "saved"
    /\ IF Missing(s) = {}
         THEN /\ file' = [file EXCEPT ![s] = [n \in Node |-> IF n \in NodesOf[s] THEN "gone"
                                                             ELSE file[s][n]]]
              /\ completed' = completed \cup {s}
              /\ EndTask(s, "SUCCESS")
         ELSE /\ \E gone \in SUBSET (NodesOf[s] \ Missing(s)) :
                    file' = [file EXCEPT ![s] = [n \in Node |-> IF n \in gone THEN "gone"
                                                                ELSE file[s][n]]]
              /\ completed' = completed
              /\ EndTask(s, "FAILURE")
    /\ UNCHANGED <<task, found, botched, result, incomplete>>

-----------------------------------------------------------------------------
\* The steps of the view, of the nodes, and of the merge task.

ViewStep(s) ==
    SendChord(s) \/ TrackLook(s) \/ TrackInsert(s) \/ Commit(s) \/ CommitFails(s)

NodeStep(s, n) ==
    NothingToSearch(s, n) \/ NodeSearches(s, n) \/ NodeFails(s, n) \/ Upload(s, n)

MergeStep(s) ==
    \/ ChordFails(s) \/ MergeFindsNoSearch(s) \/ MergeNothing(s)
    \/ MergeFlows(s) \/ MergeRaises(s) \/ MergeFiles(s) \/ DeleteResults(s)

HeadNext ==
    \E s \in Search :
        \/ Refuse(s) \/ ViewStep(s) \/ MergeStep(s)
        \/ \E n \in NodesOf[s] : NodeStep(s, n)

HeadTypeOK ==
    /\ flows \subseteq Search
    /\ post \in [Search -> {"idle", "asked", "refused", "sent", "looked", "tracked",
                            "inserted", "orphaned", "ok", "error"}]
    /\ task \in [Search -> [Node -> {"none", "queued", "holding", "done", "failed"}]]
    /\ file \in [Search -> [Node -> {"none", "empty", "data", "gone"}]]
    /\ found \in [Search -> SUBSET Node]
    /\ merge \in [Search -> {"none", "waiting", "saved", "ended"}]
    /\ meta \in [Search -> {"absent", "PENDING"} \cup Final]
    /\ result \in [Search -> SUBSET Node]
    /\ botched \subseteq Search /\ incomplete \subseteq Search /\ completed \subseteq Search
=============================================================================
