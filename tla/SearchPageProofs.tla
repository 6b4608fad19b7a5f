-------------------------- MODULE SearchPageProofs --------------------------
(***************************************************************************)
(* Proofs about SearchPage, for any searches, capture nodes and requests   *)
(* and any number of losses and clicks.                                    *)
(***************************************************************************)
EXTENDS SearchPage, FiniteSetTheorems, TLAPS

(***************************************************************************)
(* What a node found is in its file or on its way there.  A node that has  *)
(* not begun has neither, and files disappear only when all is over.       *)
(***************************************************************************)
NodeOK(s, n) ==
    /\ n \notin NodesOf[s] => task[s][n] = "none"
    /\ task[s][n] \in {"none", "queued"} => file[s][n] = "none" /\ n \notin found[s]
    /\ file[s][n] = "data" /\ s \in flows => n \in found[s]
    /\ file[s][n] = "empty" => s \in flows /\ n \notin found[s]
    /\ file[s][n] = "gone" => merge[s] = "ended"

\* No task and no merge before the chord is sent; the TaskMeta row of the merge
\* task is there at the latest when the view has committed.
PostOK(s) ==
    /\ post[s] \in {"idle", "asked", "refused"} =>
           merge[s] = "none" /\ meta[s] = "absent" /\ \A n \in Node : task[s][n] = "none"
    /\ merge[s] = "none" => post[s] \in {"idle", "asked", "refused"}
    /\ post[s] = "idle" => s \notin flows
    /\ post[s] = "inserted" => meta[s] = "absent"
    /\ post[s] \in {"tracked", "ok"} => meta[s] # "absent"

\* The result of a search is all that the nodes have found, or there is none and it is
\* known that something is missing.
Complete(s) == result[s] = IF s \in incomplete THEN {} ELSE AllResults(s)

\* A merge begins when all nodes have ended.  Only a merge of packets can be botched.
MergeOK(s) ==
    /\ merge[s] \in {"saved", "ended"} => NodesEnded(s)
    /\ merge[s] \in {"none", "waiting"} => result[s] = {} /\ s \notin incomplete
    /\ merge[s] # "ended" => meta[s] \in {"absent", "PENDING"}
    /\ merge[s] = "saved" /\ s \notin botched => result[s] = WithData(s)
    /\ merge[s] = "saved" /\ s \in incomplete => Missing(s) # {}
    /\ s \in botched => s \notin flows /\ merge[s] \in {"saved", "ended"}
    /\ meta[s] = "SUCCESS" /\ s \notin botched => Complete(s)

SearchOK(s) == (\A n \in Node : NodeOK(s, n)) /\ PostOK(s) /\ MergeOK(s)

HeadInv == \A s \in Search : SearchOK(s)

\* What the page takes for a success was one, however old the answer is.
AnswersTrue ==
    /\ \A t \in DOMAIN known : known[t] = "SUCCESS" => meta[t] = "SUCCESS"
    /\ \A g \in Request : gets[g].state = "answered" =>
           \A t \in DOMAIN gets[g].list : gets[g].list[t] = "SUCCESS" => meta[t] = "SUCCESS"

\* The flows that are displayed are the result of a flow search that succeeded.
TableTrue ==
    table.search # None =>
        meta[table.search] = "SUCCESS" /\ table.flows = result[table.search]

IInv == TypeOK /\ HeadInv /\ AnswersTrue /\ TableTrue /\ PollingAlive

-----------------------------------------------------------------------------
(***************************************************************************)
(* A step about one search leaves the others alone.                        *)
(***************************************************************************)
Same(u) ==
    /\ task'[u] = task[u] /\ file'[u] = file[u] /\ found'[u] = found[u]
    /\ post'[u] = post[u] /\ merge'[u] = merge[u] /\ meta'[u] = meta[u]
    /\ result'[u] = result[u]
    /\ (u \in flows') = (u \in flows)
    /\ (u \in botched') = (u \in botched)
    /\ (u \in incomplete') = (u \in incomplete)

LEMMA Frame ==
  ASSUME NEW u \in Search, SearchOK(u), Same(u)
  PROVE  SearchOK(u)'
<1>1. \A n \in Node : NodeOK(u, n)'
  BY DEF Same, SearchOK, NodeOK
<1>2. PostOK(u)'
  BY DEF Same, SearchOK, PostOK
<1>3. /\ NodesEnded(u)' = NodesEnded(u) /\ WithData(u)' = WithData(u)
      /\ Missing(u)' = Missing(u) /\ Complete(u)' = Complete(u)
  BY DEF Same, NodesEnded, WithData, Missing, Complete, AllResults
<1>4. MergeOK(u)'
  BY <1>3 DEF Same, SearchOK, MergeOK
<1> QED
  BY <1>1, <1>2, <1>4 DEF SearchOK

\* A step of the search head about search s: it keeps the types and the invariant
\* of s, and nothing of the other searches changes.
About(s) == HeadTypeOK' /\ SearchOK(s)' /\ \A u \in Search \ {s} : Same(u)

LEMMA AboutOne ==
  ASSUME HeadInv, NEW s \in Search, About(s)
  PROVE  HeadTypeOK' /\ HeadInv'
BY Frame DEF About, HeadInv

-----------------------------------------------------------------------------
(***************************************************************************)
(* The view.                                                               *)
(***************************************************************************)
LEMMA AskOK == ASSUME HeadTypeOK, HeadInv, NEW s \in Search, Ask(s) PROVE About(s)
<1> USE DEF Ask, PostGoto, nodeVars, mergeVars
<1>0. SearchOK(s)
  BY DEF HeadInv
<1>1. HeadTypeOK'
  BY DEF HeadTypeOK
<1>2. \A u \in Search \ {s} : Same(u)
  BY DEF HeadTypeOK, Same
<1>3. \A n \in Node : NodeOK(s, n)'
  BY <1>0 DEF SearchOK, PostOK, NodeOK
<1>4. post'[s] = "asked"
  BY DEF HeadTypeOK
<1>5. PostOK(s)'
  BY <1>0, <1>4 DEF SearchOK, PostOK
<1>6. MergeOK(s)'
  BY <1>0 DEF SearchOK, PostOK, MergeOK, NodesEnded, WithData, Complete
<1> QED
  BY <1>1, <1>2, <1>3, <1>5, <1>6 DEF About, SearchOK

\* The steps of the view that write nothing but its own place and the TaskMeta row.
LEMMA ViewOK ==
  ASSUME HeadTypeOK, HeadInv, NEW s \in Search,
         Refuse(s) \/ TrackLook(s) \/ TrackInsert(s) \/ Commit(s) \/ CommitFails(s)
  PROVE  About(s)
<1> USE DEF Refuse, TrackLook, TrackInsert, Commit, CommitFails, PostGoto, nodeVars, mergeVars
<1>0. SearchOK(s)
  BY DEF HeadInv
<1>1. HeadTypeOK'
  BY DEF HeadTypeOK
<1>2. \A u \in Search \ {s} : Same(u)
  BY DEF HeadTypeOK, Same
<1>3. \A n \in Node : NodeOK(s, n)'
  BY <1>0 DEF SearchOK, NodeOK
<1>5. PostOK(s)'
  BY <1>0 DEF SearchOK, PostOK, HeadTypeOK
<1>6. MergeOK(s)'
  <2>1. meta'[s] = meta[s] \/ (meta'[s] = "PENDING" /\ meta[s] = "absent")
    BY <1>0 DEF HeadTypeOK, SearchOK, PostOK
  <2> QED
    BY <1>0, <2>1 DEF SearchOK, MergeOK, NodesEnded, WithData, Missing, Complete, AllResults
<1> QED
  BY <1>1, <1>2, <1>3, <1>5, <1>6 DEF About, SearchOK

LEMMA SendChordOK == ASSUME HeadTypeOK, HeadInv, NEW s \in Search, SendChord(s) PROVE About(s)
<1> USE DEF SendChord, PostGoto
<1>0. SearchOK(s)
  BY DEF HeadInv
<1>1. HeadTypeOK'
  BY DEF HeadTypeOK
<1>2. \A u \in Search \ {s} : Same(u)
  BY DEF HeadTypeOK, Same
<1>3. \A n \in Node : NodeOK(s, n)'
  BY <1>0 DEF SearchOK, NodeOK, PostOK, HeadTypeOK
<1>4. post'[s] = "sent" /\ merge'[s] = "waiting" /\ merge[s] = "none" /\ meta[s] = "absent"
  BY <1>0 DEF SearchOK, PostOK, HeadTypeOK
<1>5. PostOK(s)'
  BY <1>4 DEF PostOK
<1>6. MergeOK(s)'
  BY <1>0, <1>4 DEF SearchOK, MergeOK
<1> QED
  BY <1>1, <1>2, <1>3, <1>5, <1>6 DEF About, SearchOK

-----------------------------------------------------------------------------
(***************************************************************************)
(* The nodes.                                                              *)
(***************************************************************************)
\* While a node is at work the merge task waits.
LEMMA Waiting ==
  ASSUME HeadTypeOK, NEW s \in Search, SearchOK(s), NEW n \in NodesOf[s],
         task[s][n] \in {"queued", "holding"}
  PROVE  n \in Node /\ merge[s] = "waiting" /\ post[s] \notin {"idle", "asked", "refused"}
<1>1. n \in Node
  BY HeadAssumption
<1>2. post[s] \notin {"idle", "asked", "refused"}
  BY <1>1 DEF SearchOK, PostOK
<1>3. merge[s] \notin {"none", "saved", "ended"}
  BY <1>2 DEF SearchOK, PostOK, MergeOK, NodesEnded
<1> QED
  BY <1>1, <1>2, <1>3 DEF HeadTypeOK

LEMMA NodeStepOK ==
  ASSUME HeadTypeOK, HeadInv, NEW s \in Search, NEW n \in NodesOf[s], NodeStep(s, n)
  PROVE  About(s)
<1>0. SearchOK(s)
  BY DEF HeadInv
<1>1. task[s][n] \in {"queued", "holding"}
  BY DEF NodeStep, NothingToSearch, NodeSearches, NodeFails, Upload
<1>2. n \in Node /\ merge[s] = "waiting" /\ post[s] \notin {"idle", "asked", "refused"}
  BY <1>0, <1>1, Waiting
<1> DEFINE other == Node \ {n}
<1>3. /\ UNCHANGED <<postVars, mergeVars>>
      /\ task' \in [Search -> [Node -> {"none", "queued", "holding", "done", "failed"}]]
      /\ file' \in [Search -> [Node -> {"none", "empty", "data", "gone"}]]
      /\ found' \in [Search -> SUBSET Node]
      /\ \A u \in Search \ {s} : task'[u] = task[u] /\ file'[u] = file[u] /\ found'[u] = found[u]
      /\ \A k \in other : /\ task'[s][k] = task[s][k] /\ file'[s][k] = file[s][k]
                          /\ (k \in found'[s]) = (k \in found[s])
      /\ task'[s][n] \in {"holding", "done", "failed"}
      /\ NodeOK(s, n)'
  <2> USE <1>0, <1>2
  <2>0. NodeOK(s, n)
    BY DEF SearchOK
  <2>1. CASE NothingToSearch(s, n)
    BY <2>0, <2>1 DEF NothingToSearch, TaskGoto, HeadTypeOK, postVars, mergeVars, NodeOK
  <2>2. CASE NodeSearches(s, n)
    <3> USE <2>2 DEF NodeSearches, TaskGoto
    <3>1. UNCHANGED <<postVars, mergeVars, file>>
      OBVIOUS
    <3>2. PICK F \in {found[s], found[s] \cup {n}} : found' = [found EXCEPT ![s] = F]
      BY DEF HeadTypeOK
    <3>3. /\ found' \in [Search -> SUBSET Node] /\ found'[s] = F
          /\ \A u \in Search \ {s} : found'[u] = found[u]
      BY <3>2 DEF HeadTypeOK
    <3>4. /\ task' \in [Search -> [Node -> {"none", "queued", "holding", "done", "failed"}]]
          /\ \A u \in Search \ {s} : task'[u] = task[u]
          /\ \A k \in other : task'[s][k] = task[s][k]
          /\ task'[s][n] = "holding"
      BY DEF HeadTypeOK
    <3>5. file[s][n] = "none"
      BY <2>0 DEF NodeOK
    <3>6. NodeOK(s, n)'
      BY <3>1, <3>4, <3>5 DEF NodeOK
    <3> QED
      BY <3>1, <3>2, <3>3, <3>4, <3>6 DEF HeadTypeOK
  <2>3. CASE NodeFails(s, n)
    BY <2>0, <2>3 DEF NodeFails, TaskGoto, HeadTypeOK, postVars, mergeVars, NodeOK
  <2>4. CASE Upload(s, n)
    <3> USE <2>4 DEF Upload, Store, TaskGoto
    <3>1. UNCHANGED <<postVars, mergeVars, found>>
      OBVIOUS
    <3>2. PICK f \in {file[s][n], IF s \in flows /\ n \notin found[s] THEN "empty" ELSE "data"} :
             file' = [file EXCEPT ![s][n] = f]
      BY DEF HeadTypeOK
    <3>3. /\ file' \in [Search -> [Node -> {"none", "empty", "data", "gone"}]]
          /\ \A u \in Search \ {s} : file'[u] = file[u]
          /\ \A k \in other : file'[s][k] = file[s][k]
          /\ file'[s][n] = f
      BY <3>2 DEF HeadTypeOK
    <3>4. /\ task' \in [Search -> [Node -> {"none", "queued", "holding", "done", "failed"}]]
          /\ \A u \in Search \ {s} : task'[u] = task[u]
          /\ \A k \in other : task'[s][k] = task[s][k]
          /\ task'[s][n] = "done"
      BY DEF HeadTypeOK
    <3>5. NodeOK(s, n)'
      BY <2>0, <3>1, <3>2, <3>3, <3>4 DEF NodeOK, postVars, mergeVars
    <3> QED
      BY <3>1, <3>3, <3>4, <3>5 DEF HeadTypeOK
  <2> QED
    BY <2>1, <2>2, <2>3, <2>4 DEF NodeStep
<1> HIDE DEF other
<1>4. HeadTypeOK'
  BY <1>3 DEF HeadTypeOK, postVars, mergeVars
<1>5. \A u \in Search \ {s} : Same(u)
  BY <1>3 DEF Same, postVars, mergeVars
<1>6. \A k \in Node : NodeOK(s, k)'
  <2> SUFFICES ASSUME NEW k \in Node PROVE NodeOK(s, k)'
    OBVIOUS
  <2>1. CASE k = n
    BY <1>3, <2>1
  <2>2. CASE k # n
    BY <1>0, <1>3, <2>2 DEF SearchOK, NodeOK, other, postVars, mergeVars
  <2> QED
    BY <2>1, <2>2
<1>7. PostOK(s)'
  BY <1>0, <1>2, <1>3 DEF SearchOK, PostOK, postVars, mergeVars
<1>8. MergeOK(s)'
  BY <1>0, <1>2, <1>3 DEF SearchOK, MergeOK, postVars, mergeVars
<1> QED
  BY <1>4, <1>5, <1>6, <1>7, <1>8 DEF About, SearchOK

-----------------------------------------------------------------------------
(***************************************************************************)
(* The merge task.                                                         *)
(***************************************************************************)
\* When all nodes have ended and none of the files is missing, the files that count
\* are all there are to be.
LEMMA AllFound ==
  ASSUME HeadTypeOK, NEW s \in Search, SearchOK(s), NodesEnded(s),
         merge[s] # "ended", Missing(s) = {}
  PROVE  WithData(s) = AllResults(s)
<1>0. ASSUME NEW n \in NodesOf[s]
      PROVE  n \in Node /\ NodeOK(s, n) /\ file[s][n] \in {"data", "empty"}
  <2>1. n \in Node /\ NodeOK(s, n)
    BY <1>0, HeadAssumption DEF SearchOK
  <2>2. file[s][n] \notin {"none", "gone"}
    BY <2>1 DEF Missing, NodeOK
  <2> QED
    BY <2>1, <2>2 DEF HeadTypeOK
<1>1. CASE s \in flows
  <2>1. ASSUME NEW n \in found[s] PROVE n \in WithData(s)
    <3>1. n \in Node /\ NodeOK(s, n)
      BY <2>1 DEF HeadTypeOK, SearchOK
    <3>2. n \in NodesOf[s]
      BY <2>1, <3>1 DEF NodeOK
    <3> QED
      BY <1>0, <2>1, <3>2 DEF NodeOK, WithData
  <2>2. ASSUME NEW n \in WithData(s) PROVE n \in found[s]
    BY <1>0, <1>1, <2>2 DEF WithData, NodeOK
  <2> QED
    BY <1>1, <2>1, <2>2 DEF AllResults
<1>2. CASE s \notin flows
  BY <1>0, <1>2 DEF AllResults, WithData, NodeOK
<1> QED
  BY <1>1, <1>2

LEMMA MergeStarts ==
  ASSUME HeadTypeOK, NEW s \in Search, SearchOK(s), merge[s] \in {"waiting", "saved"}
  PROVE  post[s] \notin {"idle", "asked", "refused"}
BY DEF SearchOK, PostOK

\* A merge that ends without touching a file.
LEMMA EndsOK ==
  ASSUME HeadTypeOK, HeadInv, NEW s \in Search, NEW st \in Final, EndTask(s, st),
         merge[s] = "waiting", NodesEnded(s),
         UNCHANGED <<nodeVars, botched, result>>, completed' \subseteq Search,
         incomplete' = incomplete \/ incomplete' = incomplete \cup {s},
         st = "SUCCESS" => Complete(s)'
  PROVE  About(s)
<1> USE DEF EndTask, nodeVars
<1>0. SearchOK(s)
  BY DEF HeadInv
<1>1. HeadTypeOK'
  BY DEF HeadTypeOK
<1>2. \A u \in Search \ {s} : Same(u)
  BY DEF HeadTypeOK, Same
<1>3. merge'[s] = "ended" /\ meta'[s] = st
  BY DEF HeadTypeOK
<1>4. \A n \in Node : NodeOK(s, n)'
  BY <1>0, <1>3 DEF SearchOK, NodeOK
<1>5. PostOK(s)'
  BY <1>0, <1>3, MergeStarts DEF SearchOK, PostOK, Final
<1>6. MergeOK(s)'
  <2>1. NodesEnded(s)'
    BY DEF NodesEnded
  <2> QED
    BY <1>0, <1>3, <2>1 DEF SearchOK, MergeOK, Final
<1> QED
  BY <1>1, <1>2, <1>4, <1>5, <1>6 DEF About, SearchOK

LEMMA MergeFilesOK == ASSUME HeadTypeOK, HeadInv, NEW s \in Search, MergeFiles(s) PROVE About(s)
<1> USE DEF MergeFiles, postVars, nodeVars, MayMerge
<1>0. SearchOK(s)
  BY DEF HeadInv
<1>1. WithData(s) \subseteq Node /\ WithData(s)' = WithData(s)
  BY HeadAssumption DEF WithData
<1>2. HeadTypeOK'
  BY <1>1 DEF HeadTypeOK
<1>3. \A u \in Search \ {s} : Same(u)
  BY DEF HeadTypeOK, Same
<1>4. merge'[s] = "saved" /\ merge[s] = "waiting"
  BY DEF HeadTypeOK
<1>5. \A n \in Node : NodeOK(s, n)'
  BY <1>0, <1>4 DEF SearchOK, NodeOK
<1>6. PostOK(s)'
  BY <1>0, <1>4, MergeStarts DEF SearchOK, PostOK
<1>7. MergeOK(s)'
  <2>1. NodesEnded(s)'
    BY DEF NodesEnded
  <2>2. s \in botched' => s \notin flows'
    BY <1>0, <1>4 DEF SearchOK, MergeOK
  <2>3. s \notin botched' => result'[s] = WithData(s)
    BY DEF HeadTypeOK
  <2>4. meta'[s] \in {"absent", "PENDING"}
    BY <1>0, <1>4 DEF SearchOK, MergeOK
  <2>5. s \in incomplete' => Missing(s)' # {}
    BY <1>0, <1>4 DEF SearchOK, MergeOK, Missing
  <2> QED
    BY <1>1, <1>4, <2>1, <2>2, <2>3, <2>4, <2>5 DEF MergeOK
<1> QED
  BY <1>2, <1>3, <1>5, <1>6, <1>7 DEF About, SearchOK

LEMMA DeleteResultsOK ==
  ASSUME HeadTypeOK, HeadInv, NEW s \in Search, DeleteResults(s) PROVE About(s)
<1> USE DEF DeleteResults, EndTask
<1>0. SearchOK(s)
  BY DEF HeadInv
<1>1. NodesOf[s] \subseteq Node
  BY HeadAssumption
<1>2. /\ file' \in [Search -> [Node -> {"none", "empty", "data", "gone"}]]
      /\ \A u \in Search \ {s} : file'[u] = file[u]
      /\ \A n \in Node : file'[s][n] \in {file[s][n], "gone"}
      /\ \A n \in Node : n \notin NodesOf[s] => file'[s][n] = file[s][n]
  <2>1. PICK gone \in SUBSET NodesOf[s] :
           file' = [file EXCEPT ![s] = [n \in Node |-> IF n \in gone THEN "gone" ELSE file[s][n]]]
    <3>1. CASE Missing(s) = {}
      BY <3>1
    <3>2. CASE Missing(s) # {}
      BY <3>2
    <3> QED
      BY <3>1, <3>2
  <2> DEFINE F == [n \in Node |-> IF n \in gone THEN "gone" ELSE file[s][n]]
  <2>2. F \in [Node -> {"none", "empty", "data", "gone"}]
    BY DEF HeadTypeOK
  <2>3. /\ \A n \in Node : F[n] \in {file[s][n], "gone"}
        /\ \A n \in Node : n \notin NodesOf[s] => F[n] = file[s][n]
    OBVIOUS
  <2>4. file' = [file EXCEPT ![s] = F]
    BY <2>1
  <2> HIDE DEF F
  <2>5. /\ file' \in [Search -> [Node -> {"none", "empty", "data", "gone"}]]
        /\ \A u \in Search \ {s} : file'[u] = file[u]
        /\ file'[s] = F
    BY <2>2, <2>4 DEF HeadTypeOK
  <2> QED
    BY <2>3, <2>5
<1>3. /\ merge[s] = "saved" /\ merge'[s] = "ended"
      /\ meta'[s] \in Final
      /\ meta'[s] = "SUCCESS" => Missing(s) = {}
  BY DEF HeadTypeOK, Final
<1>4. HeadTypeOK'
  <2>1. meta' \in [Search -> {"absent", "PENDING"} \cup Final]
    BY DEF HeadTypeOK, Final
  <2>2. merge' \in [Search -> {"none", "waiting", "saved", "ended"}]
    <3>1. merge' = [merge EXCEPT ![s] = "ended"]
      OBVIOUS
    <3> HIDE DEF DeleteResults, EndTask
    <3> QED
      BY <3>1 DEF HeadTypeOK
  <2>3. completed' \in {completed, completed \cup {s}}
    OBVIOUS
  <2> QED
    BY <1>2, <2>1, <2>2, <2>3 DEF HeadTypeOK
<1>5. \A u \in Search \ {s} : Same(u)
  BY <1>2 DEF HeadTypeOK, Same
<1>6. \A n \in Node : NodeOK(s, n)'
  <2> SUFFICES ASSUME NEW n \in Node PROVE NodeOK(s, n)'
    OBVIOUS
  <2>1. NodeOK(s, n) /\ task'[s][n] = task[s][n] /\ found'[s] = found[s]
    BY <1>0 DEF SearchOK
  <2>2. task[s][n] \in {"none", "queued"} => file'[s][n] = file[s][n]
    <3>1. n \in NodesOf[s] /\ task[s][n] \in {"none", "queued"} => FALSE
      BY <1>0, <1>3 DEF SearchOK, MergeOK, NodesEnded
    <3> QED
      BY <1>2, <3>1
  <2> QED
    BY <1>2, <1>3, <2>1, <2>2 DEF NodeOK
<1>7. PostOK(s)'
  BY <1>0, <1>3, MergeStarts DEF SearchOK, PostOK, Final
<1>8. MergeOK(s)'
  <2>1. NodesEnded(s) /\ NodesEnded(s)'
    BY <1>0, <1>3 DEF SearchOK, MergeOK, NodesEnded
  <2>2. meta'[s] = "SUCCESS" /\ s \notin botched' => Complete(s)'
    <3> SUFFICES ASSUME meta'[s] = "SUCCESS", s \notin botched' PROVE Complete(s)'
      OBVIOUS
    <3>1. Missing(s) = {} /\ UNCHANGED <<flows, found, result, botched, incomplete>>
      BY <1>3
    <3>2. s \notin incomplete /\ result[s] = WithData(s)
      BY <1>0, <1>3, <3>1 DEF SearchOK, MergeOK
    <3>3. WithData(s) = AllResults(s)
      BY <1>0, <1>3, <2>1, <3>1, AllFound
    <3> QED
      BY <3>1, <3>2, <3>3 DEF Complete, AllResults
  <2> QED
    BY <1>0, <1>3, <2>1, <2>2 DEF SearchOK, MergeOK, Final
<1> QED
  BY <1>4, <1>5, <1>6, <1>7, <1>8 DEF About, SearchOK

LEMMA MergeStepOK == ASSUME HeadTypeOK, HeadInv, NEW s \in Search, MergeStep(s) PROVE About(s)
<1>0. SearchOK(s)
  BY DEF HeadInv
<1>1. CASE ChordFails(s)
  BY <1>1, EndsOK DEF ChordFails, HeadTypeOK, Final
<1>2. CASE MergeFindsNoSearch(s)
  BY <1>2, EndsOK DEF MergeFindsNoSearch, MayMerge, NodesEnded, HeadTypeOK, Final
<1>3. CASE MergeNothing(s)
  <2>1. merge[s] = "waiting" /\ NodesEnded(s)
    BY <1>3 DEF MergeNothing, MayMerge, NodesEnded
  <2>2. result[s] = {}
    BY <1>0, <2>1 DEF SearchOK, MergeOK
  <2>3. Complete(s)'
    <3>1. UNCHANGED <<flows, found, result>> /\ WithData(s) = {}
      BY <1>3 DEF MergeNothing, EndTask, nodeVars
    <3>2. CASE Missing(s) = {}
      <4>1. AllResults(s) = {}
        BY <1>0, <2>1, <3>1, <3>2, AllFound
      <4> QED
        BY <2>2, <3>1, <4>1 DEF Complete, AllResults
    <3>3. CASE Missing(s) # {}
      BY <1>3, <2>2, <3>1, <3>3 DEF MergeNothing, Complete
    <3> QED
      BY <3>2, <3>3
  <2> QED
    BY <1>3, <2>1, <2>3, EndsOK DEF MergeNothing, HeadTypeOK, Final
<1>4. CASE MergeFlows(s) \/ MergeRaises(s)
  BY <1>4, EndsOK DEF MergeFlows, MergeRaises, MayMerge, NodesEnded, HeadTypeOK, Final
<1>5. CASE MergeFiles(s)
  BY <1>5, MergeFilesOK
<1>6. CASE DeleteResults(s)
  BY <1>6, DeleteResultsOK
<1> QED
  BY <1>1, <1>2, <1>3, <1>4, <1>5, <1>6 DEF MergeStep

-----------------------------------------------------------------------------
(***************************************************************************)
(* A step of the search head.                                              *)
(***************************************************************************)
\* A success and its result are final, and a search stays one for flows.
Lasting ==
    /\ flows \subseteq flows'
    /\ \A u \in Search : meta[u] = "SUCCESS" => meta'[u] = "SUCCESS" /\ result'[u] = result[u]

LEMMA HeadNextOK ==
  ASSUME HeadTypeOK, HeadInv, HeadNext \/ \E s \in Search : Ask(s)
  PROVE  HeadTypeOK' /\ HeadInv' /\ Lasting
<1>1. PICK s \in Search :
         \/ Ask(s) \/ Refuse(s) \/ ViewStep(s) \/ MergeStep(s)
         \/ \E n \in NodesOf[s] : NodeStep(s, n)
  BY DEF HeadNext
<1>2. About(s)
  BY <1>1, AskOK, ViewOK, SendChordOK, NodeStepOK, MergeStepOK DEF ViewStep
<1>3. SearchOK(s)
  BY DEF HeadInv
<1>4. meta[s] = "SUCCESS" => meta'[s] = "SUCCESS" /\ result'[s] = result[s]
  <2> SUFFICES ASSUME meta[s] = "SUCCESS" PROVE meta'[s] = "SUCCESS" /\ result'[s] = result[s]
    OBVIOUS
  <2>1. merge[s] = "ended" /\ post[s] \notin {"asked", "inserted"}
    BY <1>3 DEF SearchOK, MergeOK, PostOK
  <2>2. ~ MergeStep(s)
    BY <2>1 DEF MergeStep, ChordFails, MergeFindsNoSearch, MergeNothing, MergeFlows,
       MergeRaises, MergeFiles, DeleteResults, MayMerge
  <2>3. CASE Ask(s)
    BY <2>3 DEF Ask, mergeVars
  <2>4. CASE Refuse(s) \/ ViewStep(s)
    BY <2>1, <2>4 DEF Refuse, ViewStep, SendChord, TrackLook, TrackInsert, Commit,
       CommitFails, mergeVars
  <2>5. CASE \E n \in NodesOf[s] : NodeStep(s, n)
    BY <2>5 DEF NodeStep, NothingToSearch, NodeSearches, NodeFails, Upload, postVars, mergeVars
  <2> QED
    BY <1>1, <2>2, <2>3, <2>4, <2>5
<1>5. flows \subseteq flows'
  <2>1. CASE Ask(s)
    BY <2>1 DEF Ask
  <2>2. CASE Refuse(s) \/ ViewStep(s)
    BY <2>2 DEF Refuse, ViewStep, SendChord, TrackLook, TrackInsert, Commit, CommitFails
  <2>3. CASE MergeStep(s)
    BY <2>3 DEF MergeStep, ChordFails, MergeFindsNoSearch, MergeNothing, MergeFlows,
       MergeRaises, MergeFiles, DeleteResults, EndTask, postVars
  <2>4. CASE \E n \in NodesOf[s] : NodeStep(s, n)
    BY <2>4 DEF NodeStep, NothingToSearch, NodeSearches, NodeFails, Upload, postVars
  <2> QED
    BY <1>1, <2>1, <2>2, <2>3, <2>4
<1> QED
  BY <1>2, <1>4, <1>5, AboutOne DEF About, Same, Lasting

-----------------------------------------------------------------------------
(***************************************************************************)
(* The task list.                                                          *)
(***************************************************************************)
\* What set_tasks and task_check leave of the requests.
GetsType == [Request -> {Free, Sent} \cup {Answered(l) : l \in TaskList}]

\* task_check sends a request when it is called at all, and no answer is made up.
LEMMA CheckOK ==
  ASSUME PanelTypeOK, NEW c \in Nat \ {0}, NEW r \in Nat, task_check(c, r),
         current => r > 0
  PROVE  /\ timers' \in Nat /\ current' = FALSE
         /\ gets' \in GetsType
         /\ InFlight' # {}
         /\ \A g \in Request : gets'[g].state = "answered" => gets'[g] = gets[g]
<1>1. timers' \in Nat /\ current' = FALSE
  BY DEF task_check, PanelTypeOK
<1>2. PICK new \in SUBSET Request :
         /\ Cardinality(new) = c
         /\ gets' = [g \in Request |-> IF g \in new THEN Sent ELSE gets[g]]
  BY DEF task_check, FirstFree
<1>3. new # {}
  BY <1>2, FS_EmptySet
<1>4. gets' \in GetsType
  BY <1>2 DEF PanelTypeOK, GetsType
<1>5. PICK g \in Request : gets'[g] = Sent
  BY <1>2, <1>3
<1>6. g \in InFlight'
  BY <1>5 DEF InFlight, Sent
<1>7. \A h \in Request : gets'[h].state = "answered" => gets'[h] = gets[h]
  BY <1>2 DEF Sent
<1> QED
  BY <1>1, <1>4, <1>6, <1>7

\* A list of tasks, by its domain.
LEMMA ListType ==
  ASSUME NEW T \in SUBSET Task, NEW l \in [T -> Status]
  PROVE  l \in TaskList /\ DOMAIN l = T
BY DEF TaskList

LEMMA ListDomain ==
  ASSUME NEW l \in TaskList
  PROVE  DOMAIN l \in SUBSET Task /\ l \in [DOMAIN l -> Status]
<1>1. PICK T \in SUBSET Task : l \in [T -> Status]
  BY DEF TaskList
<1> QED
  BY <1>1

\* An answer on its way back carries a list.
LEMMA AnswerType ==
  ASSUME PanelTypeOK, NEW g \in Request, gets[g].state = "answered"
  PROVE  gets[g].list \in TaskList
<1>1. gets[g] \in {Free, Sent} \cup {Answered(l) : l \in TaskList}
  BY DEF PanelTypeOK
<1>2. PICK l \in TaskList : gets[g] = Answered(l)
  BY <1>1 DEF Free, Sent
<1> QED
  BY <1>2 DEF Answered

-----------------------------------------------------------------------------
(***************************************************************************)
(* The steps of the whole page.                                            *)
(***************************************************************************)
LEMMA HeadMoves ==
  ASSUME IInv, HeadNext \/ \E s \in Search : Ask(s),
         UNCHANGED <<panelVars, cleared, watched, table, clears, lost>>,
         unread' \subseteq Search
  PROVE  IInv'
<1> USE DEF IInv
<1>1. HeadTypeOK' /\ HeadInv' /\ Lasting
  BY HeadNextOK DEF TypeOK
<1>2. UNCHANGED <<known, dom, timers, current, gets, clearing, lostGets>>
  BY DEF panelVars
<1>3. TypeOK'
  <2>1. PanelTypeOK'
    BY <1>2 DEF TypeOK, PanelTypeOK
  <2> QED
    BY <1>1, <2>1 DEF TypeOK, Lasting
<1>4. AnswersTrue'
  <2>1. DOMAIN known \subseteq Search
    BY ListDomain, PageAssumption DEF TypeOK, PanelTypeOK
  <2>2. ASSUME NEW g \in Request, gets[g].state = "answered"
        PROVE  DOMAIN gets[g].list \subseteq Search
    BY <2>2, AnswerType, ListDomain, PageAssumption DEF TypeOK
  <2> QED
    BY <1>1, <1>2, <2>1, <2>2 DEF AnswersTrue, Lasting
<1>5. TableTrue'
  <2>1. table.search # None => table.search \in Search
    BY DEF TypeOK, HeadTypeOK
  <2> QED
    BY <1>1, <2>1 DEF TableTrue, Lasting
<1>6. PollingAlive'
  BY <1>2 DEF PollingAlive, InFlight
<1> QED
  BY <1>1, <1>3, <1>4, <1>5, <1>6

\* The page moves and the search head does not.
LEMMA HeadStays ==
  ASSUME HeadTypeOK, HeadInv, UNCHANGED headVars
  PROVE  HeadTypeOK' /\ HeadInv' /\ meta' = meta /\ result' = result /\ flows' = flows
<1> USE DEF headVars, postVars, nodeVars, mergeVars
<1>1. HeadTypeOK'
  BY DEF HeadTypeOK
<1>2. \A u \in Search : Same(u)
  BY DEF Same
<1>3. HeadInv'
  BY <1>2, Frame DEF HeadInv
<1> QED
  BY <1>1, <1>3

\* A step that calls task_check.
LEMMA CheckMoves ==
  ASSUME IInv, UNCHANGED <<headVars, known, dom, clearing, lostGets, cleared, table, clears, lost>>,
         NEW c \in Nat \ {0}, NEW r \in Nat, task_check(c, r), current => r > 0,
         watched' \in flows \cup {None}, unread' \subseteq Search
  PROVE  IInv'
<1> USE DEF IInv
<1>1. HeadTypeOK' /\ HeadInv' /\ meta' = meta /\ result' = result /\ flows' = flows
  BY HeadStays DEF TypeOK
<1>2. /\ timers' \in Nat /\ current' = FALSE /\ gets' \in GetsType /\ InFlight' # {}
      /\ \A g \in Request : gets'[g].state = "answered" => gets'[g] = gets[g]
  BY CheckOK DEF TypeOK
<1>3. TypeOK'
  <2>1. PanelTypeOK'
    BY <1>2 DEF TypeOK, PanelTypeOK, GetsType
  <2> QED
    BY <1>1, <2>1 DEF TypeOK
<1>4. AnswersTrue'
  BY <1>1, <1>2 DEF AnswersTrue
<1>5. TableTrue'
  BY <1>1 DEF TableTrue
<1>6. PollingAlive'
  BY <1>2 DEF PollingAlive
<1> QED
  BY <1>1, <1>3, <1>4, <1>5, <1>6

\* A step that changes neither the requests and timers nor what the page shows.
LEMMA QuietMoves ==
  ASSUME IInv, UNCHANGED <<headVars, known, timers, current, gets, lostGets, watched, table>>,
         dom' \subseteq DOMAIN known, clearing' \subseteq Task,
         cleared' \subseteq Search, unread' \subseteq Search,
         clears' \in 0..MaxClears, lost' \in 0..MaxLost
  PROVE  IInv'
<1> USE DEF IInv
<1>1. HeadTypeOK' /\ HeadInv' /\ meta' = meta /\ result' = result /\ flows' = flows
  BY HeadStays DEF TypeOK
<1>2. TypeOK'
  <2>1. PanelTypeOK'
    BY DEF TypeOK, PanelTypeOK
  <2> QED
    BY <1>1, <2>1 DEF TypeOK
<1>3. AnswersTrue' /\ TableTrue' /\ PollingAlive'
  BY <1>1 DEF AnswersTrue, TableTrue, PollingAlive, InFlight
<1> QED
  BY <1>1, <1>2, <1>3

\* The server answers with what it has at that moment.
LEMMA ReadMoves == ASSUME IInv, NEW g \in Request, ReadTasks(g) PROVE IInv'
<1> USE DEF IInv, ReadTasks, Answer
<1>1. HeadTypeOK' /\ HeadInv' /\ meta' = meta /\ result' = result /\ flows' = flows
  BY HeadStays DEF TypeOK
<1>2. MyTasks \in TaskList
  <2>1. \A u \in Listed : meta[u] \in Status
    BY DEF Listed, Visible, HeadInv, SearchOK, PostOK, TypeOK, HeadTypeOK, Status, Final
  <2>2. MyTasks \in [Listed -> Status]
    BY <2>1 DEF MyTasks
  <2>3. Listed \in SUBSET Task
    BY PageAssumption DEF Listed
  <2> QED
    BY <2>2, <2>3, ListType
<1>3. /\ gets' \in GetsType /\ gets'[g] = Answered(MyTasks)
      /\ \A h \in Request \ {g} : gets'[h] = gets[h]
  BY <1>2 DEF TypeOK, PanelTypeOK, GetsType
<1>4. TypeOK'
  <2>1. PanelTypeOK'
    BY <1>3 DEF TypeOK, PanelTypeOK, GetsType
  <2> QED
    BY <1>1, <2>1 DEF TypeOK, pageVars
<1>5. AnswersTrue'
  <2>1. Answered(MyTasks).list = MyTasks
    BY DEF Answered
  <2>2. \A t \in DOMAIN MyTasks : MyTasks[t] = meta[t]
    BY DEF MyTasks
  <2> QED
    BY <1>1, <1>3, <2>1, <2>2 DEF AnswersTrue
<1>6. TableTrue'
  BY <1>1 DEF TableTrue, pageVars
<1>7. PollingAlive'
  <2>1. g \in InFlight'
    BY <1>3 DEF InFlight, Answered
  <2> QED
    BY <2>1 DEF PollingAlive
<1> QED
  BY <1>1, <1>4, <1>5, <1>6, <1>7

\* A request for the tasks is lost: from now on nothing is promised of the polling.
LEMMA LossMoves == ASSUME IInv, NEW g \in Request, TasksUnanswered(g) PROVE IInv'
<1> USE DEF IInv, TasksUnanswered, GetFails
<1>1. HeadTypeOK' /\ HeadInv' /\ meta' = meta /\ result' = result /\ flows' = flows
  BY HeadStays DEF TypeOK
<1>2. /\ gets' \in GetsType /\ gets'[g] = Free
      /\ \A h \in Request \ {g} : gets'[h] = gets[h]
  BY DEF TypeOK, PanelTypeOK, GetsType
<1>3. TypeOK'
  <2>1. PanelTypeOK'
    BY <1>2 DEF TypeOK, PanelTypeOK, GetsType
  <2> QED
    BY <1>1, <2>1, PageAssumption DEF TypeOK
<1>4. AnswersTrue'
  BY <1>1, <1>2 DEF AnswersTrue, Free
<1>5. TableTrue'
  BY <1>1 DEF TableTrue
<1>6. PollingAlive'
  BY DEF PollingAlive, TypeOK, PanelTypeOK
<1> QED
  BY <1>1, <1>3, <1>4, <1>5, <1>6

\* The page makes its list of an answer, and may find its search in it.
LEMMA ListMoves == ASSUME IInv, NEW g \in Request, TasksAnswered(g) PROVE IInv'
<1> USE DEF IInv, TasksAnswered, set_tasks
<1>1. HeadTypeOK' /\ HeadInv' /\ meta' = meta /\ result' = result /\ flows' = flows
  BY HeadStays DEF TypeOK
<1> DEFINE list == gets[g].list
<1>2. list \in TaskList /\ DOMAIN list \in SUBSET Task /\ list \in [DOMAIN list -> Status]
  BY AnswerType, ListDomain DEF TypeOK
<1>3. known' = [t \in DOMAIN list |-> get_task(t, list)] /\ dom' = DOMAIN list
  OBVIOUS
<1>4. \A t \in DOMAIN list : get_task(t, list) \in Status
  <2>1. known \in [DOMAIN known -> Status]
    BY ListDomain DEF TypeOK, PanelTypeOK
  <2> QED
    BY <1>2, <2>1 DEF get_task
<1>5. known' \in TaskList /\ DOMAIN known' = DOMAIN list
  BY <1>2, <1>3, <1>4, ListType
<1>6. \A t \in DOMAIN known' : known'[t] = "SUCCESS" => meta[t] = "SUCCESS"
  BY <1>3 DEF get_task, AnswersTrue
<1> HIDE DEF list
<1>7. /\ gets' \in GetsType /\ gets'[g] = Free
      /\ \A h \in Request \ {g} : gets'[h] = gets[h]
  BY DEF TypeOK, PanelTypeOK, GetsType
<1>8. PanelTypeOK'
  <2>1. timers' \in Nat /\ timers' > 0 /\ current' = TRUE
    BY DEF TypeOK, PanelTypeOK
  <2> QED
    BY <1>3, <1>5, <1>7, <2>1 DEF TypeOK, PanelTypeOK, GetsType
<1>9. /\ watched' \in flows \cup {None}
      /\ table' \in [search : flows \cup {None}, flows : SUBSET Node]
      /\ table'.search # None =>
            meta[table'.search] = "SUCCESS" /\ table'.flows = result[table'.search]
  <2>1. CASE watched \in DOMAIN known' /\ known'[watched] = "SUCCESS"
    <3>1. watched \in Search
      BY <1>2, <1>5, <2>1, PageAssumption
    <3>2. watched \in flows /\ result[watched] \in SUBSET Node
      BY <3>1, PageAssumption DEF TypeOK, HeadTypeOK
    <3>3. table' = [search |-> watched, flows |-> result[watched]] /\ watched' = None
      BY <2>1 DEF check_search_results
    <3> QED
      BY <1>6, <2>1, <3>2, <3>3
  <2>2. CASE ~ (watched \in DOMAIN known' /\ known'[watched] = "SUCCESS")
    <3>1. UNCHANGED <<table, watched>>
      BY <2>2 DEF check_search_results
    <3> QED
      BY <3>1 DEF TypeOK, TableTrue
  <2> QED
    BY <2>1, <2>2
<1>10. TypeOK'
  BY <1>1, <1>8, <1>9 DEF TypeOK
<1>11. AnswersTrue'
  BY <1>1, <1>6, <1>7 DEF AnswersTrue, Free
<1>12. TableTrue'
  BY <1>1, <1>9 DEF TableTrue
<1>13. PollingAlive'
  BY DEF PollingAlive, TypeOK, PanelTypeOK
<1> QED
  BY <1>1, <1>10, <1>11, <1>12, <1>13

-----------------------------------------------------------------------------
LEMMA InitOK == ASSUME Init PROVE IInv
<1> USE DEF Init, HeadInit, PanelInit
<1>1. HeadTypeOK
  BY DEF HeadTypeOK, NoResult
<1>2. HeadInv
  BY DEF HeadInv, SearchOK, NodeOK, PostOK, MergeOK, NoResult
<1>3. PICK g \in Request : gets = [h \in Request |-> IF h = g THEN Sent ELSE Free]
  OBVIOUS
<1>4. DOMAIN known = {} /\ known \in TaskList
  <2>1. known \in [{} -> Status] /\ {} \in SUBSET Task
    OBVIOUS
  <2> QED
    BY <2>1, ListType
<1>5. PanelTypeOK
  BY <1>3, <1>4 DEF PanelTypeOK
<1>6. TypeOK
  BY <1>1, <1>5, PageAssumption DEF TypeOK, NoTable, NoResult
<1>7. AnswersTrue
  BY <1>3, <1>4 DEF AnswersTrue, Sent, Free
<1>8. TableTrue
  BY DEF TableTrue, NoTable
<1>9. PollingAlive
  <2>1. g \in InFlight
    BY <1>3 DEF InFlight, Sent
  <2> QED
    BY <2>1 DEF PollingAlive
<1> QED
  BY <1>2, <1>6, <1>7, <1>8, <1>9 DEF IInv

LEMMA StepOK == ASSUME IInv, [Next]_vars PROVE IInv'
<1>0. /\ timers \in Nat /\ (current => timers > 0) /\ current \in BOOLEAN
      /\ watched \in flows \cup {None} /\ unread \subseteq Search
      /\ cleared \subseteq Search /\ clearing \subseteq Task /\ Task = Search
      /\ dom \subseteq DOMAIN known /\ DOMAIN known \subseteq Task
      /\ clears \in 0..MaxClears /\ lost \in 0..MaxLost /\ MaxClears \in Nat /\ MaxLost \in Nat
  BY ListDomain, PageAssumption DEF IInv, TypeOK, PanelTypeOK
<1>1. CASE HeadStep
  BY <1>0, <1>1, HeadMoves DEF HeadStep, pageVars
<1>2. ASSUME NEW s \in Search, DoSearch(s) PROVE IInv'
  BY <1>0, <1>2, HeadMoves DEF DoSearch
<1>3. ASSUME NEW s \in Search, SearchAnswered(s) PROVE IInv'
  <2>1. watched' \in flows \cup {None} /\ unread' \subseteq Search
    BY <1>0, <1>3 DEF SearchAnswered
  <2> QED
    BY <1>0, <1>3, <2>1, CheckMoves DEF SearchAnswered
<1>4. ASSUME NEW s \in Search, SearchUnanswered(s) PROVE IInv'
  <2>1. lost' \in 0..MaxLost /\ unread' \subseteq Search
    BY <1>0, <1>4 DEF SearchUnanswered
  <2> QED
    BY <1>0, <1>4, <2>1, QuietMoves DEF SearchUnanswered, panelVars
<1>5. ASSUME NEW s \in Search, MarkCleared(s) PROVE IInv'
  BY <1>0, <1>5, QuietMoves DEF MarkCleared, ClearEnds
<1>11. ASSUME NEW s \in Search, TaskAges(s) PROVE IInv'
  <2>1. clears' \in 0..MaxClears /\ cleared' \subseteq Search
    BY <1>0, <1>11 DEF TaskAges
  <2> QED
    BY <1>0, <1>11, <2>1, QuietMoves DEF TaskAges, panelVars
<1>6. ASSUME NEW s \in Search, ClearLost(s) PROVE IInv'
  <2>1. lost' \in 0..MaxLost
    BY <1>0, <1>6 DEF ClearLost
  <2> QED
    BY <1>0, <1>6, <2>1, QuietMoves DEF ClearLost, ClearEnds
<1>7. ASSUME NEW g \in Request, TasksAnswered(g) \/ ReadTasks(g) \/ TasksUnanswered(g) PROVE IInv'
  BY <1>7, ListMoves, ReadMoves, LossMoves
<1>8. CASE CheckTasks
  <2>1. PICK r \in Nat : task_check(1, r) /\ (current => r > 0)
    <3>1. CASE TimerFires
      BY <1>0, <3>1 DEF TimerFires
    <3>2. CASE ForgottenTimerFires
      <4>1. timers - 1 \in Nat /\ (current => timers - 1 > 0) /\ task_check(1, timers - 1)
        BY <1>0, <3>2 DEF ForgottenTimerFires
      <4> QED
        BY <4>1
    <3> QED
      BY <1>8, <3>1, <3>2 DEF CheckTasks
  <2>2. UNCHANGED <<headVars, known, dom, clearing, lostGets, cleared, unread, watched, table, clears, lost>>
    BY <1>8 DEF CheckTasks, TimerFires, ForgottenTimerFires, pageVars
  <2> QED
    BY <1>0, <2>1, <2>2, CheckMoves
<1>9. CASE ClearTasks
  <2>1. /\ UNCHANGED <<known, timers, current, gets, lostGets>>
        /\ dom' \subseteq DOMAIN known /\ clearing' \subseteq Task
    BY <1>0, <1>9 DEF ClearTasks, clear, clear_tasks
  <2>2. clears' \in 0..MaxClears
    BY <1>0, <1>9 DEF ClearTasks
  <2> QED
    BY <1>0, <1>9, <2>1, <2>2, QuietMoves DEF ClearTasks
<1>10. CASE UNCHANGED vars
  BY <1>0, <1>10, QuietMoves DEF vars, panelVars, pageVars
<1> QED
  BY <1>1, <1>2, <1>3, <1>4, <1>5, <1>6, <1>7, <1>8, <1>9, <1>10, <1>11 DEF Next

LEMMA Inductive == Spec => []IInv
<1>1. Init => IInv
  BY InitOK
<1>2. IInv /\ [Next]_vars => IInv'
  BY StepOK
<1> QED
  BY <1>1, <1>2, PTL DEF Spec

-----------------------------------------------------------------------------
\* Types, and the relations between the parts of the page's state that they
\* state: the page watches and displays flow searches only, the task list is one
\* of the user's tasks, and a timer that is remembered runs (search.html,
\* task_check, set_tasks).
THEOREM TypeCorrect == Spec => []TypeOK
<1>1. IInv => TypeOK
  BY DEF IInv
<1> QED
  BY <1>1, Inductive, PTL

\* A search whose merge task succeeded has all of its results, or none and says that
\* some are missing, unless mergecap failed: whatever the number of nodes, and however
\* their uploads fall in the view's transaction (search_merge, PutNodeSearchResult.put,
\* Search.post).
THEOREM SuccessIsComplete == Spec => []SuccessComplete
<1>1. IInv => SuccessComplete
  BY DEF IInv, HeadInv, SearchOK, MergeOK, Complete, SuccessComplete
<1> QED
  BY <1>1, Inductive, PTL

\* The flows the page displays are all that were found, or it displays none and
\* the message of the task says why, however many answers overtake each other
\* (check_search_results, set_tasks, get_task, search_merge).
THEOREM ShownIsComplete == Spec => []ShownComplete
<1>1. IInv => ShownComplete
  <2> SUFFICES ASSUME IInv, table.search # None
               PROVE  \/ table.flows = found[table.search]
                      \/ table.flows = {} /\ table.search \in incomplete
    BY DEF ShownComplete
  <2>1. table.search \in flows /\ table.search \in Search
    BY DEF IInv, TypeOK, HeadTypeOK
  <2>2. MergeOK(table.search)
    BY <2>1 DEF IInv, HeadInv, SearchOK
  <2>3. meta[table.search] = "SUCCESS" /\ table.flows = result[table.search]
    BY DEF IInv, TableTrue
  <2> QED
    BY <2>1, <2>2, <2>3 DEF MergeOK, Complete, AllResults
<1> QED
  BY <1>1, Inductive, PTL

\* The page never stops asking for its tasks on its own: while no request has
\* failed, a request is under way or a timer runs that will send one, whatever
\* timers task_check has cancelled or forgotten (task_check, set_tasks).
THEOREM PollingGoesOn == Spec => []PollingAlive
<1>1. IInv => PollingAlive
  BY DEF IInv
<1> QED
  BY <1>1, Inductive, PTL
=============================================================================
