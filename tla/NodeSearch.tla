----------------------------- MODULE NodeSearch -----------------------------
(***************************************************************************)
(* The task search_node between its query and its upload: the threads of   *)
(* the search process, which take the indexes from a queue, and the merge  *)
(* of the result files of the indexes in batches.                          *)
(*                                                                         *)
(* The indexes are 1 .. count, in the order of the queue.  What a result   *)
(* file holds is the set of indexes whose results went into it.            *)
(***************************************************************************)
EXTENDS Naturals, Sequences, FiniteSets

CONSTANTS
    Thread,     \* the threads of the search process
    MaxIndexes, \* bound on the indexes in the time span
    MaxLeft,    \* bound on the result files that earlier searches left
    MaxBatch    \* MAX_SEARCH_BATCH

ASSUME NodeAssumption == MaxIndexes \in Nat /\ MaxLeft \in Nat /\ MaxBatch \in Nat \ {0}

VARIABLES
    step,      \* what the task is doing
    count,     \* the number of ready indexes in the time span
    packets,   \* packets are wanted, not flows
    next,      \* the first index that is still in the queue
    doing,     \* of each thread: the index it works on, 0 for none; "left" when it has returned
    abort,     \* the event
    results,   \* the indexes that have a result file
    cutOff,    \* of them, those whose file is not whole
    gaveUp,    \* the indexes on which a search failed, this one or the one that left the file
    merged,    \* the indexes that were handed to a merge command
    temps,     \* the temporary files
    final      \* the final result file, <<>> while it does not exist

fileVars == <<results, cutOff, gaveUp>>
queueVars == <<next, doing, abort, fileVars>>
batchVars == <<merged, temps, final>>
nodeVars == <<step, count, packets, queueVars, batchVars>>

NodeInit ==
    /\ step = "start"
    /\ count \in 0..MaxIndexes
    /\ packets \in BOOLEAN
    /\ next = 1
    /\ doing = [t \in Thread |-> 0]
    /\ abort = FALSE
    /\ results \in {left \in SUBSET (1..count) : Cardinality(left) <= MaxLeft}
    /\ cutOff \in SUBSET results
    /\ gaveUp = cutOff
    /\ merged = 0
    /\ temps = <<>>
    /\ final = <<>>

-----------------------------------------------------------------------------
Start ==
    /\ step = "start"
    /\ step' = IF count = 0 THEN "nothing" ELSE "search"
    /\ UNCHANGED <<count, packets, queueVars, batchVars>>

\* run_search: the event is checked, then the next index is taken.
Take(t) ==
    /\ step = "search"
    /\ doing[t] = 0
    /\ ~ abort
    /\ next <= count
    /\ doing' = [doing EXCEPT ![t] = next]
    /\ next' = next + 1
    /\ UNCHANGED <<step, count, packets, abort, fileVars, batchVars>>

\* The operations that the result of the index needs are done.  If the file is there
\* already, nothing is done: it is used as an earlier search left it.
Finish(t) ==
    /\ step = "search"
    /\ doing[t] \in 1..count
    /\ results' = results \cup {doing[t]}
    /\ doing' = [doing EXCEPT ![t] = 0]
    /\ UNCHANGED <<step, count, packets, next, abort, cutOff, gaveUp, batchVars>>

\* One of them fails: the event is set and the thread returns.  What pcap_fetch has
\* written is there under its final name, and nothing takes it away; the file of a
\* flow_fetch whose last write failed is renamed all the same.
Fail(t) ==
    /\ step = "search"
    /\ doing[t] \in (1..count) \ results
    /\ abort' = TRUE
    /\ gaveUp' = gaveUp \cup {doing[t]}
    /\ \/ UNCHANGED <<results, cutOff>>
       \/ results' = results \cup {doing[t]} /\ cutOff' = cutOff \cup {doing[t]}
    /\ doing' = [doing EXCEPT ![t] = count + 1]
    /\ UNCHANGED <<step, count, packets, next, batchVars>>

\* The queues are empty or the event is set.
Leave(t) ==
    /\ step = "search"
    /\ doing[t] = 0
    /\ abort \/ next > count
    /\ doing' = [doing EXCEPT ![t] = count + 1]
    /\ UNCHANGED <<step, count, packets, next, abort, fileVars, batchVars>>

\* All threads have been joined: the process returns 0, whatever happened.
Joined ==
    /\ step = "search"
    /\ \A t \in Thread : doing[t] = count + 1
    /\ step' = "merge"
    /\ UNCHANGED <<count, packets, queueVars, batchVars>>

\* The process dies.
Killed ==
    /\ step = "search"
    /\ step' = "failed"
    /\ UNCHANGED <<count, packets, queueVars, batchVars>>

-----------------------------------------------------------------------------
Content(files) == UNION {files[i] : i \in 1..Len(files)}

\* Mutant of MissingResults: results that are not there are left out.
NoMissing(batch) == {}

\* The results of a batch that the merge command will not find.
MissingResults(batch) == batch \ results

\* Mutant of GoesAlong: room for one file more than there is.
GoesAlongFull(size, files) == size = 0 \/ size + files <= MaxBatch

\* The temporary files go along with a batch that leaves room for them, or with
\* an empty one.
GoesAlong(size, files) == size = 0 \/ size + files < MaxBatch

\* One turn of the loop over the batches.  The last batch goes to the final file,
\* any other to a new temporary file.
\* The merge command for flows returns 0 without doing anything when its output
\* is there already; mergecap writes it again.  Both fail when an input is missing,
\* and may fail or not when it is cut off.
MergeBatch ==
    /\ step = "merge"
    /\ merged < count \/ temps # <<>>
    /\ LET upto == IF merged + MaxBatch < count THEN merged + MaxBatch ELSE count
           batch == (merged + 1)..upto
           size == upto - merged
           isLast == upto = count
           files == IF isLast THEN Len(temps) ELSE Len(temps) + 1
           with == GoesAlong(size, files)
           content == IF with THEN batch \cup Content(temps) ELSE batch
       IN  \/ /\ MissingResults(batch) # {} \/ batch \cap cutOff # {}
              /\ step' = "failed"
              /\ UNCHANGED batchVars
           \/ /\ MissingResults(batch) = {}
              /\ step' = step
              /\ merged' = upto
              /\ temps' = IF with THEN <<>>
                          ELSE IF isLast THEN temps ELSE Append(temps, content)
              /\ final' = IF ~ isLast \/ (final # <<>> /\ ~ packets) THEN final
                          ELSE <<content>>
    /\ UNCHANGED <<count, packets, queueVars>>

\* The final file is uploaded and deleted with the temporary ones.
Uploaded ==
    /\ step = "merge"
    /\ merged = count /\ temps = <<>>
    /\ step' = "done"
    /\ UNCHANGED <<count, packets, queueVars, batchVars>>

NodeNext ==
    \/ Start \/ Joined \/ Killed \/ MergeBatch \/ Uploaded
    \/ \E t \in Thread : Take(t) \/ Finish(t) \/ Fail(t) \/ Leave(t)

NodeSpec == NodeInit /\ [][NodeNext]_nodeVars

-----------------------------------------------------------------------------
NodeTypeOK ==
    /\ step \in {"start", "nothing", "search", "merge", "failed", "done"}
    /\ next \in 1..(count + 1) /\ doing \in [Thread -> 0..(count + 1)]
    /\ cutOff \subseteq results /\ results \cup gaveUp \subseteq 1..count /\ merged \in 0..count
    /\ Content(temps) \subseteq 1..count
    /\ Len(final) <= 1 /\ Content(final) \subseteq 1..count

\* A task that comes to its upload has a result file of every index of the time span,
\* and the files that are not whole are those of the indexes on which a search failed.
\* The search process returns 0 when a thread gave up and left the rest of the queue
\* to nobody: the merge commands notice the indexes that were not searched, but not a
\* file that pcap_fetch left half written, in this search or in an earlier one
\* (run_search, main of search.c, pcap_fetch, search_node).
AllSearched == step = "done" => results = 1..count /\ cutOff = gaveUp

\* What is uploaded.  It is the results of all indexes, unless the last batch
\* leaves no room for the temporary files: then the loop writes the final file
\* twice, and of the batches only the last one is left (flows), or all but the
\* last one (packets) (search_node).
LastBatch == ((count - 1) % MaxBatch) + 1
FullBatches == (count - 1) \div MaxBatch
MergedAll ==
    step = "done" =>
        Content(final) =
            IF FullBatches = 0 \/ LastBatch + FullBatches < MaxBatch THEN 1..count
            ELSE IF packets THEN 1..(FullBatches * MaxBatch)
            ELSE (FullBatches * MaxBatch + 1)..count
=============================================================================
