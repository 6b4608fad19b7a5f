-------------------------- MODULE NodeSearchProofs --------------------------
(***************************************************************************)
(* Proofs about a search on a capture node: its task (NodeSearch), for any *)
(* threads, any number of indexes and any size of the batches, the merge   *)
(* of packets (PacketFetch), for any number of flows and packets, and the  *)
(* pruning of the query (Prune), for any tree.                             *)
(***************************************************************************)
EXTENDS NodeSearch, PacketFetch, Prune, SubIndexProofs, FiniteSetTheorems

-----------------------------------------------------------------------------
(***************************************************************************)
(* Arithmetic of the batches, and what files hold.                         *)
(***************************************************************************)
\* The quotient and the remainder of x by b are the only ones.
LEMMA Quotient ==
  ASSUME NEW b \in Nat \ {0}, NEW x \in Nat, NEW k \in Nat, k * b <= x, x < k * b + b
  PROVE  x \div b = k /\ x % b = x - k * b
<1> DEFINE q == x \div b
           r == x % b
<1>1. q \in Nat /\ r \in 0..(b - 1) /\ x = b * q + r
  OBVIOUS
<1> HIDE DEF q, r
<1>2. ~(q < k)
  <2>1. SUFFICES ASSUME q < k PROVE FALSE
    OBVIOUS
  <2>2. PICK j \in Nat : k = q + 1 + j
    <3>1. k - (q + 1) \in Nat
      BY <1>1, <2>1
    <3> QED
      BY <1>1, <3>1
  <2>3. k * b = q * b + b + j * b /\ j * b \in Nat /\ q * b \in Nat
    BY <1>1, <2>2
  <2> QED
    BY <1>1, <2>3
<1>3. ~(k < q)
  <2>1. SUFFICES ASSUME k < q PROVE FALSE
    OBVIOUS
  <2>2. PICK j \in Nat : q = k + 1 + j
    <3>1. q - (k + 1) \in Nat
      BY <1>1, <2>1
    <3> QED
      BY <1>1, <3>1
  <2>3. q * b = k * b + b + j * b /\ j * b \in Nat /\ k * b \in Nat
    BY <1>1, <2>2
  <2> QED
    BY <1>1, <2>3
<1>4. q = k
  BY <1>1, <1>2, <1>3
<1>5. r = x - k * b
  BY <1>1, <1>4
<1> QED
  BY <1>4, <1>5 DEF q, r

LEMMA ContentEmpty == Content(<<>>) = {}
BY DEF Content

LEMMA ContentOne == ASSUME NEW S PROVE Content(<<S>>) = S
BY DEF Content

LEMMA ContentAppend ==
  ASSUME NEW files \in Seq(SUBSET Nat), NEW S \in SUBSET Nat
  PROVE  Content(Append(files, S)) = Content(files) \cup S
<1> DEFINE more == Append(files, S)
<1>1. Len(more) = Len(files) + 1 /\ Len(files) \in Nat /\ more[Len(files) + 1] = S
  OBVIOUS
<1>2. \A i \in 1..Len(files) : more[i] = files[i]
  OBVIOUS
<1> HIDE DEF more
<1>3. 1..Len(more) = (1..Len(files)) \cup {Len(files) + 1}
  BY <1>1
<1>4. ASSUME NEW x PROVE x \in Content(more) <=> x \in Content(files) \cup S
  <2>1. x \in Content(more) <=> \E i \in 1..Len(more) : x \in more[i]
    BY DEF Content
  <2>2. x \in Content(files) <=> \E i \in 1..Len(files) : x \in files[i]
    BY DEF Content
  <2> QED
    BY <1>1, <1>2, <1>3, <2>1, <2>2
<1> QED
  BY <1>4 DEF more

-----------------------------------------------------------------------------
(***************************************************************************)
(* The search: which indexes have results when the task comes to upload.   *)
(***************************************************************************)
SearchedInv ==
    /\ step \in {"start", "nothing", "search", "merge", "failed", "done"}
    /\ count \in Nat /\ packets \in BOOLEAN
    /\ next \in 1..(count + 1) /\ doing \in [Thread -> 0..(count + 1)]
    /\ results \subseteq 1..count
    /\ cutOff = results \cap gaveUp /\ gaveUp \subseteq 1..count
    /\ merged \in 0..count
    /\ 1..merged \subseteq results
    /\ step \in {"search", "merge", "done"} => count # 0
    /\ step \in {"start", "nothing", "search"} => merged = 0
    /\ step = "done" => merged = count

\* No two threads work on the same index, and none on one that was given up without a
\* file.
WorkInv ==
    /\ \A t \in Thread : doing[t] \in 1..count =>
          /\ doing[t] < next /\ doing[t] \notin gaveUp \ cutOff
          /\ \A u \in Thread : doing[u] = doing[t] => u = t
    /\ \A i \in gaveUp \ cutOff : i < next

LEMMA SearchedInit == ASSUME NodeInit PROVE SearchedInv /\ WorkInv
<1>1. count \in Nat /\ packets \in BOOLEAN /\ results \subseteq 1..count
  BY NodeAssumption DEF NodeInit
<1>2. cutOff \subseteq results /\ gaveUp = cutOff
  BY DEF NodeInit
<1>3. cutOff = results \cap gaveUp /\ gaveUp \subseteq 1..count /\ gaveUp \ cutOff = {}
  BY <1>1, <1>2
<1>4. step = "start" /\ next = 1 /\ doing \in [Thread -> {0}] /\ merged = 0
  BY DEF NodeInit
<1>5. SearchedInv
  BY <1>1, <1>3, <1>4 DEF SearchedInv
<1>6. WorkInv
  BY <1>1, <1>3, <1>4 DEF WorkInv
<1> QED
  BY <1>5, <1>6

\* The batch that MergeBatch hands to the merge command, and the number of indexes
\* that were handed to one after it.
Upto == IF merged + MaxBatch < count THEN merged + MaxBatch ELSE count
Batch == (merged + 1)..Upto
IsLast == Upto = count
FilesThen == IF IsLast THEN Len(temps) ELSE Len(temps) + 1
With == GoesAlong(Upto - merged, FilesThen)
NewContent == IF With THEN Batch \cup Content(temps) ELSE Batch

\* A turn of the loop in which the merge command finds its inputs.
Merged ==
    /\ step = "merge" /\ UNCHANGED <<step, count, packets, queueVars>>
    /\ merged < count \/ temps # <<>>
    /\ Batch \subseteq results
    /\ merged' = Upto
    /\ temps' = IF With THEN <<>> ELSE IF IsLast THEN temps ELSE Append(temps, NewContent)
    /\ final' = IF ~ IsLast \/ (final # <<>> /\ ~ packets) THEN final ELSE <<NewContent>>

LEMMA MergeCases ==
  ASSUME MergeBatch
  PROVE  \/ Merged
         \/ step' = "failed" /\ UNCHANGED <<count, packets, queueVars, batchVars>>
<1>1. CASE step' # "merge"
  BY <1>1 DEF MergeBatch, batchVars
<1>2. CASE step' = "merge"
  <2>0. MissingResults(Batch) = {}
    BY <1>2 DEF MergeBatch, Batch, Upto
  <2>1. Batch \subseteq results
    BY <2>0 DEF MissingResults
  <2>2. /\ step' = step /\ merged' = Upto
        /\ temps' = IF With THEN <<>> ELSE IF IsLast THEN temps ELSE Append(temps, NewContent)
        /\ final' = IF ~ IsLast \/ (final # <<>> /\ ~ packets) THEN final ELSE <<NewContent>>
    BY <1>2 DEF MergeBatch, Batch, Upto, IsLast, FilesThen, With, NewContent
  <2>3. step = "merge" /\ UNCHANGED <<count, packets, queueVars>> /\ (merged < count \/ temps # <<>>)
    BY DEF MergeBatch
  <2> QED
    BY <2>1, <2>2, <2>3 DEF Merged
<1> QED
  BY <1>1, <1>2

LEMMA WorkKept == ASSUME SearchedInv, WorkInv, [NodeNext]_nodeVars PROVE WorkInv'
<1> USE DEF WorkInv, queueVars, fileVars, batchVars
<1>1. CASE Start \/ Joined \/ Killed \/ Uploaded \/ MergeBatch \/ UNCHANGED nodeVars
  <2>1. UNCHANGED <<count, queueVars>>
    BY <1>1 DEF Start, Joined, Killed, Uploaded, MergeBatch, nodeVars
  <2> QED
    BY <2>1
<1> USE DEF SearchedInv
<1>2. ASSUME NEW t \in Thread, Take(t) PROVE WorkInv'
  <2>1. /\ doing' = [doing EXCEPT ![t] = next] /\ next' = next + 1
        /\ UNCHANGED <<count, cutOff, gaveUp>>
    BY <1>2 DEF Take
  <2>2. ASSUME NEW u \in Thread, u # t PROVE doing'[u] = doing[u]
    BY <2>1, <2>2
  <2>3. doing'[t] = next /\ next \notin gaveUp \ cutOff
    BY <2>1
  <2>4. \A u \in Thread : doing[u] \in 1..count => doing[u] # next
    OBVIOUS
  <2> QED
    BY <2>1, <2>2, <2>3, <2>4
<1>3. ASSUME NEW t \in Thread, Finish(t) \/ Leave(t) PROVE WorkInv'
  <2>1. doing'[t] \in {0, count + 1} /\ UNCHANGED <<count, next, cutOff, gaveUp>>
    BY <1>3 DEF Finish, Leave
  <2>2. \A u \in Thread \ {t} : doing'[u] = doing[u]
    BY <1>3 DEF Finish, Leave
  <2> QED
    BY <2>1, <2>2
<1>4. ASSUME NEW t \in Thread, Fail(t) PROVE WorkInv'
  <2>1. doing'[t] = count + 1 /\ UNCHANGED <<count, next>> /\ doing[t] \in 1..count
    BY <1>4 DEF Fail
  <2>2. \A u \in Thread \ {t} : doing'[u] = doing[u]
    BY <1>4 DEF Fail
  <2>3. gaveUp' \ cutOff' \subseteq (gaveUp \ cutOff) \cup {doing[t]}
    BY <1>4 DEF Fail
  <2>4. doing[t] < next /\ \A u \in Thread \ {t} : doing[u] # doing[t]
    BY <2>1
  <2>5. \A i \in gaveUp' \ cutOff' : i < next'
    BY <2>1, <2>3, <2>4
  <2>6. ASSUME NEW u \in Thread, doing'[u] \in 1..count' PROVE u # t /\ doing[u] \in 1..count
    BY <2>1, <2>2, <2>6
  <2>7. ASSUME NEW u \in Thread, doing'[u] \in 1..count'
        PROVE  /\ doing'[u] < next' /\ doing'[u] \notin gaveUp' \ cutOff'
               /\ \A v \in Thread : doing'[v] = doing'[u] => v = u
    <3>1. u # t /\ doing'[u] = doing[u] /\ doing[u] \in 1..count
      BY <2>2, <2>6, <2>7
    <3>2. doing[u] < next /\ doing[u] \notin gaveUp \ cutOff /\ doing[u] # doing[t]
      BY <2>4, <3>1
    <3>3. doing'[t] # doing'[u]
      BY <2>1, <3>1
    <3> QED
      BY <2>1, <2>2, <2>3, <3>1, <3>2, <3>3
  <2> QED
    BY <2>5, <2>7
<1> QED
  BY <1>1, <1>2, <1>3, <1>4 DEF NodeNext

LEMMA SearchedKept == ASSUME SearchedInv, WorkInv, [NodeNext]_nodeVars PROVE SearchedInv'
<1> USE NodeAssumption DEF SearchedInv, queueVars, fileVars, batchVars
<1>1. CASE Start \/ Joined \/ Killed \/ Uploaded
  BY <1>1 DEF Start, Joined, Killed, Uploaded
<1>2. CASE MergeBatch
  <2>1. CASE Merged
    <3>1. Upto \in merged..count /\ merged' = Upto /\ Batch \subseteq results
      BY <2>1 DEF Merged, Upto
    <3>2. 1..merged' \subseteq results
      BY <3>1 DEF Batch
    <3> QED
      BY <2>1, <3>1, <3>2 DEF Merged
  <2>2. CASE step' = "failed" /\ UNCHANGED <<count, packets, queueVars, batchVars>>
    BY <2>2
  <2> QED
    BY <1>2, <2>1, <2>2, MergeCases
<1>3. ASSUME NEW t \in Thread, Take(t) PROVE SearchedInv'
  BY <1>3 DEF Take
<1>4. ASSUME NEW t \in Thread, Finish(t) PROVE SearchedInv'
  <2>1. doing' \in [Thread -> 0..(count + 1)] /\ results' \subseteq 1..count /\ results \subseteq results'
    <3>1. 0 \in 0..(count + 1) /\ doing[t] \in 1..count
      BY <1>4 DEF Finish
    <3> QED
      BY <1>4, <3>1 DEF Finish
  <2>2. UNCHANGED <<step, count, packets, next, cutOff, gaveUp, merged>>
    BY <1>4 DEF Finish
  <2>3. cutOff' = results' \cap gaveUp'
    <3>1. results' = results \cup {doing[t]} /\ doing[t] \in 1..count
      BY <1>4 DEF Finish
    <3>2. doing[t] \notin gaveUp \ cutOff
      BY <3>1 DEF WorkInv
    <3> QED
      BY <2>2, <3>1, <3>2
  <2> QED
    BY <2>1, <2>2, <2>3
<1>5. ASSUME NEW t \in Thread, Leave(t) PROVE SearchedInv'
  <2>1. doing' \in [Thread -> 0..(count + 1)]
    BY <1>5 DEF Leave
  <2>2. UNCHANGED <<step, count, packets, next, fileVars, merged>>
    BY <1>5 DEF Leave
  <2> QED
    BY <2>1, <2>2
<1>6. ASSUME NEW t \in Thread, Fail(t) PROVE SearchedInv'
  <2>1. doing' \in [Thread -> 0..(count + 1)]
    BY <1>6 DEF Fail
  <2>2. doing[t] \in (1..count) \ results /\ gaveUp' = gaveUp \cup {doing[t]}
        /\ UNCHANGED <<step, count, packets, next, merged>>
    BY <1>6 DEF Fail
  <2>3. \/ UNCHANGED <<results, cutOff>>
        \/ results' = results \cup {doing[t]} /\ cutOff' = cutOff \cup {doing[t]}
    BY <1>6 DEF Fail
  <2>4. cutOff' = results' \cap gaveUp'
    BY <2>2, <2>3
  <2> QED
    BY <2>1, <2>2, <2>3, <2>4
<1>7. CASE UNCHANGED nodeVars
  BY <1>7 DEF nodeVars
<1> QED
  BY <1>1, <1>2, <1>3, <1>4, <1>5, <1>6, <1>7 DEF NodeNext

\* A task that comes to its upload has a result file of every index of the time span:
\* every batch was looked for by a merge command, though the search process returns 0
\* when a thread gave up.  The files that are not whole are those of the indexes on
\* which a search failed after it had made its file (search.py:98-151, search.c:232-246,
\* 746-804, packets.c:281-372).
THEOREM SearchedAll == NodeSpec => []AllSearched
<1>1. SearchedInv => AllSearched
  BY DEF SearchedInv, AllSearched
<1>2. SearchedInv /\ WorkInv /\ [NodeNext]_nodeVars => (SearchedInv /\ WorkInv)'
  BY SearchedKept, WorkKept
<1> QED
  BY <1>1, <1>2, SearchedInit, PTL DEF NodeSpec

-----------------------------------------------------------------------------
(***************************************************************************)
(* The merge: what the final file holds.                                   *)
(***************************************************************************)
\* The temporary files find no room in the last batch.
NoRoom == FullBatches # 0 /\ ~(LastBatch + FullBatches < MaxBatch)

\* What MergedAll expects.
Expected ==
    IF ~ NoRoom THEN 1..count
    ELSE IF packets THEN 1..(FullBatches * MaxBatch)
    ELSE (FullBatches * MaxBatch + 1)..count

\* Full batches were merged, each to a temporary file.
Collecting ==
    /\ merged < count /\ merged = Len(temps) * MaxBatch
    /\ final = <<>> /\ Content(temps) = 1..merged

\* The last batch was merged without the temporary files.
LeftOver ==
    /\ merged = count /\ temps # <<>> /\ NoRoom
    /\ final = <<(FullBatches * MaxBatch + 1)..count>>
    /\ Content(temps) = 1..(FullBatches * MaxBatch)

\* All is merged.
AllMerged == merged = count /\ temps = <<>> /\ Content(final) = Expected

MergeInv ==
    /\ temps \in Seq(SUBSET Nat)
    /\ step \in {"start", "nothing", "search"} => temps = <<>> /\ final = <<>>
    /\ step = "merge" => Collecting \/ LeftOver \/ AllMerged
    /\ step = "done" => AllMerged

LEMMA MergeInit == ASSUME NodeInit PROVE MergeInv
BY DEF NodeInit, MergeInv

\* While more indexes are left than fit in a batch, the temporary files stay.
LEMMA CollectMore ==
  ASSUME SearchedInv, temps \in Seq(SUBSET Nat), Collecting, Merged, merged + MaxBatch < count
  PROVE  temps' \in Seq(SUBSET Nat) /\ Collecting'
<1>0. MaxBatch \in Nat \ {0} /\ count \in Nat /\ merged \in Nat /\ Len(temps) \in Nat
  BY NodeAssumption DEF SearchedInv
<1>1. Upto = merged + MaxBatch /\ ~ IsLast
  BY <1>0 DEF Upto, IsLast
<1>2. ~ With
  BY <1>0, <1>1 DEF With, GoesAlong, FilesThen
<1>3. temps' = Append(temps, Batch) /\ merged' = merged + MaxBatch /\ final' = <<>> /\ count' = count
  BY <1>1, <1>2 DEF Merged, NewContent, Collecting
<1>4. Batch \in SUBSET Nat /\ Batch = (merged + 1)..(merged + MaxBatch)
  BY <1>0, <1>1 DEF Batch
<1>5. Content(temps') = 1..merged'
  <2>1. Content(Append(temps, Batch)) = Content(temps) \cup Batch
    BY <1>4, ContentAppend
  <2>2. Content(temps) = 1..merged
    BY DEF Collecting
  <2>3. (1..merged) \cup ((merged + 1)..(merged + MaxBatch)) = 1..(merged + MaxBatch)
    BY <1>0
  <2> QED
    BY <1>3, <1>4, <2>1, <2>2, <2>3
<1>6. Len(temps') = Len(temps) + 1 /\ temps' \in Seq(SUBSET Nat)
  BY <1>3, <1>4
<1>7. merged' = Len(temps') * MaxBatch
  BY <1>0, <1>3, <1>6 DEF Collecting
<1> QED
  BY <1>3, <1>5, <1>6, <1>7 DEF Collecting

\* The last batch.
LEMMA CollectLast ==
  ASSUME SearchedInv, temps \in Seq(SUBSET Nat), Collecting, Merged, ~(merged + MaxBatch < count)
  PROVE  temps' \in Seq(SUBSET Nat) /\ (LeftOver' \/ AllMerged')
<1> DEFINE k == Len(temps)
<1>0. MaxBatch \in Nat \ {0} /\ count \in Nat \ {0} /\ merged \in Nat /\ k \in Nat /\ merged = k * MaxBatch
  BY NodeAssumption DEF SearchedInv, Collecting
<1>1. Upto = count /\ IsLast /\ merged < count /\ Batch = (merged + 1)..count
  BY DEF Upto, IsLast, Batch, Collecting
<1>2. FullBatches = k /\ LastBatch = count - merged
  <2>1. count - 1 \in Nat /\ k * MaxBatch <= count - 1 /\ count - 1 < k * MaxBatch + MaxBatch
    BY <1>0, <1>1
  <2>2. (count - 1) \div MaxBatch = k /\ (count - 1) % MaxBatch = (count - 1) - k * MaxBatch
    BY <1>0, <2>1, Quotient
  <2> QED
    BY <1>0, <2>2 DEF FullBatches, LastBatch
<1>3. With <=> LastBatch + k < MaxBatch
  BY <1>0, <1>1, <1>2 DEF With, GoesAlong, FilesThen
<1>4. Content(temps) = 1..merged /\ final = <<>>
  BY DEF Collecting
<1>5. /\ merged' = count /\ UNCHANGED <<count, packets>> /\ final' = <<NewContent>>
      /\ temps' = IF With THEN <<>> ELSE temps
  BY <1>1, <1>4 DEF Merged
<1>6. FullBatches' = FullBatches /\ LastBatch' = LastBatch /\ NoRoom' = NoRoom /\ Expected' = Expected
  BY <1>5 DEF FullBatches, LastBatch, NoRoom, Expected
<1>7. Content(final') = NewContent
  BY <1>5, ContentOne
<1>8. CASE With
  <2>1. NewContent = 1..count
    BY <1>0, <1>1, <1>4, <1>8 DEF NewContent
  <2>2. ~ NoRoom
    BY <1>2, <1>3, <1>8 DEF NoRoom
  <2>3. Expected = 1..count
    BY <2>2 DEF Expected
  <2> QED
    BY <1>5, <1>6, <1>7, <1>8, <2>1, <2>3 DEF AllMerged
<1>9. CASE ~ With /\ k = 0
  <2>1. NewContent = 1..count
    BY <1>0, <1>1, <1>9 DEF NewContent
  <2>2. Expected = 1..count
    BY <1>2, <1>9 DEF NoRoom, Expected
  <2>3. temps = <<>>
    BY <1>9
  <2> QED
    BY <1>5, <1>6, <1>7, <1>9, <2>1, <2>2, <2>3 DEF AllMerged
<1>10. CASE ~ With /\ k # 0
  <2>1. NewContent = (FullBatches * MaxBatch + 1)..count
    BY <1>0, <1>1, <1>2, <1>10 DEF NewContent
  <2>2. NoRoom
    BY <1>2, <1>3, <1>10 DEF NoRoom
  <2>3. temps # <<>>
    BY <1>10
  <2> QED
    BY <1>0, <1>2, <1>4, <1>5, <1>6, <1>10, <2>1, <2>2, <2>3 DEF LeftOver
<1> QED
  BY <1>8, <1>9, <1>10

\* The extra turn for temporary files that found no room.
LEMMA MergeLeftOver ==
  ASSUME SearchedInv, LeftOver, Merged
  PROVE  temps' \in Seq(SUBSET Nat) /\ AllMerged'
<1>0. MaxBatch \in Nat \ {0} /\ count \in Nat /\ merged = count
  BY NodeAssumption DEF SearchedInv, LeftOver
<1>1. Upto = count /\ IsLast /\ Batch = {} /\ With
  BY <1>0 DEF Upto, IsLast, Batch, With, GoesAlong
<1>2. NewContent = Content(temps)
  BY <1>1 DEF NewContent
<1>3. merged' = count /\ UNCHANGED <<count, packets>> /\ temps' = <<>>
  BY <1>1 DEF Merged
<1>4. FullBatches' = FullBatches /\ NoRoom' = NoRoom /\ Expected' = Expected
  BY <1>3 DEF FullBatches, LastBatch, NoRoom, Expected
<1>5. final # <<>> /\ Content(final) = (FullBatches * MaxBatch + 1)..count
  BY ContentOne DEF LeftOver
<1>6. final' = IF packets THEN <<Content(temps)>> ELSE final
  BY <1>1, <1>2, <1>5 DEF Merged
<1>7. Content(final') = Expected
  <2>1. CASE packets
    BY <1>6, <2>1, ContentOne DEF LeftOver, Expected
  <2>2. CASE ~ packets
    BY <1>5, <1>6, <2>2 DEF LeftOver, Expected
  <2> QED
    BY <2>1, <2>2
<1> QED
  BY <1>3, <1>4, <1>7 DEF AllMerged

LEMMA MergeKept == ASSUME SearchedInv, MergeInv, [NodeNext]_nodeVars PROVE MergeInv'
<1> USE DEF queueVars, batchVars
<1>1. ASSUME UNCHANGED <<count, packets, batchVars>>
      PROVE  Collecting' = Collecting /\ LeftOver' = LeftOver /\ AllMerged' = AllMerged
  BY <1>1 DEF Collecting, LeftOver, AllMerged, Expected, NoRoom, FullBatches, LastBatch
<1>2. CASE Start \/ Killed
  BY <1>2 DEF Start, Killed, MergeInv
<1>3. CASE Joined
  <2>1. temps = <<>> /\ final = <<>> /\ merged = 0 /\ count \in Nat \ {0} /\ step' = "merge"
        /\ UNCHANGED <<count, packets, batchVars>>
    BY <1>3 DEF Joined, MergeInv, SearchedInv
  <2>2. Collecting
    BY <2>1, ContentEmpty, NodeAssumption DEF Collecting
  <2> QED
    BY <1>1, <2>1, <2>2 DEF MergeInv
<1>4. CASE MergeBatch
  <2>1. CASE Merged
    <3>1. step = "merge" /\ step' = "merge" /\ temps \in Seq(SUBSET Nat)
      BY <2>1 DEF Merged, MergeInv
    <3>2. CASE Collecting
      BY <2>1, <3>1, <3>2, CollectMore, CollectLast DEF MergeInv
    <3>3. CASE LeftOver
      BY <2>1, <3>1, <3>3, MergeLeftOver DEF MergeInv
    <3>4. CASE AllMerged
      BY <2>1, <3>4 DEF Merged, AllMerged, SearchedInv
    <3> QED
      BY <3>1, <3>2, <3>3, <3>4 DEF MergeInv
  <2>2. CASE step' = "failed" /\ UNCHANGED <<count, packets, queueVars, batchVars>>
    BY <2>2 DEF MergeInv
  <2> QED
    BY <1>4, <2>1, <2>2, MergeCases
<1>5. CASE Uploaded
  <2>1. step = "merge" /\ step' = "done" /\ merged = count /\ temps = <<>>
        /\ UNCHANGED <<count, packets, batchVars>>
    BY <1>5 DEF Uploaded
  <2>2. AllMerged
    BY <2>1 DEF MergeInv, Collecting, LeftOver, SearchedInv
  <2> QED
    BY <1>1, <2>1, <2>2 DEF MergeInv
<1>6. ASSUME NEW t \in Thread, Take(t) \/ Finish(t) \/ Fail(t) \/ Leave(t) PROVE MergeInv'
  BY <1>1, <1>6 DEF Take, Finish, Fail, Leave, MergeInv
<1>7. CASE UNCHANGED nodeVars
  BY <1>1, <1>7 DEF nodeVars, MergeInv
<1> QED
  BY <1>2, <1>3, <1>4, <1>5, <1>6, <1>7 DEF NodeNext

\* What a node uploads, for any number of indexes and any size of batches: the results
\* of all indexes exactly if there was one batch, or the last one left room for the
\* temporary files (search.py:101-172).
THEOREM UploadIsMerged == NodeSpec => []MergedAll
<1>1. NodeInit => SearchedInv /\ WorkInv /\ MergeInv
  BY SearchedInit, MergeInit
<1>2. SearchedInv /\ WorkInv /\ MergeInv /\ [NodeNext]_nodeVars
        => (SearchedInv /\ WorkInv /\ MergeInv)'
  BY SearchedKept, WorkKept, MergeKept
<1>3. MergeInv => MergedAll
  BY DEF MergeInv, AllMerged, Expected, NoRoom, MergedAll
<1> QED
  BY <1>1, <1>2, <1>3, PTL DEF NodeSpec

-----------------------------------------------------------------------------
(***************************************************************************)
(* The merge of the packets that were found: the pairing heap.             *)
(***************************************************************************)

\* The nodes that hang from x, by its child and by its sibling.
Below(t, x) == IF x = NoNode THEN {} ELSE t[x]

\* t gives of each node of S those that hang from it, itself among them: from r hang
\* all of S, each from one place only, and no child's packet is older than that of
\* its parent.
Hangs(h, t, S, r) ==
    /\ S \subseteq Flows /\ t \in [S -> SUBSET S] /\ r \in S /\ t[r] = S
    /\ \A x \in S :
          /\ h.child[x] \in {NoNode} \cup S /\ h.sibling[x] \in {NoNode} \cup S
          /\ x \notin Below(t, h.child[x]) /\ x \notin Below(t, h.sibling[x])
          /\ Below(t, h.child[x]) \cap Below(t, h.sibling[x]) = {}
          /\ t[x] = {x} \cup Below(t, h.child[x]) \cup Below(t, h.sibling[x])
          /\ \A y \in Below(t, h.child[x]) : h.ts[x] <= h.ts[y]
    /\ \A x, y \in S : x \in t[y] => t[x] \subseteq t[y]

\* S is the nodes of a list of siblings, of which r is the first, and of all below.
IsList(h, S, r) == \E t : Hangs(h, t, S, r)

\* S is the nodes of a heap with root r.
IsHeap(h, S, r) == IsList(h, S, r) /\ h.sibling[r] = NoNode

\* Two heaps have the same links at the nodes of S.
SameLinks(h, g, S) == \A x \in S : h.child[x] = g.child[x] /\ h.sibling[x] = g.sibling[x]

\* Zero is no flow.
LEMMA NoNodeFacts == NoNode \notin Flows
BY DEF NoNode, Flows

\* What a list is depends on its own nodes only.
LEMMA ListFrame ==
    ASSUME NEW h, NEW g, NEW S, NEW r, IsList(h, S, r), SameLinks(h, g, S), \A x \in S : h.ts[x] = g.ts[x]
    PROVE  IsList(g, S, r)
<1>1. PICK t : Hangs(h, t, S, r)
  BY DEF IsList
<1>2. ASSUME NEW x \in S
      PROVE  /\ g.child[x] \in {NoNode} \cup S /\ g.sibling[x] \in {NoNode} \cup S
             /\ x \notin Below(t, g.child[x]) /\ x \notin Below(t, g.sibling[x])
             /\ Below(t, g.child[x]) \cap Below(t, g.sibling[x]) = {}
             /\ t[x] = {x} \cup Below(t, g.child[x]) \cup Below(t, g.sibling[x])
  BY <1>1 DEF Hangs, SameLinks
<1>3. ASSUME NEW x \in S, NEW y \in Below(t, g.child[x])
      PROVE  g.ts[x] <= g.ts[y]
  <2>1. g.child[x] = h.child[x] /\ y \in Below(t, h.child[x])
    BY <1>3 DEF SameLinks
  <2>2. y \in S
    BY <1>1, <2>1 DEF Hangs, Below
  <2>3. h.ts[x] <= h.ts[y]
    BY <1>1, <2>1 DEF Hangs
  <2> QED BY <2>2, <2>3
<1>4. Hangs(g, t, S, r)
  BY <1>1, <1>2, <1>3 DEF Hangs
<1> QED BY <1>4 DEF IsList

\* What hangs from a node is a list itself.
LEMMA ListBelow ==
    ASSUME NEW h, NEW t, NEW S, NEW r, Hangs(h, t, S, r), NEW z \in S
    PROVE  IsList(h, t[z], z)
<1> DEFINE T == t[z]
           u == [x \in T |-> t[x]]
<1>1. T \subseteq S /\ S \subseteq Flows /\ z \in T
  BY DEF Hangs
<1>2. \A x \in T : t[x] \subseteq T /\ t[x] = u[x] /\ x \in S
  BY <1>1 DEF Hangs
<1>3. ASSUME NEW x \in T
      PROVE  /\ h.child[x] \in {NoNode} \cup T /\ h.sibling[x] \in {NoNode} \cup T
             /\ Below(u, h.child[x]) = Below(t, h.child[x])
             /\ Below(u, h.sibling[x]) = Below(t, h.sibling[x])
  <2>1. h.child[x] \in {NoNode} \cup S /\ h.sibling[x] \in {NoNode} \cup S
        /\ t[x] = {x} \cup Below(t, h.child[x]) \cup Below(t, h.sibling[x])
    BY <1>2, <1>3 DEF Hangs
  <2>2. ASSUME NEW y \in S PROVE y \in t[y]
    BY DEF Hangs
  <2>3. \A y \in {h.child[x], h.sibling[x]} : y # NoNode => y \in t[x]
    BY <2>1, <2>2 DEF Below
  <2>4. \A y \in {h.child[x], h.sibling[x]} : y # NoNode => y \in T
    BY <2>3, <1>2, <1>3
  <2> QED BY <2>1, <2>4, <1>2 DEF Below
<1>4. u \in [T -> SUBSET T] /\ u[z] = T
  BY <1>1, <1>2
<1> HIDE DEF T, u
<1>5. Hangs(h, u, T, z)
  BY <1>1, <1>2, <1>3, <1>4 DEF Hangs
<1> QED BY <1>5 DEF IsList, T

\* A list is its first node, what is below that, and the rest of the list.
LEMMA ListParts ==
    ASSUME NEW h \in Heap, NEW S, NEW r, IsList(h, S, r)
    PROVE  \E C, R :
              /\ S = {r} \cup C \cup R /\ r \notin C /\ r \notin R /\ C \cap R = {}
              /\ IF h.child[r] = NoNode THEN C = {} ELSE IsList(h, C, h.child[r])
              /\ IF h.sibling[r] = NoNode THEN R = {} ELSE IsList(h, R, h.sibling[r])
              /\ \A y \in C : h.ts[r] <= h.ts[y]
              /\ IsHeap(Detach(h, r), {r} \cup C, r)
<1>1. PICK t : Hangs(h, t, S, r)
  BY DEF IsList
<1> DEFINE C == Below(t, h.child[r])
           R == Below(t, h.sibling[r])
           g == Detach(h, r)
           T == {r} \cup C
           u == [x \in T |-> IF x = r THEN T ELSE t[x]]
<1>2. /\ S = {r} \cup C \cup R /\ r \notin C /\ r \notin R /\ C \cap R = {} /\ r \in S
      /\ \A y \in C : h.ts[r] <= h.ts[y]
      /\ h.child[r] \in {NoNode} \cup S /\ h.sibling[r] \in {NoNode} \cup S
  BY <1>1 DEF Hangs
<1>3. IF h.child[r] = NoNode THEN C = {} ELSE IsList(h, C, h.child[r])
  BY <1>1, <1>2, ListBelow DEF Below
<1>4. IF h.sibling[r] = NoNode THEN R = {} ELSE IsList(h, R, h.sibling[r])
  BY <1>1, <1>2, ListBelow DEF Below
<1>5. /\ S \subseteq Flows /\ T \subseteq S
      /\ g.sibling[r] = NoNode /\ g.child = h.child /\ g.ts = h.ts
      /\ \A x \in S : x # r => g.sibling[x] = h.sibling[x]
  BY <1>1, <1>2 DEF Detach, Heap, Hangs
<1>6. ASSUME NEW x \in C
      PROVE  /\ t[x] \subseteq C /\ x \in t[x] /\ x \in S /\ x # r
             /\ g.child[x] \in {NoNode} \cup C /\ g.sibling[x] \in {NoNode} \cup C
             /\ Below(u, g.child[x]) = Below(t, h.child[x])
             /\ Below(u, g.sibling[x]) = Below(t, h.sibling[x])
             /\ u[x] = t[x]
  <2>1. h.child[r] # NoNode /\ C = t[h.child[r]] /\ h.child[r] \in S
    BY <1>2 DEF Below
  <2>2. x \in S /\ x # r /\ t[x] \subseteq C
    BY <1>1, <1>2, <2>1 DEF Hangs
  <2>3. \A y \in S : y \in t[y]
    BY <1>1 DEF Hangs
  <2>4. /\ h.child[x] \in {NoNode} \cup S /\ h.sibling[x] \in {NoNode} \cup S
        /\ t[x] = {x} \cup Below(t, h.child[x]) \cup Below(t, h.sibling[x])
    BY <1>1, <2>2 DEF Hangs
  <2>5. h.child[x] \in {NoNode} \cup C /\ h.sibling[x] \in {NoNode} \cup C
    BY <2>2, <2>3, <2>4 DEF Below
  <2>6. g.child[x] = h.child[x] /\ g.sibling[x] = h.sibling[x]
    BY <1>5, <2>2
  <2>7. \A y \in C : u[y] = t[y]
    BY <1>2
  <2> HIDE DEF u, C
  <2>8. Below(u, h.child[x]) = Below(t, h.child[x]) /\ Below(u, h.sibling[x]) = Below(t, h.sibling[x])
    BY <2>5, <2>7 DEF Below
  <2> QED BY <2>2, <2>3, <2>5, <2>6, <2>7, <2>8
<1>7. /\ Below(u, g.child[r]) = C /\ Below(u, g.sibling[r]) = {} /\ u[r] = T
      /\ g.child[r] \in {NoNode} \cup T
  <2>1. h.child[r] # NoNode => h.child[r] \in C
    BY <1>1, <1>2 DEF Hangs, Below
  <2>2. h.child[r] # NoNode => u[h.child[r]] = t[h.child[r]]
    BY <1>2, <2>1
  <2> QED BY <1>5, <2>1, <2>2 DEF Below
<1>8. u \in [T -> SUBSET T]
  BY <1>6
<1> HIDE DEF C, R, g, u
<1>9. \A x \in T :
         /\ g.child[x] \in {NoNode} \cup T /\ g.sibling[x] \in {NoNode} \cup T
         /\ x \notin Below(u, g.child[x]) /\ x \notin Below(u, g.sibling[x])
         /\ Below(u, g.child[x]) \cap Below(u, g.sibling[x]) = {}
         /\ u[x] = {x} \cup Below(u, g.child[x]) \cup Below(u, g.sibling[x])
         /\ \A y \in Below(u, g.child[x]) : g.ts[x] <= g.ts[y]
  <2> TAKE x \in T
  <2>1. CASE x = r
    BY <1>2, <1>5, <1>7, <2>1
  <2>2. CASE x \in C
    BY <1>1, <1>5, <1>6, <2>2 DEF Hangs
  <2> QED BY <2>1, <2>2
<1>10. \A x, y \in T : x \in u[y] => u[x] \subseteq u[y]
  <2> TAKE x, y \in T
  <2>1. CASE y = r
    BY <1>7, <1>8, <2>1
  <2>2. CASE y \in C
    BY <1>1, <1>2, <1>6, <2>2 DEF Hangs
  <2> QED BY <2>1, <2>2
<1>11. Hangs(g, u, T, r)
  BY <1>5, <1>7, <1>8, <1>9, <1>10 DEF Hangs
<1>12. IsHeap(g, T, r)
  BY <1>5, <1>11 DEF IsHeap, IsList
<1> QED BY <1>2, <1>3, <1>4, <1>12 DEF C, R, g

\* The root of a heap has the oldest packet.
LEMMA HeapMin ==
    ASSUME NEW h \in Heap, NEW S, NEW r, IsHeap(h, S, r)
    PROVE  r \in Flows /\ S \subseteq Flows /\ r \in S /\ \A y \in S : h.ts[r] <= h.ts[y]
<1>1. PICK t : Hangs(h, t, S, r)
  BY DEF IsHeap, IsList
<1>2. S = {r} \cup Below(t, h.child[r])
  BY <1>1 DEF Hangs, IsHeap, Below
<1>3. r \in Flows /\ S \subseteq Flows /\ r \in S /\ h.ts[r] \in Nat
  BY <1>1 DEF Hangs, Heap
<1>4. \A y \in Below(t, h.child[r]) : h.ts[r] <= h.ts[y]
  BY <1>1 DEF Hangs
<1> QED BY <1>2, <1>3, <1>4

\* A node without links is a heap.
LEMMA OneHeap ==
    ASSUME NEW h, NEW r \in Flows, h.child[r] = NoNode, h.sibling[r] = NoNode
    PROVE  IsHeap(h, {r}, r)
<1>1. Hangs(h, [x \in {r} |-> {r}], {r}, r)
  BY DEF Hangs, Below
<1> QED BY <1>1 DEF IsHeap, IsList

\* One heap becomes the first child of the other's root.
LEMMA LinkHeaps ==
    ASSUME NEW h \in Heap, NEW A, NEW a, NEW B, NEW b, IsHeap(h, A, a), IsHeap(h, B, b),
           A \cap B = {}, h.ts[a] <= h.ts[b], NEW g \in Heap,
           g.ts = h.ts, g.sibling = [h.sibling EXCEPT ![b] = h.child[a]],
           g.child = [h.child EXCEPT ![a] = b]
    PROVE  IsHeap(g, A \cup B, a)
<1>1. PICK t : Hangs(h, t, A, a)
  BY DEF IsHeap, IsList
<1>2. PICK u : Hangs(h, u, B, b)
  BY DEF IsHeap, IsList
<1>3. a \in A /\ b \in B /\ a # b /\ A \subseteq Flows /\ B \subseteq Flows /\ b # NoNode
        /\ h.sibling[a] = NoNode /\ h.sibling[b] = NoNode
  BY <1>1, <1>2, NoNodeFacts DEF Hangs, IsHeap
<1> DEFINE C == Below(t, h.child[a])
           E == Below(u, h.child[b])
           v == [x \in A \cup B |-> IF x = a THEN A \cup B ELSE IF x = b THEN B \cup C
                                   ELSE IF x \in A THEN t[x] ELSE u[x]]
<1>4. /\ A = {a} \cup C /\ a \notin C /\ h.child[a] \in {NoNode} \cup A
      /\ B = {b} \cup E /\ b \notin E /\ h.child[b] \in {NoNode} \cup B
  BY <1>1, <1>2, <1>3 DEF Hangs, Below
<1>5. h.child[a] # NoNode => h.child[a] \in C /\ C = t[h.child[a]]
  BY <1>1, <1>4 DEF Hangs, Below
<1>6. h.child[b] # NoNode => h.child[b] \in E /\ E = u[h.child[b]]
  BY <1>2, <1>4 DEF Hangs, Below
<1>7. /\ g.child[a] = b /\ g.sibling[b] = h.child[a] /\ g.child[b] = h.child[b]
      /\ g.sibling[a] = NoNode
      /\ \A x \in (A \cup B) \ {a, b} : g.child[x] = h.child[x] /\ g.sibling[x] = h.sibling[x]
  BY <1>3 DEF Heap
<1>8. /\ v[a] = A \cup B /\ v[b] = B \cup C
      /\ \A x \in C : v[x] = t[x]
      /\ \A x \in E : v[x] = u[x]
  BY <1>3, <1>4
<1>9. ASSUME NEW x \in C
      PROVE  /\ x \in A /\ x # a /\ t[x] \subseteq C /\ x \in t[x]
             /\ h.child[x] \in {NoNode} \cup C /\ h.sibling[x] \in {NoNode} \cup C
  <2>1. x \in A /\ x # a /\ h.child[a] # NoNode /\ C = t[h.child[a]]
    BY <1>4, <1>5 DEF Below
  <2>2. t[x] \subseteq C
    BY <1>1, <1>4, <2>1 DEF Hangs
  <2>3. \A y \in A : y \in t[y]
    BY <1>1 DEF Hangs
  <2>4. /\ h.child[x] \in {NoNode} \cup A /\ h.sibling[x] \in {NoNode} \cup A
        /\ t[x] = {x} \cup Below(t, h.child[x]) \cup Below(t, h.sibling[x])
    BY <1>1, <2>1 DEF Hangs
  <2>5. h.child[x] \in {NoNode} \cup C /\ h.sibling[x] \in {NoNode} \cup C
    BY <2>2, <2>3, <2>4 DEF Below
  <2> QED BY <2>1, <2>2, <2>3, <2>5
<1>10. ASSUME NEW x \in E
      PROVE  /\ x \in B /\ x # b /\ u[x] \subseteq E /\ x \in u[x]
             /\ h.child[x] \in {NoNode} \cup E /\ h.sibling[x] \in {NoNode} \cup E
  <2>1. x \in B /\ x # b /\ h.child[b] # NoNode /\ E = u[h.child[b]]
    BY <1>4, <1>6 DEF Below
  <2>2. u[x] \subseteq E
    BY <1>2, <1>4, <2>1 DEF Hangs
  <2>3. \A y \in B : y \in u[y]
    BY <1>2 DEF Hangs
  <2>4. /\ h.child[x] \in {NoNode} \cup B /\ h.sibling[x] \in {NoNode} \cup B
        /\ u[x] = {x} \cup Below(u, h.child[x]) \cup Below(u, h.sibling[x])
    BY <1>2, <2>1 DEF Hangs
  <2>5. h.child[x] \in {NoNode} \cup E /\ h.sibling[x] \in {NoNode} \cup E
    BY <2>2, <2>3, <2>4 DEF Below
  <2> QED BY <2>1, <2>2, <2>3, <2>5
<1>11. \A y \in A \cup B : h.ts[a] <= h.ts[y]
  <2>1. \A y \in A : h.ts[a] <= h.ts[y]
    BY HeapMin
  <2>2. \A y \in B : h.ts[b] <= h.ts[y]
    BY HeapMin
  <2>3. \A y \in A \cup B : h.ts[y] \in Nat
    BY <1>3 DEF Heap
  <2> QED BY <1>3, <2>1, <2>2, <2>3
<1>12. v \in [A \cup B -> SUBSET (A \cup B)]
  BY <1>1, <1>2, <1>4 DEF Hangs
<1> HIDE DEF v
<1>13. ASSUME NEW x \in A \cup B
       PROVE  /\ g.child[x] \in {NoNode} \cup A \cup B /\ g.sibling[x] \in {NoNode} \cup A \cup B
              /\ x \notin Below(v, g.child[x]) /\ x \notin Below(v, g.sibling[x])
              /\ Below(v, g.child[x]) \cap Below(v, g.sibling[x]) = {}
              /\ v[x] = {x} \cup Below(v, g.child[x]) \cup Below(v, g.sibling[x])
              /\ \A y \in Below(v, g.child[x]) : g.ts[x] <= g.ts[y]
  <2>1. CASE x = a
    <3>1. Below(v, g.child[x]) = B \cup C /\ Below(v, g.sibling[x]) = {}
      BY <1>3, <1>7, <1>8, <2>1 DEF Below
    <3> HIDE DEF C, E
    <3> QED BY <1>3, <1>4, <1>7, <1>8, <1>11, <2>1, <3>1
  <2>2. CASE x = b
    <3>1. Below(v, g.child[x]) = E
      BY <1>6, <1>7, <1>8, <2>2 DEF Below
    <3>2. Below(v, g.sibling[x]) = C
      BY <1>5, <1>7, <1>8, <2>2 DEF Below
    <3>3. \A y \in E : h.ts[x] <= h.ts[y]
      BY <1>2, <2>2 DEF Hangs
    <3> HIDE DEF C, E
    <3> QED BY <1>3, <1>4, <1>7, <1>8, <2>2, <3>1, <3>2, <3>3
  <2>3. CASE x \in C
    <3>1. x \in A /\ x \notin {a, b} /\ g.child[x] = h.child[x] /\ g.sibling[x] = h.sibling[x] /\ v[x] = t[x]
      BY <1>3, <1>7, <1>8, <1>9, <2>3
    <3>2. Below(v, g.child[x]) = Below(t, h.child[x]) /\ Below(v, g.sibling[x]) = Below(t, h.sibling[x])
      <4>1. \A y \in {NoNode} \cup C : Below(v, y) = Below(t, y)
        BY <1>8 DEF Below
      <4> QED BY <4>1, <3>1, <1>9, <2>3
    <3> HIDE DEF C, E
    <3> QED BY <1>1, <3>1, <3>2 DEF Hangs
  <2>4. CASE x \in E
    <3>1. x \in B /\ x \notin {a, b} /\ g.child[x] = h.child[x] /\ g.sibling[x] = h.sibling[x] /\ v[x] = u[x]
      BY <1>3, <1>7, <1>8, <1>10, <2>4
    <3>2. Below(v, g.child[x]) = Below(u, h.child[x]) /\ Below(v, g.sibling[x]) = Below(u, h.sibling[x])
      <4>1. \A y \in {NoNode} \cup E : Below(v, y) = Below(u, y)
        BY <1>8 DEF Below
      <4> QED BY <4>1, <3>1, <1>10, <2>4
    <3> HIDE DEF C, E
    <3> QED BY <1>2, <3>1, <3>2 DEF Hangs
  <2> QED BY <1>4, <2>1, <2>2, <2>3, <2>4
<1> HIDE DEF C, E
<1>14. \A x, y \in A \cup B : x \in v[y] => v[x] \subseteq v[y]
  <2> SUFFICES ASSUME NEW x \in A \cup B, NEW y \in A \cup B, x \in v[y] PROVE v[x] \subseteq v[y]
    OBVIOUS
  <2>1. CASE y = a
    BY <1>8, <1>12, <2>1
  <2>2. CASE y = b
    <3>1. CASE x = b
      BY <2>2, <3>1
    <3>2. CASE x \in C
      BY <1>8, <1>9, <2>2, <3>2
    <3>3. CASE x \in E
      BY <1>4, <1>8, <1>10, <2>2, <3>3
    <3> QED BY <1>4, <1>8, <2>2, <3>1, <3>2, <3>3
  <2>3. CASE y \in C
    BY <1>1, <1>8, <1>9, <2>3 DEF Hangs
  <2>4. CASE y \in E
    BY <1>2, <1>8, <1>10, <2>4 DEF Hangs
  <2> QED BY <1>4, <2>1, <2>2, <2>3, <2>4
<1>15. Hangs(g, v, A \cup B, a)
  BY <1>3, <1>8, <1>12, <1>13, <1>14 DEF Hangs
<1> QED BY <1>7, <1>15 DEF IsHeap, IsList

\* A node cut off from its siblings: only that link changes.
LEMMA DetachFacts ==
    ASSUME NEW h \in Heap, NEW r \in Flows
    PROVE  /\ Detach(h, r) \in Heap
           /\ Detach(h, r).sibling = [h.sibling EXCEPT ![r] = NoNode]
           /\ Detach(h, r).child = h.child /\ Detach(h, r).ts = h.ts
           /\ Detach(h, r).asserted = h.asserted
BY DEF Detach, Heap

\* The heap and the root that fh_merge returns.
LEMMA MergeTypes ==
    ASSUME NEW h \in Heap, NEW a \in Flows, NEW b \in Flows
    PROVE  fh_merge(h, a, b).heap \in Heap /\ fh_merge(h, a, b).root \in Flows
<1> DEFINE top == IF h.ts[a] < h.ts[b] THEN a ELSE b
           sub == IF top = a THEN b ELSE a
<1>1. a # NoNode /\ top \in Flows /\ sub \in Flows
  BY NoNodeFacts
<1> HIDE DEF top, sub
<1>2. [h EXCEPT !.sibling[sub] = h.child[top], !.child[top] = sub,
                !.asserted = @ /\ h.sibling[a] = NoNode /\ h.sibling[b] = NoNode] \in Heap
  BY <1>1 DEF Heap
<1> QED BY <1>1, <1>2 DEF fh_merge, top, sub

\* m is the list S of h, made into one heap, with everything else as it was.
MadeHeap(h, S, m) ==
    /\ m.heap \in Heap /\ m.root \in Flows /\ IsHeap(m.heap, S, m.root)
    /\ m.heap.ts = h.ts /\ m.heap.asserted = h.asserted
    /\ SameLinks(h, m.heap, Flows \ S)

\* Two heaps are merged into one, and nothing else changes.
LEMMA MergeFacts ==
    ASSUME NEW h \in Heap, NEW A, NEW a, NEW B, NEW b, IsHeap(h, A, a), IsHeap(h, B, b), A \cap B = {},
           NEW T, T = A \cup B
    PROVE  MadeHeap(h, T, fh_merge(h, a, b))
<1> DEFINE m == fh_merge(h, a, b)
<1> SUFFICES MadeHeap(h, A \cup B, m)
  OBVIOUS
<1>0. a \in A /\ b \in B /\ a # b /\ A \subseteq Flows /\ B \subseteq Flows
        /\ a \in Flows /\ b \in Flows /\ a # NoNode /\ b # NoNode
  BY HeapMin, NoNodeFacts
<1>1. h.sibling[a] = NoNode /\ h.sibling[b] = NoNode
  BY DEF IsHeap
<1>2. m.heap \in Heap /\ m.root \in Flows
  BY <1>0, MergeTypes
<1> HIDE DEF m
<1>3. CASE h.ts[a] < h.ts[b]
  <2>1. /\ m.root = a
        /\ m.heap = [h EXCEPT !.sibling[b] = h.child[a], !.child[a] = b,
                              !.asserted = @ /\ h.sibling[a] = NoNode /\ h.sibling[b] = NoNode]
    BY <1>0, <1>3 DEF fh_merge, m
  <2>2. /\ m.heap.ts = h.ts /\ m.heap.asserted = h.asserted
        /\ m.heap.sibling = [h.sibling EXCEPT ![b] = h.child[a]]
        /\ m.heap.child = [h.child EXCEPT ![a] = b]
    BY <2>1, <1>1 DEF Heap
  <2>3. h.ts[a] <= h.ts[b]
    BY <1>0, <1>3 DEF Heap
  <2>4. IsHeap(m.heap, A \cup B, a)
    BY <1>2, <2>2, <2>3, LinkHeaps
  <2>5. SameLinks(h, m.heap, Flows \ (A \cup B))
    BY <1>0, <2>2 DEF SameLinks, Heap
  <2> QED BY <1>2, <2>1, <2>2, <2>4, <2>5 DEF MadeHeap
<1>4. CASE ~ (h.ts[a] < h.ts[b])
  <2>1. /\ m.root = b
        /\ m.heap = [h EXCEPT !.sibling[a] = h.child[b], !.child[b] = a,
                              !.asserted = @ /\ h.sibling[a] = NoNode /\ h.sibling[b] = NoNode]
    BY <1>0, <1>4 DEF fh_merge, m
  <2>2. /\ m.heap.ts = h.ts /\ m.heap.asserted = h.asserted
        /\ m.heap.sibling = [h.sibling EXCEPT ![a] = h.child[b]]
        /\ m.heap.child = [h.child EXCEPT ![b] = a]
    BY <2>1, <1>1 DEF Heap
  <2>3. h.ts[b] <= h.ts[a]
    BY <1>0, <1>4 DEF Heap
  <2>4. IsHeap(m.heap, B \cup A, b)
    BY <1>2, <2>2, <2>3, LinkHeaps
  <2>5. SameLinks(h, m.heap, Flows \ (A \cup B))
    BY <1>0, <2>2 DEF SameLinks, Heap
  <2>6. A \cup B = B \cup A
    OBVIOUS
  <2> QED BY <1>2, <2>1, <2>2, <2>4, <2>5, <2>6 DEF MadeHeap
<1> QED BY <1>3, <1>4

\* One call of fh_merge_pairs, with F for the next one.
PairsOf(k, F, h, fh) ==
    LET sibling == h.sibling[fh]
        pair == fh_merge(Detach(Detach(h, fh), sibling), fh, sibling)
        others == F[<<pair.heap, h.sibling[sibling]>>]
    IN  IF k = 0 \/ sibling = NoNode THEN [heap |-> h, root |-> fh]
        ELSE IF h.sibling[sibling] = NoNode THEN fh_merge(Detach(h, fh), fh, sibling)
        ELSE fh_merge(others.heap, pair.root, others.root)

\* The recursive definition of MergePairs defines it.
LEMMA MergePairsRec ==
    \A k \in Nat : \A h \in Heap : \A fh \in Flows :
        MergePairs[k][<<h, fh>>] = PairsOf(k, MergePairs[k - 1], h, fh)
<1> DEFINE Row(k, F) == [x \in Heap \X Flows |-> PairsOf(k, F, x[1], x[2])]
           Def(f) == f = [k \in Nat |-> Row(k, f[k - 1])]
           S == [Heap \X Flows -> [heap : Heap, root : Flows]]
<1>0. \A k \in Nat : \A F \in S : Row(k, F) \in S
  <2> SUFFICES ASSUME NEW k \in Nat, NEW F \in S, NEW h \in Heap, NEW fh \in Flows
               PROVE  PairsOf(k, F, h, fh) \in [heap : Heap, root : Flows]
    OBVIOUS
  <2> DEFINE sibling == h.sibling[fh]
             pair == fh_merge(Detach(Detach(h, fh), sibling), fh, sibling)
             others == F[<<pair.heap, h.sibling[sibling]>>]
  <2>0. \A g \in Heap : \A a, b \in Flows : fh_merge(g, a, b) \in [heap : Heap, root : Flows]
    <3> SUFFICES ASSUME NEW g \in Heap, NEW a \in Flows, NEW b \in Flows
                 PROVE  fh_merge(g, a, b) \in [heap : Heap, root : Flows]
      OBVIOUS
    <3>1. fh_merge(g, a, b).heap \in Heap /\ fh_merge(g, a, b).root \in Flows
      BY MergeTypes
    <3>2. fh_merge(g, a, b) = [heap |-> fh_merge(g, a, b).heap, root |-> fh_merge(g, a, b).root]
      BY NoNodeFacts DEF fh_merge
    <3> QED BY <3>1, <3>2
  <2>1. sibling \in {NoNode} \cup Flows
    BY DEF Heap
  <2>2. sibling # NoNode => h.sibling[sibling] \in {NoNode} \cup Flows
    BY <2>1 DEF Heap
  <2>3. sibling # NoNode => Detach(h, fh) \in Heap /\ Detach(Detach(h, fh), sibling) \in Heap
    BY <2>1, DetachFacts
  <2>4. sibling # NoNode => pair.heap \in Heap /\ pair.root \in Flows
    BY <2>1, <2>3, MergeTypes
  <2>5. sibling # NoNode /\ h.sibling[sibling] # NoNode => others.heap \in Heap /\ others.root \in Flows
    BY <2>2, <2>4
  <2> QED BY <2>0, <2>1, <2>3, <2>4, <2>5 DEF PairsOf
<1>a. \A F : Row(0, F) = Row(0, 0)
  BY DEF PairsOf
<1>b. Row(0, 0) \in S
  BY DEF PairsOf
<1>1. \E f : Def(f)
  <2> DEFINE g == [x \in Nat \X S |-> Row(x[1], x[2])]
  <2> HIDE DEF Row
  <2>1. g \in [Nat \X S -> S] /\ \A k \in Nat : \A F \in S : g[<<k, F>>] = Row(k, F)
    BY <1>0
  <2> HIDE DEF g, S
  <2>2. PICK f \in [Nat -> S] : f[0] = Row(0, 0) /\ \A k \in Nat : f[k + 1] = g[<<k + 1, f[k]>>]
    <3>1. Recursion(S, Row(0, 0), g)
      BY <2>1, <1>b, RecursionExists
    <3> QED BY <3>1 DEF Recursion
  <2>3. ASSUME NEW k \in Nat PROVE f[k] = Row(k, f[k - 1])
    <3>1. CASE k = 0
      BY <3>1, <2>2, <1>a
    <3>2. CASE k # 0
      <4>1. k - 1 \in Nat /\ (k - 1) + 1 = k
        BY <3>2
      <4>2. f[k] = g[<<k, f[k - 1]>>] /\ f[k - 1] \in S
        BY <4>1, <2>2
      <4> QED BY <4>2, <2>1
    <3> QED BY <3>1, <3>2
  <2>4. f = [k \in Nat |-> Row(k, f[k - 1])]
    BY <2>2, <2>3
  <2> QED BY <2>4
<1>2. MergePairs = CHOOSE f : Def(f)
  BY DEF MergePairs, PairsOf
<1> HIDE DEF Def
<1>3. Def(MergePairs)
  BY <1>1, <1>2, Zenon
<1>4. \A k \in Nat : MergePairs[k] = Row(k, MergePairs[k - 1])
  <2> HIDE DEF Row
  <2>1. MergePairs = [k \in Nat |-> Row(k, MergePairs[k - 1])]
    BY <1>3 DEF Def
  <2> QED BY <2>1, Zenon
<1>5. \A k, F : \A h \in Heap : \A fh \in Flows : Row(k, F)[<<h, fh>>] = PairsOf(k, F, h, fh)
  OBVIOUS
<1> HIDE DEF Row
<1> QED BY <1>4, <1>5, Zenon

\* The same for the heap.
LEMMA HeapFrame ==
    ASSUME NEW h, NEW g, NEW S, NEW r, IsHeap(h, S, r), SameLinks(h, g, S), \A x \in S : h.ts[x] = g.ts[x]
    PROVE  IsHeap(g, S, r)
<1>1. IsList(g, S, r)
  BY ListFrame DEF IsHeap
<1>2. r \in S
  BY DEF IsHeap, IsList, Hangs
<1> QED BY <1>1, <1>2 DEF IsHeap, SameLinks

\* Flows can be counted.
LEMMA CountFlows ==
    ASSUME Len(flow) \in Nat, NEW S, S \subseteq Flows
    PROVE  /\ Cardinality(S) \in 0..Len(flow)
           /\ \A T, r : r \in S /\ T \subseteq S \ {r} => Cardinality(T) < Cardinality(S)
<1>1. IsFiniteSet(Flows) /\ Cardinality(Flows) = Len(flow)
  <2>1. 1 \in Int /\ Len(flow) \in Int
    OBVIOUS
  <2>2. /\ IsFiniteSet(1..Len(flow))
        /\ Cardinality(1..Len(flow)) = IF 1 > Len(flow) THEN 0 ELSE Len(flow) - 1 + 1
    BY <2>1, FS_Interval, Zenon
  <2> QED BY <2>2 DEF Flows
<1>2. IsFiniteSet(S) /\ Cardinality(S) <= Len(flow) /\ Cardinality(S) \in Nat
  BY <1>1, FS_Subset, FS_CardinalityType
<1>3. ASSUME NEW T, NEW r, r \in S, T \subseteq S \ {r} PROVE Cardinality(T) < Cardinality(S)
  <2>1. IsFiniteSet(S \ {r}) /\ Cardinality(S \ {r}) = Cardinality(S) - 1
    BY <1>2, <1>3, FS_RemoveElement
  <2>2. Cardinality(T) <= Cardinality(S \ {r}) /\ Cardinality(T) \in Nat
    BY <1>3, <2>1, FS_Subset, FS_CardinalityType
  <2> QED BY <1>2, <2>1, <2>2
<1> QED BY <1>2, <1>3

\* A list of siblings becomes one heap.
LEMMA PairsFacts ==
    ASSUME Len(flow) \in Nat, NEW h \in Heap, NEW S, NEW r, IsList(h, S, r)
    PROVE  MadeHeap(h, S, fh_merge_pairs(h, r))
<1> DEFINE Good(k) == \A g \in Heap : \A T \in SUBSET Flows : \A q \in Flows :
                          IsList(g, T, q) /\ Cardinality(T) <= k => MadeHeap(g, T, MergePairs[k][<<g, q>>])
           P == {k \in Nat : Good(k)}
<1>1. \A g, T, q : IsList(g, T, q) => T \subseteq Flows /\ q \in T
  BY DEF IsList, Hangs
<1>2. 0 \in P
  <2> SUFFICES ASSUME NEW g \in Heap, NEW T \in SUBSET Flows, NEW q \in Flows, IsList(g, T, q),
                      Cardinality(T) <= 0
               PROVE  FALSE
    OBVIOUS
  <2>1. q \in T /\ {} \subseteq T \ {q}
    BY <1>1
  <2>2. Cardinality({}) < Cardinality(T) /\ Cardinality(T) \in Nat /\ Cardinality({}) \in Nat
    BY <2>1, CountFlows
  <2> QED BY <2>2
<1>3. ASSUME NEW k \in Nat, k \in P PROVE k + 1 \in P
  <2> HIDE DEF Good
  <2>0. Good(k)
    BY <1>3
  <2> USE DEF Good
  <2> SUFFICES ASSUME NEW g \in Heap, NEW T \in SUBSET Flows, NEW q \in Flows, IsList(g, T, q),
                      Cardinality(T) <= k + 1
               PROVE  MadeHeap(g, T, MergePairs[k + 1][<<g, q>>])
    OBVIOUS
  <2> HIDE DEF Good, P
  <2> DEFINE s == g.sibling[q]
             g1 == Detach(g, q)
             g2 == Detach(g1, s)
             pair == fh_merge(g2, q, s)
             z == g.sibling[s]
             others == MergePairs[k][<<pair.heap, z>>]
             m == MergePairs[k + 1][<<g, q>>]
  <2>1. m = IF s = NoNode THEN [heap |-> g, root |-> q]
            ELSE IF z = NoNode THEN fh_merge(g1, q, s)
            ELSE fh_merge(others.heap, pair.root, others.root)
    <3>1. m = PairsOf(k + 1, MergePairs[(k + 1) - 1], g, q)
      BY MergePairsRec
    <3>2. (k + 1) - 1 = k /\ k + 1 # 0
      OBVIOUS
    <3> QED BY <3>1, <3>2 DEF PairsOf
  <2>2. PICK C, R :
              /\ T = {q} \cup C \cup R /\ q \notin C /\ q \notin R /\ C \cap R = {}
              /\ IF g.child[q] = NoNode THEN C = {} ELSE IsList(g, C, g.child[q])
              /\ IF g.sibling[q] = NoNode THEN R = {} ELSE IsList(g, R, g.sibling[q])
              /\ \A y \in C : g.ts[q] <= g.ts[y]
              /\ IsHeap(Detach(g, q), {q} \cup C, q)
    BY ListParts
  <2>3. CASE s = NoNode
    <3>1. IsHeap(g, T, q)
      BY <2>3 DEF IsHeap
    <3>2. m.heap = g /\ m.root = q
      BY <2>1, <2>3
    <3> QED BY <3>1, <3>2 DEF MadeHeap, SameLinks
  <2>4. CASE s # NoNode
    <3>1. g1 \in Heap /\ g1.ts = g.ts /\ g1.asserted = g.asserted
          /\ g1.child = g.child /\ g1.sibling = [g.sibling EXCEPT ![q] = NoNode]
      BY DetachFacts
    <3>2. R \subseteq Flows /\ s \in R /\ s \in Flows /\ s # q /\ IsList(g, R, s)
      BY <1>1, <2>2, <2>4
    <3>3. SameLinks(g, g1, Flows \ {q})
      BY <3>1 DEF SameLinks, Heap
    <3>4. IsList(g1, R, s)
      <4>1. SameLinks(g, g1, R) /\ \A x \in R : g.ts[x] = g1.ts[x]
        BY <2>2, <3>1, <3>2, <3>3 DEF SameLinks
      <4> QED BY <4>1, <3>2, ListFrame
    <3>5. g1.sibling[s] = z /\ z \in {NoNode} \cup Flows
      BY <3>1, <3>2 DEF Heap
    <3>6. CASE z = NoNode
      <4>1. IsHeap(g1, R, s)
        BY <3>4, <3>5, <3>6 DEF IsHeap
      <4>2. m = fh_merge(g1, q, s) /\ ({q} \cup C) \cap R = {} /\ ({q} \cup C) \cup R = T
        BY <2>1, <2>2, <2>4, <3>6
      <4> HIDE DEF m, g1, s, z
      <4>3. MadeHeap(g1, T, m)
        BY <2>2, <3>1, <4>1, <4>2, MergeFacts DEF g1
      <4>4. SameLinks(g, m.heap, Flows \ T)
        BY <2>2, <3>3, <4>3 DEF MadeHeap, SameLinks
      <4> QED BY <3>1, <4>3, <4>4 DEF MadeHeap, m
    <3>7. CASE z # NoNode
      <4>0. PICK C2, R2 :
                /\ R = {s} \cup C2 \cup R2 /\ s \notin C2 /\ s \notin R2 /\ C2 \cap R2 = {}
                /\ IF g1.child[s] = NoNode THEN C2 = {} ELSE IsList(g1, C2, g1.child[s])
                /\ IF g1.sibling[s] = NoNode THEN R2 = {} ELSE IsList(g1, R2, g1.sibling[s])
                /\ \A y \in C2 : g1.ts[s] <= g1.ts[y]
                /\ IsHeap(Detach(g1, s), {s} \cup C2, s)
        <5> HIDE DEF g1, s
        <5> QED BY <3>1, <3>4, ListParts
      <4>1. /\ R = {s} \cup C2 \cup R2 /\ s \notin C2 /\ s \notin R2 /\ C2 \cap R2 = {}
            /\ IsList(g1, R2, z)
            /\ IsHeap(g2, {s} \cup C2, s)
        BY <4>0, <3>5, <3>7
      <4>2. g2 \in Heap /\ g2.ts = g.ts /\ g2.asserted = g.asserted
            /\ g2.child = g1.child /\ g2.sibling = [g1.sibling EXCEPT ![s] = NoNode]
        BY <3>1, <3>2, DetachFacts
      <4>3. SameLinks(g1, g2, Flows \ {s})
        BY <3>1, <4>2 DEF SameLinks, Heap
      <4>4. R2 \subseteq Flows /\ z \in R2 /\ z \in Flows /\ {q} \cup C \subseteq Flows /\ s \notin {q} \cup C
        BY <1>1, <2>2, <3>2, <4>1
      <4> DEFINE A == {q} \cup C
                 B == {s} \cup C2
                 AB == A \cup B
      <4>a. A \cap B = {} /\ AB \cap R2 = {} /\ AB \cup R2 = T /\ AB \subseteq Flows /\ q \in AB /\ s \notin R2
        BY <2>2, <3>2, <4>1, <4>4
      <4>5. IsHeap(g2, A, q)
        <5>1. SameLinks(g1, g2, A) /\ \A x \in A : g1.ts[x] = g2.ts[x]
          BY <3>1, <4>2, <4>3, <4>4 DEF SameLinks
        <5> QED BY <5>1, <2>2, HeapFrame
      <4>6. IsList(g2, R2, z)
        <5>1. SameLinks(g1, g2, R2) /\ \A x \in R2 : g1.ts[x] = g2.ts[x]
          BY <3>1, <4>1, <4>2, <4>3, <4>4 DEF SameLinks
        <5> QED BY <5>1, <4>1, ListFrame
      <4> HIDE DEF AB
      <4>7. MadeHeap(g2, AB, pair)
        <5> HIDE DEF g2, pair, s
        <5>1. pair = fh_merge(g2, q, s)
          BY DEF pair
        <5>2. IsHeap(g2, A, q) /\ IsHeap(g2, B, s) /\ A \cap B = {}
          BY <4>1, <4>5, <4>a
        <5> HIDE DEF A, B
        <5> QED BY <4>2, <5>1, <5>2, MergeFacts DEF AB
      <4> HIDE DEF A, B, g1, g2, pair, s, z, m, others
      <4>8. IsList(pair.heap, R2, z)
        <5>1. SameLinks(g2, pair.heap, R2) /\ \A x \in R2 : g2.ts[x] = pair.heap.ts[x]
          BY <4>7, <4>4, <4>a DEF SameLinks, MadeHeap
        <5> QED BY <5>1, <4>6, ListFrame
      <4>9. Cardinality(R2) <= k
        <5>1. q \in T /\ R2 \subseteq T \ {q} /\ R2 \subseteq Flows
          BY <4>a, <4>4 DEF A, AB
        <5>2. Cardinality(R2) < Cardinality(T) /\ Cardinality(T) \in Nat /\ Cardinality(R2) \in Nat
          BY <5>1, CountFlows
        <5> QED BY <5>2
      <4>10. MadeHeap(pair.heap, R2, others)
        BY <2>0, <4>4, <4>7, <4>8, <4>9 DEF Good, others, MadeHeap
      <4>11. IsHeap(others.heap, AB, pair.root)
        <5>1. SameLinks(pair.heap, others.heap, AB) /\ \A x \in AB : pair.heap.ts[x] = others.heap.ts[x]
          BY <4>10, <4>a DEF SameLinks, MadeHeap
        <5>2. IsHeap(pair.heap, AB, pair.root)
          BY <4>7 DEF MadeHeap
        <5> QED BY <5>1, <5>2, HeapFrame
      <4>12. MadeHeap(others.heap, T, m)
        <5>1. m = fh_merge(others.heap, pair.root, others.root)
          BY <2>1, <2>4, <3>7
        <5>2. others.heap \in Heap /\ IsHeap(others.heap, R2, others.root)
          BY <4>10 DEF MadeHeap
        <5> QED BY <4>11, <4>a, <5>1, <5>2, MergeFacts
      <4>13. SameLinks(g, m.heap, Flows \ T)
        <5>1. \A x \in Flows \ T : x # q /\ x # s /\ x \notin AB /\ x \notin R2
          BY <4>a, <2>2, <3>2
        <5> QED BY <5>1, <3>3, <4>3, <4>7, <4>10, <4>12 DEF MadeHeap, SameLinks
      <4>14. m.heap.ts = g.ts /\ m.heap.asserted = g.asserted
        BY <4>2, <4>7, <4>10, <4>12 DEF MadeHeap
      <4> QED BY <4>12, <4>13, <4>14 DEF MadeHeap, m
    <3> QED BY <3>6, <3>7
  <2> QED BY <2>3, <2>4
<1> HIDE DEF P
<1>4. \A k \in Nat : k \in P
  BY <1>2, <1>3, NatInd
<1>5. Good(Len(flow))
  BY <1>4 DEF P
<1>6. S \in SUBSET Flows /\ r \in Flows /\ Cardinality(S) <= Len(flow)
  BY <1>1, CountFlows
<1> QED BY <1>5, <1>6 DEF fh_merge_pairs

\* The root leaves its heap: the others make up the new one, and no link leads from
\* the root any more.
LEMMA DelMinFacts ==
    ASSUME Len(flow) \in Nat, NEW h \in Heap, NEW S, NEW r, IsHeap(h, S, r), NEW m, m = fh_del_min(h, r)
    PROVE  /\ m.heap \in Heap /\ m.heap.ts = h.ts /\ m.heap.asserted = h.asserted
           /\ m.heap.child[r] = NoNode /\ m.heap.sibling[r] = NoNode
           /\ SameLinks(h, m.heap, Flows \ S)
           /\ m.root \in {NoNode} \cup Flows
           /\ IF m.root = NoNode THEN S = {r} ELSE IsHeap(m.heap, S \ {r}, m.root)
<1>a. IsList(h, S, r)
  BY DEF IsHeap
<1>0. h.sibling[r] = NoNode /\ r \in Flows /\ S \subseteq Flows /\ r \in S
  BY HeapMin DEF IsHeap
<1>1. PICK C, R :
        /\ S = {r} \cup C \cup R /\ r \notin C /\ r \notin R /\ C \cap R = {}
        /\ IF h.child[r] = NoNode THEN C = {} ELSE IsList(h, C, h.child[r])
        /\ IF h.sibling[r] = NoNode THEN R = {} ELSE IsList(h, R, h.sibling[r])
        /\ \A y \in C : h.ts[r] <= h.ts[y]
        /\ IsHeap(Detach(h, r), {r} \cup C, r)
  BY <1>a, ListParts
<1>2. S = {r} \cup C /\ C = S \ {r}
  BY <1>0, <1>1
<1>3. CASE h.child[r] = NoNode
  <2>1. m.heap = h /\ m.root = NoNode
    BY <1>3 DEF fh_del_min
  <2>2. S = {r}
    BY <1>1, <1>2, <1>3
  <2> QED BY <1>0, <1>3, <2>1, <2>2 DEF SameLinks
<1>4. CASE h.child[r] # NoNode
  <2> DEFINE g == [h EXCEPT !.child[r] = NoNode]
             c == h.child[r]
  <2>1. /\ g \in Heap /\ g.ts = h.ts /\ g.asserted = h.asserted /\ g.sibling = h.sibling
        /\ g.child = [h.child EXCEPT ![r] = NoNode]
    BY <1>0 DEF Heap
  <2>2. m = fh_merge_pairs(g, c)
    BY <1>4 DEF fh_del_min
  <2> HIDE DEF g
  <2>3. SameLinks(h, g, Flows \ {r}) /\ g.child[r] = NoNode /\ g.sibling[r] = NoNode
    BY <1>0, <2>1 DEF SameLinks, Heap
  <2>4. IsList(g, C, c)
    <3>1. SameLinks(h, g, C) /\ \A x \in C : h.ts[x] = g.ts[x]
      BY <1>0, <1>1, <2>1, <2>3 DEF SameLinks
    <3> QED BY <1>1, <1>4, <3>1, ListFrame
  <2>5. MadeHeap(g, C, m)
    <3> HIDE DEF c
    <3> QED BY <2>1, <2>2, <2>4, PairsFacts
  <2>6. m.heap.child[r] = NoNode /\ m.heap.sibling[r] = NoNode
    BY <1>0, <1>1, <2>3, <2>5 DEF MadeHeap, SameLinks
  <2>7. SameLinks(h, m.heap, Flows \ S)
    BY <1>0, <1>2, <2>3, <2>5 DEF MadeHeap, SameLinks
  <2>8. m.root \in Flows /\ m.root # NoNode /\ IsHeap(m.heap, S \ {r}, m.root)
    BY <1>2, <2>5, NoNodeFacts DEF MadeHeap
  <2> QED BY <2>1, <2>5, <2>6, <2>7, <2>8 DEF MadeHeap
<1> QED BY <1>3, <1>4

-----------------------------------------------------------------------------
(***************************************************************************)
(* The merge of the packets that were found: the invariant of pcap_fetch.  *)
(***************************************************************************)

\* The flows that were read and have packets left.
Waiting == {f \in 1..taken : written[f] < Len(flow[f])}

FlowsOK ==
    /\ Len(flow) \in Nat
    /\ \A f \in Flows :
          /\ Len(flow[f]) \in Nat \ {0} /\ Ascending(flow[f])
          /\ \A i \in 1..Len(flow[f]) : flow[f][i] \in Nat

FetchPlace ==
    /\ fetching \in {"flows", "packets", "done", "failed"}
    /\ taken \in 0..Len(flow) /\ root \in {NoNode} \cup Flows /\ lastTime \in Nat
    /\ written \in [Flows -> Nat] /\ \A f \in Flows : written[f] <= Len(flow[f])
    /\ fetching = "flows" => lastTime = 0
    /\ fetching \in {"packets", "done"} => taken = Len(flow)
    /\ fetching = "done" => root = NoNode

\* The heap holds the flows that wait, each with the time of its next packet.
HeapHolds ==
    /\ heap \in Heap
    /\ IF root = NoNode THEN Waiting = {} ELSE IsHeap(heap, Waiting, root)
    /\ \A f \in Flows :
          /\ written[f] < Len(flow[f]) => heap.ts[f] = flow[f][written[f] + 1]
          /\ f > taken => heap.child[f] = NoNode /\ heap.sibling[f] = NoNode /\ written[f] = 0

FetchInv == FlowsOK /\ FetchPlace /\ HeapHolds /\ PacketsMerged

\* A function on 1..k is a sequence of length k.
LEMMA SeqOf ==
    ASSUME NEW T, NEW k \in Nat, NEW s \in [1..k -> T]
    PROVE  Len(s) = k
<1>1. s \in Seq(T)
  OBVIOUS
<1> QED BY <1>1

\* No flow was read, and none is in the heap.
LEMMA FetchInvInit == FetchInit => FetchInv
<1> SUFFICES ASSUME FetchInit PROVE FetchInv
  OBVIOUS
<1>1. PICK k \in 0..MaxFlows : flow \in [1..k -> Flow]
  BY DEF FetchInit
<1>2. k \in Nat /\ Len(flow) = k /\ Flows = 1..k
  <2>1. k \in Nat
    BY FetchAssumption
  <2>2. Len(flow) = k
    BY <1>1, <2>1, SeqOf
  <2> QED BY <2>1, <2>2 DEF Flows
<1>3. ASSUME NEW f \in Flows
      PROVE  /\ Len(flow[f]) \in Nat \ {0} /\ Ascending(flow[f])
             /\ \A i \in 1..Len(flow[f]) : flow[f][i] \in Nat
  <2>1. flow[f] \in Flow
    BY <1>1, <1>2
  <2>2. PICK j \in 1..MaxPackets : flow[f] \in [1..j -> 1..MaxTime]
    BY <2>1 DEF Flow
  <2>3. j \in Nat \ {0}
    BY FetchAssumption
  <2>5. Len(flow[f]) = j
    BY <2>2, <2>3, SeqOf
  <2>6. \A i \in 1..j : flow[f][i] \in Nat
    BY <2>2, FetchAssumption
  <2> QED BY <2>1, <2>3, <2>5, <2>6 DEF Flow
<1>4. FlowsOK
  BY <1>2, <1>3 DEF FlowsOK
<1>5. FetchPlace
  BY <1>2, <1>3 DEF FetchInit, FetchPlace
<1>6. heap \in Heap
  BY <1>3 DEF FetchInit, Heap
<1>7. HeapHolds
  <2>1. Waiting = {}
    BY DEF FetchInit, Waiting
  <2> QED BY <1>6, <2>1 DEF HeapHolds, FetchInit
<1>8. PacketsMerged
  BY <1>3 DEF FetchInit, PacketsMerged
<1> QED BY <1>4, <1>5, <1>7, <1>8 DEF FetchInv

\* A flow that is read joins the heap.
LEMMA TakeFlowStep == FetchInv /\ TakeFlow => FetchInv'
<1> SUFFICES ASSUME FetchInv, TakeFlow PROVE FetchInv'
  OBVIOUS
<1>0. FlowsOK /\ FetchPlace /\ HeapHolds /\ PacketsMerged
  BY DEF FetchInv
<1> DEFINE f == taken + 1
           m == fh_merge(heap, root, f)
<1>1. /\ UNCHANGED <<flow, preload, fetching, written, lastTime>> /\ fetching = "flows"
      /\ taken' = f /\ heap' = m.heap /\ root' = m.root
  BY DEF TakeFlow
<1>2. taken \in Nat /\ f \in Flows /\ f > taken /\ f \in 1..Len(flow) /\ 1..f = 1..taken \cup {f}
  BY <1>0 DEF FlowsOK, FetchPlace, Flows, TakeFlow
<1>3. heap \in Heap /\ heap.child[f] = NoNode /\ heap.sibling[f] = NoNode /\ written[f] = 0
  BY <1>0, <1>2 DEF HeapHolds
<1>4. Waiting' = Waiting \cup {f} /\ f \notin Waiting /\ Waiting \subseteq Flows
  <2>1. written[f] < Len(flow[f])
    BY <1>0, <1>2, <1>3 DEF FlowsOK
  <2>2. Waiting' = {x \in 1..f : written[x] < Len(flow[x])}
    BY <1>1 DEF Waiting
  <2>3. Waiting \subseteq 1..taken
    BY DEF Waiting
  <2> HIDE DEF f
  <2> QED BY <1>2, <2>1, <2>2, <2>3 DEF Waiting, Flows
<1>5. IsHeap(heap, {f}, f)
  BY <1>2, <1>3, OneHeap
<1> HIDE DEF f, m
<1>6. /\ m.heap \in Heap /\ m.root \in Flows /\ IsHeap(m.heap, Waiting', m.root)
      /\ m.heap.ts = heap.ts /\ m.heap.asserted = heap.asserted
      /\ SameLinks(heap, m.heap, Flows \ Waiting')
  <2>1. CASE root = NoNode
    <3>1. m.heap = heap /\ m.root = f
      BY <2>1 DEF fh_merge, m
    <3>2. Waiting' = {f}
      BY <1>0, <1>4, <2>1 DEF HeapHolds
    <3> QED BY <1>2, <1>3, <1>5, <3>1, <3>2 DEF SameLinks
  <2>2. CASE root # NoNode
    <3>1. IsHeap(heap, Waiting, root)
      BY <1>0, <2>2 DEF HeapHolds
    <3>2. MadeHeap(heap, Waiting', m)
      <4>1. Waiting \cap {f} = {}
        BY <1>4
      <4> QED BY <1>3, <1>4, <1>5, <3>1, <4>1, MergeFacts DEF m
    <3> QED BY <3>2 DEF MadeHeap
  <2> QED BY <2>1, <2>2
<1>7. Flows' = Flows /\ Heap' = Heap /\ Flows \subseteq Nat
  BY <1>1 DEF Flows, Heap
<1>8. FlowsOK'
  BY <1>0, <1>1, <1>7 DEF FlowsOK, Ascending
<1>9. FetchPlace'
  BY <1>0, <1>1, <1>2, <1>6, <1>7 DEF FetchPlace
<1>10. HeapHolds'
  <2>1. IsHeap(heap, Waiting, root)' <=> IsHeap(heap', Waiting', root')
    BY <1>7 DEF IsHeap, IsList, Hangs
  <2>2. root' # NoNode /\ IsHeap(heap, Waiting, root)'
    BY <1>1, <1>6, <2>1, NoNodeFacts
  <2>3. \A x \in Flows : x > f => x > taken /\ x \in Flows \ Waiting'
    <3>1. Waiting' \subseteq 1..f
      BY <1>1 DEF Waiting
    <3> QED BY <1>2, <1>7, <3>1
  <2>4. \A x \in Flows : x > f => heap'.child[x] = NoNode /\ heap'.sibling[x] = NoNode /\ written'[x] = 0
    BY <1>0, <1>1, <1>6, <2>3 DEF HeapHolds, SameLinks
  <2>5. \A x \in Flows : written'[x] < Len(flow'[x]) => heap'.ts[x] = flow'[x][written'[x] + 1]
    BY <1>0, <1>1, <1>6 DEF HeapHolds
  <2> QED BY <1>1, <1>6, <1>7, <2>2, <2>4, <2>5 DEF HeapHolds
<1>11. PacketsMerged'
  BY <1>0, <1>1, <1>6, <1>7 DEF PacketsMerged
<1> QED BY <1>8, <1>9, <1>10, <1>11 DEF FetchInv

\* The other steps that leave the heap as it is.
LEMMA FetchOtherSteps == FetchInv /\ (FlowsTaken \/ FetchFails \/ Fetched \/ UNCHANGED fetchVars) => FetchInv'
<1> SUFFICES ASSUME FetchInv, FlowsTaken \/ FetchFails \/ Fetched \/ UNCHANGED fetchVars PROVE FetchInv'
  OBVIOUS
<1>0. FlowsOK /\ FetchPlace /\ HeapHolds /\ PacketsMerged
  BY DEF FetchInv
<1>1. UNCHANGED <<flow, taken, heap, root, written, lastTime>>
  BY DEF FlowsTaken, FetchFails, Fetched, fetchVars
<1>2. Flows' = Flows /\ Heap' = Heap /\ Waiting' = Waiting
  BY <1>1 DEF Flows, Heap, Waiting
<1>3. FlowsOK' /\ HeapHolds'
  <2>1. FlowsOK'
    BY <1>0, <1>1, <1>2 DEF FlowsOK, Ascending
  <2>2. IsHeap(heap, Waiting, root)' <=> IsHeap(heap, Waiting, root)
    BY <1>1, <1>2 DEF IsHeap, IsList, Hangs
  <2> QED BY <1>0, <1>1, <1>2, <2>1, <2>2 DEF HeapHolds
<1>4. \/ fetching' = "packets" /\ taken = Len(flow) /\ fetching = "flows"
      \/ fetching' = "failed"
      \/ fetching' = "done" /\ fetching = "packets" /\ root = NoNode
      \/ fetching' = fetching
  BY DEF FlowsTaken, FetchFails, Fetched, fetchVars
<1>5. FetchPlace'
  BY <1>0, <1>1, <1>2, <1>4 DEF FetchPlace
<1>6. PacketsMerged'
  <2>1. ASSUME fetching' = "done" PROVE \A f \in Flows : written[f] = Len(flow[f])
    <3>1. taken = Len(flow) /\ root = NoNode
      BY <1>0, <1>4, <2>1 DEF FetchPlace
    <3>2. Waiting = {} /\ 1..taken = Flows
      BY <1>0, <3>1 DEF HeapHolds, Flows
    <3>3. \A f \in Flows : ~ (written[f] < Len(flow[f]))
      BY <3>2 DEF Waiting
    <3>4. \A f \in Flows : written[f] \in Nat /\ Len(flow[f]) \in Nat /\ written[f] <= Len(flow[f])
      BY <1>0 DEF FetchPlace, FlowsOK
    <3> QED BY <3>3, <3>4
  <2> QED BY <1>0, <1>1, <1>2, <2>1 DEF PacketsMerged
<1> QED BY <1>3, <1>5, <1>6 DEF FetchInv

\* The root's packet is the oldest one, and the flow goes back to the heap as long as
\* it has more.
LEMMA WritePacketStep == FetchInv /\ WritePacket => FetchInv'
<1> SUFFICES ASSUME FetchInv, WritePacket PROVE FetchInv'
  OBVIOUS
<1>0. FlowsOK /\ FetchPlace /\ HeapHolds /\ PacketsMerged
  BY DEF FetchInv
<1> DEFINE left == fh_del_min(heap, root)
           w == written[root] + 1
           back == [left.heap EXCEPT !.ts[root] = flow[root][w + 1]]
           m == fh_merge(back, left.root, root)
<1>1. /\ UNCHANGED <<flow, preload, fetching, taken>> /\ fetching = "packets" /\ root # NoNode
      /\ written' = [written EXCEPT ![root] = w]
      /\ lastTime' = flow[root][w]
      /\ IF w = Len(flow[root]) THEN heap' = left.heap /\ root' = left.root
         ELSE heap' = m.heap /\ root' = m.root
  BY DEF WritePacket
<1>2. taken = Len(flow) /\ 1..taken = Flows /\ root \in Flows /\ Flows \subseteq Nat /\ Len(flow) \in Nat
  BY <1>0, <1>1 DEF FetchPlace, Flows, FlowsOK
<1>3. heap \in Heap /\ IsHeap(heap, Waiting, root)
  BY <1>0, <1>1 DEF HeapHolds
<1>4. root \in Waiting /\ Waiting \subseteq Flows /\ \A y \in Waiting : heap.ts[root] <= heap.ts[y]
  BY <1>3, HeapMin
<1>5. w \in 1..Len(flow[root]) /\ w = written[root] + 1 /\ written[root] \in Nat /\ Len(flow[root]) \in Nat
  BY <1>0, <1>2, <1>4 DEF Waiting, FetchPlace, FlowsOK
<1>6. heap.ts[root] = flow[root][w] /\ flow[root][w] \in Nat
  BY <1>0, <1>2, <1>4, <1>5 DEF HeapHolds, Waiting, FlowsOK
<1>7. w < Len(flow[root]) => w + 1 \in 1..Len(flow[root]) /\ flow[root][w + 1] \in Nat
                               /\ flow[root][w] <= flow[root][w + 1]
  <2>1. Ascending(flow[root]) /\ \A i \in 1..Len(flow[root]) : flow[root][i] \in Nat
    BY <1>0, <1>2 DEF FlowsOK
  <2> QED BY <1>5, <2>1 DEF Ascending
<1>8. Waiting = {f \in Flows : written[f] < Len(flow[f])}
        /\ Waiting' = {f \in Flows : written'[f] < Len(flow[f])}
  BY <1>1, <1>2 DEF Waiting
<1>9. /\ written' \in [Flows -> Nat] /\ \A f \in Flows : f # root => written'[f] = written[f]
      /\ written'[root] = w
  BY <1>0, <1>1, <1>2, <1>5 DEF FetchPlace
<1>10. Waiting' = IF w = Len(flow[root]) THEN Waiting \ {root} ELSE Waiting
  <2>1. \A f \in Flows : f # root => (f \in Waiting' <=> f \in Waiting)
    BY <1>8, <1>9
  <2>2. root \in Waiting' <=> w # Len(flow[root])
    BY <1>2, <1>5, <1>8, <1>9
  <2>3. Waiting' \subseteq Flows
    BY <1>8
  <2>4. CASE w = Len(flow[root])
    <3>1. \A f \in Flows : f \in Waiting' <=> f \in Waiting \ {root}
      BY <1>4, <2>1, <2>2, <2>4
    <3>2. Waiting' = Waiting \ {root}
      BY <1>4, <2>3, <3>1, Zenon
    <3> QED BY <2>4, <3>2
  <2>5. CASE w # Len(flow[root])
    <3>1. \A f \in Flows : f \in Waiting' <=> f \in Waiting
      BY <1>4, <2>1, <2>2, <2>5
    <3>2. Waiting' = Waiting
      BY <1>4, <2>3, <3>1, Zenon
    <3> QED BY <2>5, <3>2
  <2> QED BY <2>4, <2>5
<1>11. /\ left.heap \in Heap /\ left.heap.ts = heap.ts /\ left.heap.asserted = heap.asserted
       /\ left.heap.child[root] = NoNode /\ left.heap.sibling[root] = NoNode
       /\ SameLinks(heap, left.heap, Flows \ Waiting)
       /\ left.root \in {NoNode} \cup Flows
       /\ IF left.root = NoNode THEN Waiting = {root} ELSE IsHeap(left.heap, Waiting \ {root}, left.root)
  BY <1>2, <1>3, DelMinFacts
<1> HIDE DEF left, w
<1>12. /\ heap' \in Heap /\ heap'.asserted = heap.asserted /\ root' \in {NoNode} \cup Flows
       /\ \A f \in Flows : f # root => heap'.ts[f] = heap.ts[f]
       /\ w < Len(flow[root]) => heap'.ts[root] = flow[root][w + 1]
       /\ IF root' = NoNode THEN Waiting' = {} ELSE IsHeap(heap', Waiting', root')
  <2>1. CASE w = Len(flow[root])
    <3>1. heap' = left.heap /\ root' = left.root /\ Waiting' = Waiting \ {root} /\ ~ (w < Len(flow[root]))
      BY <1>1, <1>5, <1>10, <2>1
    <3> QED BY <1>11, <3>1
  <2>2. CASE w # Len(flow[root])
    <3>1. heap' = m.heap /\ root' = m.root /\ Waiting' = Waiting /\ w < Len(flow[root])
      BY <1>1, <1>5, <1>10, <2>2
    <3>2. /\ back \in Heap /\ back.child = left.heap.child /\ back.sibling = left.heap.sibling
          /\ back.asserted = heap.asserted /\ back.ts = [heap.ts EXCEPT ![root] = flow[root][w + 1]]
      BY <1>2, <1>7, <1>11, <3>1 DEF Heap
    <3> HIDE DEF back
    <3>3. back.ts[root] = flow[root][w + 1] /\ \A f \in Flows : f # root => back.ts[f] = heap.ts[f]
      BY <1>2, <1>3, <3>2 DEF Heap
    <3>4. IsHeap(back, {root}, root)
      BY <1>2, <1>11, <3>2, OneHeap
    <3>5. CASE left.root = NoNode
      <4>1. m.heap = back /\ m.root = root /\ Waiting' = {root}
        BY <1>11, <3>1, <3>5 DEF fh_merge
      <4> QED BY <1>2, <3>1, <3>2, <3>3, <3>4, <4>1, NoNodeFacts
    <3>6. CASE left.root # NoNode
      <4>1. IsHeap(back, Waiting \ {root}, left.root)
        <5>1. IsHeap(left.heap, Waiting \ {root}, left.root)
          BY <1>11, <3>6
        <5>2. SameLinks(left.heap, back, Waiting \ {root})
          BY <3>2 DEF SameLinks
        <5>3. \A x \in Waiting \ {root} : left.heap.ts[x] = back.ts[x]
          BY <1>4, <1>11, <3>3
        <5> QED BY <5>1, <5>2, <5>3, HeapFrame
      <4>2. (Waiting \ {root}) \cap {root} = {} /\ Waiting = (Waiting \ {root}) \cup {root}
        BY <1>4
      <4>3. MadeHeap(back, Waiting, m)
        BY <3>2, <3>4, <4>1, <4>2, MergeFacts
      <4> HIDE DEF m
      <4>4. /\ m.heap \in Heap /\ m.root \in Flows /\ IsHeap(m.heap, Waiting, m.root)
            /\ m.heap.ts = back.ts /\ m.heap.asserted = back.asserted
        BY <4>3 DEF MadeHeap
      <4> QED BY <3>1, <3>2, <3>3, <4>4, NoNodeFacts
    <3> QED BY <3>5, <3>6
  <2> QED BY <2>1, <2>2
<1>13. Flows' = Flows /\ Heap' = Heap
  BY <1>1 DEF Flows, Heap
<1>14. FlowsOK'
  BY <1>0, <1>1, <1>13 DEF FlowsOK, Ascending
<1>15. FetchPlace'
  BY <1>0, <1>1, <1>5, <1>6, <1>9, <1>12, <1>13 DEF FetchPlace
<1>16. HeapHolds'
  <2>1. IsHeap(heap, Waiting, root)' <=> IsHeap(heap', Waiting', root')
    BY <1>13 DEF IsHeap, IsList, Hangs
  <2>2. \A f \in Flows : written'[f] < Len(flow[f]) => heap'.ts[f] = flow[f][written'[f] + 1]
    BY <1>0, <1>5, <1>9, <1>12 DEF HeapHolds
  <2>3. \A f \in Flows : ~ (f > taken)
    BY <1>2
  <2> QED BY <1>1, <1>12, <1>13, <2>1, <2>2, <2>3 DEF HeapHolds
<1>17. PacketsMerged'
  <2>1. ASSUME NEW f \in Flows, written'[f] < Len(flow[f]) PROVE flow[f][written'[f] + 1] >= lastTime'
    <3>1. CASE f = root
      BY <1>1, <1>6, <1>7, <1>9, <2>1, <3>1
    <3>2. CASE f # root
      <4>1. f \in Waiting /\ written'[f] = written[f]
        BY <1>8, <1>9, <2>1, <3>2
      <4>2. heap.ts[f] = flow[f][written[f] + 1] /\ heap.ts[root] <= heap.ts[f]
        BY <1>0, <1>4, <1>8, <4>1 DEF HeapHolds
      <4>3. heap.ts[f] \in Nat /\ heap.ts[root] \in Nat
        BY <1>2, <1>3 DEF Heap
      <4> QED BY <1>1, <1>6, <4>1, <4>2, <4>3
    <3> QED BY <3>1, <3>2
  <2> QED BY <1>0, <1>1, <1>12, <1>13, <2>1 DEF PacketsMerged
<1> QED BY <1>14, <1>15, <1>16, <1>17 DEF FetchInv

\* The heap holds the flows that wait, throughout pcap_fetch.
THEOREM FetchInvariant == FetchSpec => []FetchInv
<1>1. FetchInv /\ [FetchNext]_fetchVars => FetchInv'
  BY TakeFlowStep, WritePacketStep, FetchOtherSteps DEF FetchNext
<1> QED BY <1>1, FetchInvInit, PTL DEF FetchSpec

\* For any number of flows and packets, packets are written in the order of their
\* times, none is lost while the heap is rearranged, and the assertion of fh_merge
\* holds (pcap_fetch, fh_merge, fh_merge_pairs, fh_del_min).
THEOREM PacketsInOrder == FetchSpec => []PacketsMerged
<1>1. FetchInv => PacketsMerged
  BY DEF FetchInv
<1> QED BY <1>1, FetchInvariant, PTL

-----------------------------------------------------------------------------
(***************************************************************************)
(* Pruning: the recursive functions, for every list of atoms.              *)
(***************************************************************************)
\* The parts of an atom.
LEMMA AtomShape ==
    \A a \in Atoms : /\ a.type = "ATOM" /\ a.field \in Field
                     /\ a.vals \in Asked[a.field] /\ a.inverted \in BOOLEAN
<1> TAKE a \in Atoms
<1>1. PICK field \in Field :
        a \in [type : {"ATOM"}, field : {field}, vals : Asked[field], inverted : BOOLEAN]
  BY DEF Atoms
<1> QED BY <1>1

\* What pruning knows of a clause on its way: the atoms it still has, and whether no
\* flow can match.
Remains == [kept : SUBSET Nat, empty : BOOLEAN]

\* A pair of atoms makes it less.
LEMMA PairTypes ==
    ASSUME NEW left \in Remains, NEW list, NEW i, NEW j
    PROVE  /\ PrunePair(left, list, i, j) \in Remains
           /\ PrunePair(left, list, i, j).kept \subseteq left.kept
<1>1. ASSUME NEW k PROVE /\ [left EXCEPT !.kept = @ \ {k}] \in Remains
                         /\ [left EXCEPT !.kept = @ \ {k}].kept \subseteq left.kept
  BY DEF Remains
<1>2. [left EXCEPT !.empty = TRUE] \in Remains /\ [left EXCEPT !.empty = TRUE].kept = left.kept
  BY DEF Remains
<1> QED BY <1>1, <1>2, Zenon DEF PrunePair

\* One turn of AfterPairs, by what the turn before has given.
PrunedBy(k, F, list) ==
    LET n1 == Len(list)
        i == ((k - 1) \div n1) + 1
        j == ((k - 1) % n1) + 1
    IN  IF k = 0 THEN [kept |-> 1..n1, empty |-> FALSE]
        ELSE IF i < j THEN PrunePair(F[list], list, i, j)
        ELSE F[list]

\* AfterPairs is what its definition says.
LEMMA AfterPairsRec ==
    \A k \in Nat : \A list \in Seq(Atoms) : AfterPairs[k][list] = PrunedBy(k, AfterPairs[k - 1], list)
<1> DEFINE Row(k, F) == [list \in Seq(Atoms) |-> PrunedBy(k, F, list)]
           Def(f) == f = [k \in Nat |-> Row(k, f[k - 1])]
           S == [Seq(Atoms) -> Remains]
<1>0. \A k \in Nat : \A F \in S : Row(k, F) \in S
  <2> SUFFICES ASSUME NEW k \in Nat, NEW F \in S, NEW list \in Seq(Atoms)
               PROVE  PrunedBy(k, F, list) \in Remains
    OBVIOUS
  <2>1. F[list] \in Remains
    OBVIOUS
  <2>2. [kept |-> 1..Len(list), empty |-> FALSE] \in Remains
    BY DEF Remains
  <2> QED BY <2>1, <2>2, PairTypes, Zenon DEF PrunedBy
<1>a. \A F : Row(0, F) = Row(0, 0)
  BY DEF PrunedBy
<1>b. Row(0, 0) \in S
  BY DEF PrunedBy, Remains
<1>1. \E f : Def(f)
  <2> DEFINE g == [x \in Nat \X S |-> Row(x[1], x[2])]
  <2> HIDE DEF Row
  <2>1. g \in [Nat \X S -> S] /\ \A k \in Nat : \A F \in S : g[<<k, F>>] = Row(k, F)
    BY <1>0
  <2> HIDE DEF g, S
  <2>2. PICK f \in [Nat -> S] : f[0] = Row(0, 0) /\ \A k \in Nat : f[k + 1] = g[<<k + 1, f[k]>>]
    <3>1. Recursion(S, Row(0, 0), g)
      BY <2>1, <1>b, RecursionExists
    <3> QED BY <3>1 DEF Recursion
  <2>3. ASSUME NEW k \in Nat PROVE f[k] = Row(k, f[k - 1])
    <3>1. CASE k = 0
      BY <3>1, <2>2, <1>a
    <3>2. CASE k # 0
      <4>1. k - 1 \in Nat /\ (k - 1) + 1 = k
        BY <3>2
      <4>2. f[k] = g[<<k, f[k - 1]>>] /\ f[k - 1] \in S
        BY <4>1, <2>2
      <4> QED BY <4>2, <2>1
    <3> QED BY <3>1, <3>2
  <2>4. f = [k \in Nat |-> Row(k, f[k - 1])]
    BY <2>2, <2>3
  <2> QED BY <2>4
<1>2. AfterPairs = CHOOSE f : Def(f)
  BY DEF AfterPairs, PrunedBy
<1>3. Def(AfterPairs)
  <2> HIDE DEF Def
  <2> QED BY <1>1, <1>2
<1>4. ASSUME NEW k \in Nat PROVE AfterPairs[k] = Row(k, AfterPairs[k - 1])
  <2> HIDE DEF Row
  <2> QED BY <1>3
<1> QED BY <1>4

\* The arguments of KeptOf.
KeptArgs == [list : Seq(Atoms), kept : SUBSET Nat]

\* One turn of KeptOf.
KeptTurn(k, F, x) ==
    IF k = 0 THEN <<>>
    ELSE IF k \in x.kept THEN Append(F[x], x.list[k])
    ELSE F[x]

\* KeptOf is what its definition says.
LEMMA KeptRec ==
    \A k \in Nat : \A x \in KeptArgs : KeptOf[k][x] = KeptTurn(k, KeptOf[k - 1], x)
<1> DEFINE Row(k, F) == [x \in KeptArgs |-> KeptTurn(k, F, x)]
           Def(f) == f = [k \in Nat |-> Row(k, f[k - 1])]
           T == {y[1].list[y[2]] : y \in KeptArgs \X Nat}
           S == [KeptArgs -> Seq(T)]
<1>0. \A k \in Nat : \A F \in S : Row(k, F) \in S
  <2> SUFFICES ASSUME NEW k \in Nat, NEW F \in S, NEW x \in KeptArgs
               PROVE  KeptTurn(k, F, x) \in Seq(T)
    OBVIOUS
  <2>1. x.list[k] \in T
    <3>1. <<x, k>> \in KeptArgs \X Nat /\ <<x, k>>[1] = x /\ <<x, k>>[2] = k
      OBVIOUS
    <3> QED BY <3>1, Zenon
  <2>2. F[x] \in Seq(T)
    OBVIOUS
  <2>3. Append(F[x], x.list[k]) \in Seq(T) /\ <<>> \in Seq(T)
    <3> HIDE DEF T
    <3> QED BY <2>1, <2>2
  <2> QED BY <2>2, <2>3, Zenon DEF KeptTurn
<1>a. \A F : Row(0, F) = Row(0, 0)
  BY DEF KeptTurn
<1>b. Row(0, 0) \in S
  BY DEF KeptTurn
<1>1. \E f : Def(f)
  <2> DEFINE g == [x \in Nat \X S |-> Row(x[1], x[2])]
  <2> HIDE DEF Row
  <2>1. g \in [Nat \X S -> S] /\ \A k \in Nat : \A F \in S : g[<<k, F>>] = Row(k, F)
    BY <1>0
  <2> HIDE DEF g, S
  <2>2. PICK f \in [Nat -> S] : f[0] = Row(0, 0) /\ \A k \in Nat : f[k + 1] = g[<<k + 1, f[k]>>]
    <3>1. Recursion(S, Row(0, 0), g)
      BY <2>1, <1>b, RecursionExists
    <3> QED BY <3>1 DEF Recursion
  <2>3. ASSUME NEW k \in Nat PROVE f[k] = Row(k, f[k - 1])
    <3>1. CASE k = 0
      BY <3>1, <2>2, <1>a
    <3>2. CASE k # 0
      <4>1. k - 1 \in Nat /\ (k - 1) + 1 = k
        BY <3>2
      <4>2. f[k] = g[<<k, f[k - 1]>>] /\ f[k - 1] \in S
        BY <4>1, <2>2
      <4> QED BY <4>2, <2>1
    <3> QED BY <3>1, <3>2
  <2>4. f = [k \in Nat |-> Row(k, f[k - 1])]
    BY <2>2, <2>3
  <2> QED BY <2>4
<1>2. KeptOf = CHOOSE f : Def(f)
  BY DEF KeptOf, KeptTurn, KeptArgs
<1>3. Def(KeptOf)
  <2> HIDE DEF Def
  <2> QED BY <1>1, <1>2
<1>4. ASSUME NEW k \in Nat PROVE KeptOf[k] = Row(k, KeptOf[k - 1])
  <2> HIDE DEF Row
  <2> QED BY <1>3
<1> QED BY <1>4
-----------------------------------------------------------------------------
\* A flow has what all these atoms of the list ask for.
AllMatch(list, set, f) == \A k \in set : AtomMatches(list[k], f)

\* What is left asks for the same flows as the whole list.
SameFlows(list, left, f) ==
    AllMatch(list, 1..Len(list), f) <=> ~ left.empty /\ AllMatch(list, left.kept, f)

\* The two atoms that pruning compares, by their cases.
LEMMA MatchCases ==
    ASSUME NEW a \in Atoms, NEW f
    PROVE  /\ a.inverted => (AtomMatches(a, f) <=> f[a.field] \notin a.vals)
           /\ ~ a.inverted => (AtomMatches(a, f) <=> f[a.field] \in a.vals)
BY Zenon DEF AtomMatches

\* Atoms that another one implies can go.
LEMMA DropKeeps ==
    ASSUME NEW list, NEW f, NEW left \in Remains, NEW i \in left.kept, NEW j \in left.kept, i # j,
           AtomMatches(list[j], f) => AtomMatches(list[i], f), ~ left.empty
    PROVE  LET new == [left EXCEPT !.kept = @ \ {i}] IN
           /\ ~ new.empty
           /\ AllMatch(list, new.kept, f) <=> AllMatch(list, left.kept, f)
<1> DEFINE new == [left EXCEPT !.kept = @ \ {i}]
<1>1. ~ new.empty /\ new.kept = left.kept \ {i}
  BY DEF Remains
<1>2. j \in left.kept \ {i}
  OBVIOUS
<1>3. (\A k \in left.kept \ {i} : AtomMatches(list[k], f)) => \A k \in left.kept : AtomMatches(list[k], f)
  BY <1>2, Zenon
<1> QED BY <1>1, <1>3 DEF AllMatch

\* Pruning a pair of atoms changes nothing for any flow.
LEMMA PairKeeps ==
    ASSUME NEW list \in Seq(Atoms), NEW f, NEW left \in Remains, left.kept \subseteq 1..Len(list),
           NEW i, NEW j, i # j, SameFlows(list, left, f)
    PROVE  SameFlows(list, PrunePair(left, list, i, j), f)
<1> DEFINE a == list[i]
           b == list[j]
           drop(k) == [left EXCEPT !.kept = @ \ {k}]
           nothing == [left EXCEPT !.empty = TRUE]
           new == PrunePair(left, list, i, j)
<1>1. CASE ~ ({i, j} \subseteq left.kept) \/ left.empty \/ a.field # b.field
  BY <1>1 DEF PrunePair
<1>2. CASE {i, j} \subseteq left.kept /\ ~ left.empty /\ a.field = b.field
  <2>1. a \in Atoms /\ b \in Atoms
    BY <1>2
  <2>2. i \in left.kept /\ j \in left.kept
    BY <1>2
  <2> DEFINE ma == AtomMatches(a, f)
             mb == AtomMatches(b, f)
  <2>3. /\ a.inverted => (ma <=> f[a.field] \notin a.vals)
        /\ ~ a.inverted => (ma <=> f[a.field] \in a.vals)
        /\ b.inverted => (mb <=> f[a.field] \notin b.vals)
        /\ ~ b.inverted => (mb <=> f[a.field] \in b.vals)
    BY <2>1, <1>2, MatchCases
  <2>4. ASSUME mb => ma PROVE SameFlows(list, drop(i), f)
    BY <2>4, <2>2, <1>2, DropKeeps DEF SameFlows
  <2>5. ASSUME ma => mb PROVE SameFlows(list, drop(j), f)
    BY <2>5, <2>2, <1>2, DropKeeps DEF SameFlows
  <2>6. ASSUME ~ (ma /\ mb) PROVE SameFlows(list, nothing, f)
    <3>1. ~ AllMatch(list, left.kept, f)
      BY <2>6, <2>2 DEF AllMatch
    <3>2. nothing.empty = TRUE
      BY DEF Remains
    <3> QED BY <3>1, <3>2 DEF SameFlows
  <2>7. SameFlows(list, left, f)
    OBVIOUS
  <2>8. a.vals \cap b.vals = {} \/ a.vals \subseteq b.vals \/ b.vals \subseteq a.vals
    BY <2>1, <1>2, AtomShape, PruneAssumption
  <2>9. (a.inverted = TRUE \/ a.inverted = FALSE) /\ (b.inverted = TRUE \/ b.inverted = FALSE)
    BY <2>1, AtomShape
  <2> HIDE DEF ma, mb, drop, nothing
  <2>10. CASE a.inverted = TRUE /\ b.inverted = TRUE
    <3>1. new = IF b.vals \subseteq a.vals THEN drop(j)
                ELSE IF a.vals \subseteq b.vals THEN drop(i) ELSE left
      BY <2>10, <1>2, Zenon DEF PrunePair, drop
    <3>2. b.vals \subseteq a.vals => (ma => mb)
      BY <2>3, <2>10
    <3>3. a.vals \subseteq b.vals => (mb => ma)
      BY <2>3, <2>10
    <3> QED BY <3>1, <3>2, <3>3, <2>4, <2>5, <2>7
  <2>11. CASE a.inverted = FALSE /\ b.inverted = FALSE
    <3>1. new = IF b.vals \subseteq a.vals THEN drop(i)
                ELSE IF a.vals \subseteq b.vals THEN drop(j) ELSE nothing
      BY <2>11, <1>2, Zenon DEF PrunePair, drop, nothing
    <3>2. b.vals \subseteq a.vals => (mb => ma)
      BY <2>3, <2>11
    <3>3. a.vals \subseteq b.vals => (ma => mb)
      BY <2>3, <2>11
    <3>4. a.vals \cap b.vals = {} => ~ (ma /\ mb)
      BY <2>3, <2>11
    <3> QED BY <3>1, <3>2, <3>3, <3>4, <2>4, <2>5, <2>6, <2>8
  <2>12. CASE a.inverted = TRUE /\ b.inverted = FALSE
    <3>1. new = IF b.vals \subseteq a.vals THEN nothing ELSE left
      BY <2>12, <1>2, Zenon DEF PrunePair, nothing
    <3>2. b.vals \subseteq a.vals => ~ (ma /\ mb)
      BY <2>3, <2>12
    <3> QED BY <3>1, <3>2, <2>6, <2>7
  <2>13. CASE a.inverted = FALSE /\ b.inverted = TRUE
    <3>1. new = IF a.vals \subseteq b.vals THEN nothing ELSE left
      BY <2>13, <1>2, Zenon DEF PrunePair, nothing
    <3>2. a.vals \subseteq b.vals => ~ (ma /\ mb)
      BY <2>3, <2>13
    <3> QED BY <3>1, <3>2, <2>6, <2>7
  <2> QED BY <2>9, <2>10, <2>11, <2>12, <2>13
<1> QED BY <1>1, <1>2

\* All pairs together.
LEMMA PruneAndKeeps ==
    ASSUME NEW list \in Seq(Atoms), NEW f
    PROVE  /\ PruneAnd(list) \in Remains
           /\ PruneAnd(list).kept \subseteq 1..Len(list)
           /\ SameFlows(list, PruneAnd(list), f)
<1> DEFINE Good(left) == /\ left \in Remains /\ left.kept \subseteq 1..Len(list)
                         /\ SameFlows(list, left, f)
           P == {k \in Nat : Good(AfterPairs[k][list])}
<1>1. 0 \in P
  <2>1. AfterPairs[0][list] = [kept |-> 1..Len(list), empty |-> FALSE]
    BY AfterPairsRec DEF PrunedBy
  <2> DEFINE all == [kept |-> 1..Len(list), empty |-> FALSE]
  <2>2. all \in Remains /\ all.kept = 1..Len(list) /\ all.empty = FALSE
    BY DEF Remains
  <2> HIDE DEF all
  <2> QED BY <2>1, <2>2 DEF SameFlows, all
<1>2. ASSUME NEW k \in Nat, k \in P PROVE k + 1 \in P
  <2> DEFINE left == AfterPairs[k][list]
             i == (((k + 1) - 1) \div Len(list)) + 1
             j == (((k + 1) - 1) % Len(list)) + 1
  <2>1. Good(left)
    BY <1>2
  <2>2. AfterPairs[k + 1][list] = PrunedBy(k + 1, AfterPairs[(k + 1) - 1], list)
    BY AfterPairsRec
  <2>3. (k + 1) - 1 = k /\ k + 1 # 0
    OBVIOUS
  <2>4. AfterPairs[k + 1][list] = IF i < j THEN PrunePair(left, list, i, j) ELSE left
    BY <2>2, <2>3, Zenon DEF PrunedBy
  <2> HIDE DEF left, i, j
  <2>5. CASE i < j
    <3>1. CASE i # j
      <4>1. Good(PrunePair(left, list, i, j))
        BY <2>1, <3>1, PairTypes, PairKeeps
      <4> QED BY <4>1, <2>4, <2>5
    <3>2. CASE i = j
      <4>1. Len(list) = 0
        BY <3>2, <2>5 DEF i, j
      <4>2. left.kept = {}
        BY <4>1, <2>1
      <4>3. PrunePair(left, list, i, j) = left
        BY <4>2 DEF PrunePair
      <4> QED BY <4>3, <2>1, <2>4
    <3> QED BY <3>1, <3>2
  <2>6. CASE ~ (i < j)
    BY <2>6, <2>4, <2>1
  <2> QED BY <2>5, <2>6
<1>3. \A k \in Nat : k \in P
  <2> HIDE DEF P
  <2> QED BY <1>1, <1>2, NatInd
<1>4. Len(list) * Len(list) \in Nat
  OBVIOUS
<1> QED BY <1>3, <1>4 DEF PruneAnd

\* The atoms that are kept, and no others, are in the new list.
LEMMA KeptOfHas ==
    ASSUME NEW x \in KeptArgs, x.kept \subseteq 1..Len(x.list)
    PROVE  \A k \in 0..Len(x.list) :
             /\ KeptOf[k][x] \in Seq(Atoms)
             /\ \A i \in 1..Len(KeptOf[k][x]) : \E j \in x.kept : KeptOf[k][x][i] = x.list[j]
             /\ \A j \in x.kept : j <= k => \E i \in 1..Len(KeptOf[k][x]) : KeptOf[k][x][i] = x.list[j]
<1> DEFINE Good(k) ==
             /\ KeptOf[k][x] \in Seq(Atoms)
             /\ \A i \in 1..Len(KeptOf[k][x]) : \E j \in x.kept : KeptOf[k][x][i] = x.list[j]
             /\ \A j \in x.kept : j <= k => \E i \in 1..Len(KeptOf[k][x]) : KeptOf[k][x][i] = x.list[j]
           P == {k \in Nat : k <= Len(x.list) => Good(k)}
<1>0. x.list \in Seq(Atoms) /\ x.kept \subseteq Nat
  BY DEF KeptArgs
<1>1. 0 \in P
  <2>1. KeptOf[0][x] = <<>>
    BY KeptRec DEF KeptTurn
  <2>2. \A j \in x.kept : ~ (j <= 0)
    BY <1>0
  <2>3. Good(0)
    BY <2>1, <2>2
  <2> HIDE DEF Good
  <2> QED BY <2>3
<1>2. ASSUME NEW k \in Nat, k \in P PROVE k + 1 \in P
  <2> SUFFICES ASSUME k + 1 <= Len(x.list) PROVE Good(k + 1)
    OBVIOUS
  <2> DEFINE old == KeptOf[k][x]
             new == KeptOf[k + 1][x]
  <2>1. Good(k)
    BY <1>0, <1>2
  <2>2. (k + 1) - 1 = k /\ k + 1 # 0
    OBVIOUS
  <2>3. new = IF k + 1 \in x.kept THEN Append(old, x.list[k + 1]) ELSE old
    <3>1. new = KeptTurn(k + 1, KeptOf[(k + 1) - 1], x)
      BY KeptRec
    <3> QED BY <3>1, <2>2, Zenon DEF KeptTurn
  <2>4. x.list[k + 1] \in Atoms
    BY <1>0
  <2> HIDE DEF old, new
  <2>5. /\ old \in Seq(Atoms)
        /\ \A i \in 1..Len(old) : \E j \in x.kept : old[i] = x.list[j]
        /\ \A j \in x.kept : j <= k => \E i \in 1..Len(old) : old[i] = x.list[j]
    BY <2>1 DEF old
  <2>6. /\ new \in Seq(Atoms)
        /\ \A i \in 1..Len(new) : \E j \in x.kept : new[i] = x.list[j]
        /\ \A j \in x.kept : j <= k + 1 => \E i \in 1..Len(new) : new[i] = x.list[j]
    <3>1. CASE k + 1 \in x.kept
      <4>1. /\ new \in Seq(Atoms) /\ Len(new) = Len(old) + 1 /\ Len(old) \in Nat
            /\ \A i \in 1..Len(old) : new[i] = old[i]
            /\ new[Len(old) + 1] = x.list[k + 1]
        BY <3>1, <2>3, <2>4, <2>5
      <4>2. ASSUME NEW i \in 1..Len(new) PROVE \E j \in x.kept : new[i] = x.list[j]
        <5>1. CASE i = Len(old) + 1
          BY <5>1, <4>1, <3>1
        <5>2. CASE i # Len(old) + 1
          BY <5>2, <4>1, <2>5
        <5> QED BY <5>1, <5>2
      <4>3. ASSUME NEW j \in x.kept, j <= k + 1 PROVE \E i \in 1..Len(new) : new[i] = x.list[j]
        <5>1. CASE j = k + 1
          BY <5>1, <4>1
        <5>2. CASE j # k + 1
          <6>1. j <= k
            BY <5>2, <4>3, <1>0
          <6> QED BY <6>1, <4>1, <2>5
        <5> QED BY <5>1, <5>2
      <4> QED BY <4>1, <4>2, <4>3
    <3>2. CASE k + 1 \notin x.kept
      <4>1. new = old /\ \A j \in x.kept : j <= k + 1 => j <= k
        BY <3>2, <2>3, <1>0
      <4> QED BY <4>1, <2>5
    <3> QED BY <3>1, <3>2
  <2> QED BY <2>6 DEF new
<1>3. \A k \in Nat : k \in P
  <2> HIDE DEF P
  <2> QED BY <1>1, <1>2, NatInd
<1>4. ASSUME NEW k \in 0..Len(x.list) PROVE Good(k)
  <2> HIDE DEF Good
  <2> QED BY <1>0, <1>3
<1> QED BY <1>4

-----------------------------------------------------------------------------
\* The shapes of what is pruned, and that the clauses before the current one are done.
PruneInv ==
    /\ stage \in {"prune", "accepted", "refused", "empty", "crashed"}
    /\ tree \in Trees /\ clause \in 1..(Len(tree.subs) + 1)
    /\ \A i \in 1..(clause - 1) : \E k \in DOMAIN tree.subs[i].subs : ~ tree.subs[i].subs[k].inverted
    /\ stage = "accepted" => clause > Len(tree.subs) /\ tree.subs # <<>>

\* Without leaves out one item.
LEMMA WithoutItem ==
    ASSUME NEW S, NEW s \in Seq(S), NEW i \in 1..Len(s)
    PROVE  /\ Without(s, i) \in Seq(S) /\ Len(Without(s, i)) = Len(s) - 1
           /\ \A k \in 1..(i - 1) : Without(s, i)[k] = s[k]
           /\ \A k \in i..(Len(s) - 1) : Without(s, i)[k] = s[k + 1]
<1> DEFINE w == [k \in 1..(Len(s) - 1) |-> s[IF k < i THEN k ELSE k + 1]]
<1>1. Len(s) \in Nat /\ Len(s) - 1 \in Nat /\ i \in Nat /\ \A k \in 1..Len(s) : s[k] \in S
  OBVIOUS
<1>2. \A k \in 1..(Len(s) - 1) : (IF k < i THEN k ELSE k + 1) \in 1..Len(s)
  BY <1>1
<1>3. w \in [1..(Len(s) - 1) -> S]
  BY <1>1, <1>2
<1>4. w \in Seq(S) /\ Len(w) = Len(s) - 1
  BY <1>1, <1>3
<1>5. \A k \in 1..(i - 1) : w[k] = s[k]
  BY <1>1
<1>6. \A k \in i..(Len(s) - 1) : w[k] = s[k + 1]
  BY <1>1
<1> QED BY <1>4, <1>5, <1>6 DEF Without

\* What PruneClause makes of a clause.
LEMMA ClauseKeeps ==
    ASSUME NEW list \in Seq(Atoms), NEW f
    PROVE  LET left == PruneAnd(list)
               subs == KeptOf[Len(list)][[list |-> list, kept |-> left.kept]]
           IN  /\ subs \in Seq(Atoms)
               /\ (\A k \in DOMAIN list : AtomMatches(list[k], f))
                    <=> ~ left.empty /\ \A k \in DOMAIN subs : AtomMatches(subs[k], f)
<1> DEFINE left == PruneAnd(list)
           x == [list |-> list, kept |-> left.kept]
           subs == KeptOf[Len(list)][x]
<1>1. /\ left \in Remains /\ left.kept \subseteq 1..Len(list)
      /\ SameFlows(list, left, f)
  BY PruneAndKeeps
<1> HIDE DEF left
<1>2. x \in KeptArgs /\ x.list = list /\ x.kept = left.kept
  BY <1>1 DEF KeptArgs, Remains
<1> HIDE DEF x
<1>3. Len(list) \in 0..Len(list)
  OBVIOUS
<1>4. /\ subs \in Seq(Atoms)
      /\ \A i \in 1..Len(subs) : \E j \in left.kept : subs[i] = list[j]
      /\ \A j \in left.kept : j <= Len(list) => \E i \in 1..Len(subs) : subs[i] = list[j]
  <2>1. x.kept \subseteq 1..Len(x.list)
    BY <1>1, <1>2
  <2>2. \A k \in 0..Len(x.list) :
             /\ KeptOf[k][x] \in Seq(Atoms)
             /\ \A i \in 1..Len(KeptOf[k][x]) : \E j \in x.kept : KeptOf[k][x][i] = x.list[j]
             /\ \A j \in x.kept : j <= k => \E i \in 1..Len(KeptOf[k][x]) : KeptOf[k][x][i] = x.list[j]
    BY <2>1, <1>2, KeptOfHas
  <2> QED BY <2>2, <1>2, <1>3
<1> HIDE DEF subs
<1>5. \A j \in left.kept : \E i \in 1..Len(subs) : subs[i] = list[j]
  BY <1>4, <1>1
<1>6. (\A j \in left.kept : AtomMatches(list[j], f)) <=> \A k \in 1..Len(subs) : AtomMatches(subs[k], f)
  BY <1>4, <1>5, Zenon
<1>7. DOMAIN list = 1..Len(list) /\ DOMAIN subs = 1..Len(subs)
  BY <1>4
<1>8. (\A k \in DOMAIN list : AtomMatches(list[k], f))
          <=> ~ left.empty /\ \A k \in DOMAIN subs : AtomMatches(subs[k], f)
  BY <1>1, <1>6, <1>7 DEF SameFlows, AllMatch
<1> QED BY <1>4, <1>8 DEF left, x, subs

\* One clause pruned: of the four outcomes, what each leaves.
LEMMA ClausePruned ==
    ASSUME PruneInv, PruneClause
    PROVE  \/ tree' = tree /\ clause' = clause /\ stage' \in {"crashed", "refused"}
           \/ /\ tree' = [tree EXCEPT !.subs = Without(@, clause)]
              /\ clause' = clause /\ stage' = stage /\ stage = "prune" /\ clause <= Len(tree.subs)
              /\ PruneAnd(tree.subs[clause].subs).empty
           \/ \E subs \in Seq(Atoms) :
                /\ tree' = [tree EXCEPT !.subs[clause].subs = subs]
                /\ clause' = clause + 1 /\ stage' = stage /\ stage = "prune" /\ clause <= Len(tree.subs)
                /\ ~ AllInverted(subs) /\ ~ PruneAnd(tree.subs[clause].subs).empty
                /\ LET list == tree.subs[clause].subs IN
                   subs = KeptOf[Len(list)][[list |-> list, kept |-> PruneAnd(list).kept]]
<1> DEFINE c == tree.subs[clause]
           left == PruneAnd(c.subs)
           subs == KeptOf[Len(c.subs)][[list |-> c.subs, kept |-> left.kept]]
<1>1. c.subs \in Seq(Atoms)
  <2>1. tree.subs \in Seq(Clauses) /\ clause \in 1..Len(tree.subs)
    BY DEF PruneInv, PruneClause, Trees
  <2>2. c \in Clauses
    BY <2>1
  <2> QED BY <2>2 DEF Clauses
<1>2. subs \in Seq(Atoms)
  BY <1>1, ClauseKeeps
<1> QED BY <1>2, Zenon DEF PruneClause
\* The tree with another clause in the place of one.
LEMMA ClauseReplaced ==
    ASSUME NEW t \in Trees, NEW i \in 1..Len(t.subs), NEW subs \in Seq(Atoms)
    PROVE  LET new == [t EXCEPT !.subs[i].subs = subs] IN
           /\ new \in Trees /\ Len(new.subs) = Len(t.subs)
           /\ new.subs[i].subs = subs
           /\ \A k \in 1..Len(t.subs) : k # i => new.subs[k] = t.subs[k]
<1> DEFINE c == [t.subs[i] EXCEPT !.subs = subs]
           list == [t.subs EXCEPT ![i] = c]
           new == [t EXCEPT !.subs = list]
<1>1. t.subs \in Seq(Clauses) /\ t.subs[i] \in Clauses
  BY DEF Trees
<1>2. c \in Clauses /\ c.subs = subs
  BY <1>1 DEF Clauses
<1> HIDE DEF c
<1>3. /\ list \in Seq(Clauses) /\ Len(list) = Len(t.subs) /\ list[i] = c
      /\ \A k \in 1..Len(t.subs) : k # i => list[k] = t.subs[k]
  BY <1>1, <1>2
<1> HIDE DEF list
<1>4. new \in Trees /\ new.subs = list
  BY <1>3 DEF Trees
<1>5. new = [t EXCEPT !.subs[i].subs = subs]
  BY DEF list, c
<1> QED BY <1>2, <1>3, <1>4, <1>5

\* The tree without a clause.
LEMMA ClauseTaken ==
    ASSUME NEW t \in Trees, NEW i \in 1..Len(t.subs)
    PROVE  LET new == [t EXCEPT !.subs = Without(@, i)] IN
           /\ new \in Trees /\ Len(new.subs) = Len(t.subs) - 1
           /\ \A k \in 1..(i - 1) : new.subs[k] = t.subs[k]
           /\ \A k \in i..(Len(t.subs) - 1) : new.subs[k] = t.subs[k + 1]
<1>1. t.subs \in Seq(Clauses)
  BY DEF Trees
<1>2. /\ Without(t.subs, i) \in Seq(Clauses) /\ Len(Without(t.subs, i)) = Len(t.subs) - 1
      /\ \A k \in 1..(i - 1) : Without(t.subs, i)[k] = t.subs[k]
      /\ \A k \in i..(Len(t.subs) - 1) : Without(t.subs, i)[k] = t.subs[k + 1]
  BY <1>1, WithoutItem
<1>3. [t EXCEPT !.subs = Without(@, i)] \in Trees
  BY <1>2 DEF Trees
<1>4. [t EXCEPT !.subs = Without(@, i)].subs = Without(t.subs, i)
  BY DEF Trees
<1> QED BY <1>2, <1>3, <1>4

\* Pruning keeps the shape of the tree, and leaves behind it only clauses with an atom
\* that is not inverted (AndNode.prune, OrNode.prune).
THEOREM PruneInvariant == PruneSpec => []PruneInv
<1>1. PruneInit => PruneInv
  <2> SUFFICES ASSUME PruneInit PROVE PruneInv
    OBVIOUS
  <2>1. tree.subs \in Seq(Clauses) /\ clause = 1 /\ stage = "prune"
    BY DEF PruneInit, Trees
  <2> QED BY <2>1 DEF PruneInit, PruneInv
<1>2. PruneInv /\ [PruneNext]_pruneVars => PruneInv'
  <2> SUFFICES ASSUME PruneInv, [PruneNext]_pruneVars PROVE PruneInv'
    OBVIOUS
  <2>0. Len(tree.subs) \in Nat
    BY DEF PruneInv, Trees
  <2>1. CASE PruneClause
    <3>1. CASE tree' = tree /\ clause' = clause /\ stage' \in {"crashed", "refused"}
      BY <3>1 DEF PruneInv
    <3>2. CASE /\ tree' = [tree EXCEPT !.subs = Without(@, clause)]
               /\ clause' = clause /\ stage' = stage /\ stage = "prune" /\ clause <= Len(tree.subs)
      <4>1. clause \in 1..Len(tree.subs)
        BY <3>2, <2>0 DEF PruneInv
      <4>2. /\ tree' \in Trees /\ Len(tree'.subs) = Len(tree.subs) - 1
            /\ \A k \in 1..(clause - 1) : tree'.subs[k] = tree.subs[k]
        BY <3>2, <4>1, ClauseTaken DEF PruneInv
      <4> QED BY <3>2, <4>1, <4>2, <2>0 DEF PruneInv
    <3>3. ASSUME NEW subs \in Seq(Atoms),
                 /\ tree' = [tree EXCEPT !.subs[clause].subs = subs]
                 /\ clause' = clause + 1 /\ stage' = stage /\ stage = "prune"
                 /\ clause <= Len(tree.subs) /\ ~ AllInverted(subs)
          PROVE  PruneInv'
      <4>1. clause \in 1..Len(tree.subs)
        BY <3>3, <2>0 DEF PruneInv
      <4>2. /\ tree' \in Trees /\ Len(tree'.subs) = Len(tree.subs)
            /\ tree'.subs[clause].subs = subs
            /\ \A k \in 1..Len(tree.subs) : k # clause => tree'.subs[k] = tree.subs[k]
        BY <3>3, <4>1, ClauseReplaced DEF PruneInv
      <4>3. \E k \in DOMAIN subs : ~ subs[k].inverted
        BY <3>3 DEF AllInverted
      <4>4. ASSUME NEW i \in 1..clause
            PROVE  \E k \in DOMAIN tree'.subs[i].subs : ~ tree'.subs[i].subs[k].inverted
        <5>1. CASE i = clause
          BY <5>1, <4>2, <4>3
        <5>2. CASE i # clause
          <6>1. i \in 1..(clause - 1) /\ tree'.subs[i] = tree.subs[i]
            BY <5>2, <4>1, <4>2, <2>0
          <6> QED BY <6>1 DEF PruneInv
        <5> QED BY <5>1, <5>2
      <4>5. clause' - 1 = clause /\ clause' \in 1..(Len(tree.subs) + 1) /\ stage' = "prune"
        BY <3>3, <4>1, <2>0
      <4> QED BY <4>2, <4>4, <4>5 DEF PruneInv
    <3> QED BY <2>1, <3>1, <3>2, <3>3, ClausePruned
  <2>2. CASE Pruned
    <3>1. /\ tree' = tree /\ clause' = clause /\ stage' \in {"empty", "accepted"}
          /\ clause > Len(tree.subs) /\ (stage' = "accepted" => tree.subs # <<>>)
      BY <2>2 DEF Pruned
    <3> QED BY <3>1 DEF PruneInv
  <2>3. CASE UNCHANGED pruneVars
    BY <2>3 DEF PruneInv, pruneVars
  <2> QED BY <2>1, <2>2, <2>3 DEF PruneNext
<1> QED BY <1>1, <1>2, PTL DEF PruneSpec

\* AcceptedFits, for any tree: a query that pruning accepts has in each AND clause an atom
\* that is not inverted, as the search process wants it (AndNode.prune, node.py:439-448).
THEOREM AcceptedFit == PruneSpec => []AcceptedFits
<1>1. PruneInv => AcceptedFits
  <2> SUFFICES ASSUME PruneInv, stage = "accepted" PROVE AcceptedFits
    BY DEF AcceptedFits
  <2>1. tree.subs \in Seq(Clauses) /\ clause \in Nat /\ clause > Len(tree.subs) /\ tree.subs # <<>>
    BY DEF PruneInv, Trees
  <2>2. ASSUME NEW i \in DOMAIN tree.subs
        PROVE  /\ \A k \in DOMAIN tree.subs[i].subs : IsAtom(tree.subs[i].subs[k])
               /\ \E k \in DOMAIN tree.subs[i].subs : ~ tree.subs[i].subs[k].inverted
    <3>1. tree.subs[i] \in Clauses /\ i \in 1..(clause - 1)
      BY <2>1
    <3>2. tree.subs[i].subs \in Seq(Atoms)
      BY <3>1 DEF Clauses
    <3>3. \A k \in DOMAIN tree.subs[i].subs : tree.subs[i].subs[k] \in Atoms
      BY <3>2
    <3> QED BY <3>1, <3>3, AtomShape DEF PruneInv, IsAtom
  <2> QED BY <2>1, <2>2 DEF AcceptedFits
<1> QED BY <1>1, PruneInvariant, PTL

\* No step of pruning changes which flows are asked for: the atoms and the clauses that go
\* asked for nothing that the others do not ask for, whatever atoms contain or exclude each
\* other (AndNode.prune).
THEOREM PruningKeeps ==
    ASSUME NEW CONSTANT f
    PROVE  PruneSpec => [][OrMatches(tree, f) <=> OrMatches(tree', f)]_pruneVars
<1>1. PruneInv /\ [PruneNext]_pruneVars => [OrMatches(tree, f) <=> OrMatches(tree', f)]_pruneVars
  <2> SUFFICES ASSUME PruneInv, PruneNext PROVE OrMatches(tree, f) <=> OrMatches(tree', f)
    BY DEF PruneNext
  <2> DEFINE Fits(c) == \A k \in DOMAIN c.subs : AtomMatches(c.subs[k], f)
  <2>0. tree.subs \in Seq(Clauses) /\ Len(tree.subs) \in Nat /\ DOMAIN tree.subs = 1..Len(tree.subs)
    BY DEF PruneInv, Trees
  <2>m. ASSUME NEW t PROVE OrMatches(t, f) <=> \E i \in DOMAIN t.subs : Fits(t.subs[i])
    BY DEF OrMatches
  <2>1. CASE tree' = tree
    BY <2>1
  <2>2. CASE /\ tree' = [tree EXCEPT !.subs = Without(@, clause)]
             /\ clause <= Len(tree.subs) /\ PruneAnd(tree.subs[clause].subs).empty
    <3>1. clause \in 1..Len(tree.subs)
      BY <2>0, <2>2 DEF PruneInv
    <3>2. /\ tree' \in Trees /\ Len(tree'.subs) = Len(tree.subs) - 1
          /\ \A k \in 1..(clause - 1) : tree'.subs[k] = tree.subs[k]
          /\ \A k \in clause..(Len(tree.subs) - 1) : tree'.subs[k] = tree.subs[k + 1]
      BY <2>2, <3>1, ClauseTaken DEF PruneInv
    <3>3. DOMAIN tree'.subs = 1..(Len(tree.subs) - 1)
      BY <3>2 DEF Trees
    <3>4. ~ Fits(tree.subs[clause])
      <4>0. tree.subs[clause] \in Clauses
        BY <3>1, <2>0
      <4>1. tree.subs[clause].subs \in Seq(Atoms)
        BY <4>0 DEF Clauses
      <4> QED BY <4>1, <2>2, ClauseKeeps
    <3> HIDE DEF Fits
    <3>5. ASSUME NEW i \in DOMAIN tree.subs, Fits(tree.subs[i])
          PROVE  \E k \in DOMAIN tree'.subs : Fits(tree'.subs[k])
      <4>1. i # clause
        BY <3>4, <3>5
      <4>2. CASE i < clause
        <5>1. i \in DOMAIN tree'.subs /\ tree'.subs[i] = tree.subs[i]
          BY <4>2, <3>1, <3>2, <3>3, <2>0
        <5> QED BY <5>1, <3>5
      <4>3. CASE i > clause
        <5>1. i - 1 \in DOMAIN tree'.subs /\ tree'.subs[i - 1] = tree.subs[(i - 1) + 1] /\ (i - 1) + 1 = i
          BY <4>3, <3>1, <3>2, <3>3, <2>0
        <5> QED BY <5>1, <3>5
      <4> QED BY <4>1, <4>2, <4>3, <3>1, <2>0
    <3>6. ASSUME NEW k \in DOMAIN tree'.subs, Fits(tree'.subs[k])
          PROVE  \E i \in DOMAIN tree.subs : Fits(tree.subs[i])
      <4>1. CASE k < clause
        <5>1. k \in DOMAIN tree.subs /\ tree'.subs[k] = tree.subs[k]
          BY <4>1, <3>1, <3>2, <3>3, <2>0
        <5> QED BY <5>1, <3>6
      <4>2. CASE ~ (k < clause)
        <5>1. k + 1 \in DOMAIN tree.subs /\ tree'.subs[k] = tree.subs[k + 1]
          BY <4>2, <3>1, <3>2, <3>3, <2>0
        <5> QED BY <5>1, <3>6
      <4> QED BY <4>1, <4>2
    <3> QED BY <3>5, <3>6, <2>m
  <2>3. ASSUME NEW subs \in Seq(Atoms),
               /\ tree' = [tree EXCEPT !.subs[clause].subs = subs]
               /\ clause <= Len(tree.subs) /\ ~ PruneAnd(tree.subs[clause].subs).empty
               /\ LET list == tree.subs[clause].subs IN
                  subs = KeptOf[Len(list)][[list |-> list, kept |-> PruneAnd(list).kept]]
        PROVE  OrMatches(tree, f) <=> OrMatches(tree', f)
    <3>1. clause \in 1..Len(tree.subs)
      BY <2>0, <2>3 DEF PruneInv
    <3>a. tree \in Trees /\ tree' = [tree EXCEPT !.subs[clause].subs = subs]
      BY <2>3 DEF PruneInv
    <3>2. /\ tree' \in Trees /\ Len(tree'.subs) = Len(tree.subs)
          /\ tree'.subs[clause].subs = subs
          /\ \A k \in 1..Len(tree.subs) : k # clause => tree'.subs[k] = tree.subs[k]
      BY <3>a, <3>1, ClauseReplaced
    <3>3. DOMAIN tree'.subs = DOMAIN tree.subs
      BY <3>2, <2>0 DEF Trees
    <3>4. Fits(tree.subs[clause]) <=> Fits(tree'.subs[clause])
      <4>0. tree.subs[clause] \in Clauses
        BY <3>1, <2>0
      <4>1. tree.subs[clause].subs \in Seq(Atoms)
        BY <4>0 DEF Clauses
      <4> QED BY <4>1, <2>3, <3>2, ClauseKeeps
    <3> HIDE DEF Fits
    <3>5. \A i \in DOMAIN tree.subs : Fits(tree.subs[i]) <=> Fits(tree'.subs[i])
      BY <3>2, <3>4, <2>0
    <3> QED BY <3>3, <3>5, <2>m
  <2>4. CASE PruneClause
    BY <2>4, <2>1, <2>2, <2>3, ClausePruned
  <2>5. CASE Pruned
    BY <2>5, <2>1 DEF Pruned
  <2> QED BY <2>4, <2>5 DEF PruneNext
<1> QED BY <1>1, PruneInvariant, PTL DEF PruneSpec
=============================================================================
