--------------------------- MODULE PipelineProofs ---------------------------
(***************************************************************************)
(* Proofs about Pipeline, for any number of threads and buckets.           *)
(***************************************************************************)
EXTENDS Pipeline, FiniteSetTheorems, SequenceTheorems, TLAPS

\* What a signal does: at most one waiter of T becomes woken.
LEMMA SignalEffect ==
    ASSUME NEW pcs \in [Thread -> Labels], NEW T \in SUBSET Thread,
           NEW new \in Signal(pcs, T)
    PROVE  /\ new \in [Thread -> Labels]
           /\ \/ Waiters(pcs, T) = {} /\ new = pcs
              \/ \E t \in Waiters(pcs, T) : new = [pcs EXCEPT ![t] = "woken"]
BY DEF Signal, Waiters, Labels

\* What the signal of a push to the queue q does.
LEMMA PushSignalEffect ==
    ASSUME NEW pcs \in [Thread -> Labels], NEW T \in SUBSET Thread,
           NEW q, NEW cl, NEW new \in PushSignal(pcs, T, q, cl)
    PROVE  /\ new \in [Thread -> Labels]
           /\ \/ (q \in cl \/ Waiters(pcs, T) = {}) /\ new = pcs
              \/ q \notin cl /\ \E t \in Waiters(pcs, T) : new = [pcs EXCEPT ![t] = "woken"]
<1>1. CASE q \in cl
      BY <1>1 DEF PushSignal
<1>2. CASE q \notin cl
  <2>1. new \in Signal(pcs, T)
        BY <1>2 DEF PushSignal
  <2> QED BY <2>1, <1>2, SignalEffect
<1> QED BY <1>1, <1>2

LEMMA ThreadSets == Capture \subseteq Thread /\ Indexer \subseteq Thread /\ Output \subseteq Thread
BY DEF Thread

LEMMA LabelFacts ==
    {"check", "dispatch", "grab", "waiting", "woken", "final", "pop", "work", "recycle", "exited"}
        \subseteq Labels
BY DEF Labels

\* The broadcast of a close only wakes waiters.
LEMMA BroadcastType ==
    ASSUME NEW T \in SUBSET Thread, pc \in [Thread -> Labels]
    PROVE  Broadcast(pc, T) \in [Thread -> Labels]
BY DEF Broadcast, Labels

LEMMA InitType == Init => TypeOK
<1> SUFFICES ASSUME Init PROVE TypeOK
    OBVIOUS
<1>1. ready \in Seq(Bucket)
  <2>1. Cardinality(InitBuckets) \in Nat
        BY BucketAssumption, FS_Subset, FS_CardinalityType
  <2>2. ready \in [1..Cardinality(InitBuckets) -> Bucket]
        BY BucketAssumption DEF Init
  <2> QED BY <2>1, <2>2
<1>2. filled \in Seq(Seq(Bucket)) /\ indexed \in Seq(Seq(Bucket))
      BY EmptySeq DEF Init
<1>3. hold \in [Thread -> Seq(Bucket)]
      BY EmptySeq DEF Init
<1>4. pc \in [Thread -> Labels]
      BY LabelFacts DEF Init
<1>5. main \in MainLabels
      BY DEF Init, MainLabels
<1> QED
    BY <1>1, <1>2, <1>3, <1>4, <1>5 DEF Init, TypeOK

\* Every step keeps the types.
LEMMA TypeStep == TypeOK /\ [Next]_vars => TypeOK'
<1> SUFFICES ASSUME TypeOK, [Next]_vars PROVE TypeOK'
    OBVIOUS
<1> USE ThreadSets, LabelFacts DEF TypeOK, queues, process, Goto, Take
<1>h. ready # <<>> => Head(ready) \in Bucket /\ Tail(ready) \in Seq(Bucket)
      BY HeadTailProperties
<1>a. \A b \in Bucket : Append(ready, b) \in Seq(Bucket)
      BY AppendProperties
<1>1. ASSUME NEW c \in Capture, CaptureStep(c) PROVE TypeOK'
  <2> c \in Thread /\ hold[c] \in Seq(Bucket)
      OBVIOUS
  <2>0. \A l \in Labels : [pc EXCEPT ![c] = l] \in [Thread -> Labels]
        OBVIOUS
  <2>e. [hold EXCEPT ![c] = <<>>] \in [Thread -> Seq(Bucket)]
        BY EmptySeq
  <2>s. ASSUME NEW l \in Labels, SendBucket(c, l)
        PROVE  /\ filled' \in Seq(Seq(Bucket))
               /\ pc' \in [Thread -> Labels]
               /\ hold' \in [Thread -> Seq(Bucket)]
    <3>1. pc' \in [Thread -> Labels]
      <4> DEFINE p == [pc EXCEPT ![c] = l]
      <4>1. p \in [Thread -> Labels] /\ Indexer \in SUBSET Thread
            BY <2>0
      <4>2. pc' \in PushSignal(p, Indexer, "filled", closed)
            BY <2>s DEF SendBucket
      <4> HIDE DEF p
      <4> QED BY ONLY <4>1, <4>2, PushSignalEffect, Zenon
    <3>2. Append(filled, hold[c]) \in Seq(Seq(Bucket))
          BY AppendProperties
    <3> QED BY <2>s, <2>e, <3>1, <3>2 DEF SendBucket, Push
  <2>x. ready # <<>> => Append(hold[c], Head(ready)) \in Seq(Bucket)
        BY <1>h, AppendProperties
  <2>y. ready # <<>> => <<Head(ready)>> \in Seq(Bucket)
        BY <1>h
  <2>1. CASE CaptureCheck(c)
        BY <2>1 DEF CaptureCheck
  <2>2. CASE DispatchReturn(c)
        BY <2>2 DEF DispatchReturn
  <2>3. CASE NewChain(c)
    <3>1. CASE hold[c] # <<>>
          BY <2>3, <3>1, <2>s DEF NewChain
    <3>2. CASE hold[c] = <<>>
          BY <2>3, <3>2 DEF NewChain
    <3> QED BY <3>1, <3>2
  <2>4. CASE GrabBucket(c)
        BY <2>4, <1>h, <2>y DEF GrabBucket
  <2>5. CASE ExtendChain(c)
        BY <2>5, <1>h, <2>x DEF ExtendChain
  <2>6. CASE ExtendWoken(c)
        BY <2>6, <1>h, <2>x DEF ExtendWoken
  <2>7. CASE CaptureFinal(c)
    <3>1. CASE hold[c] # <<>>
          BY <2>7, <3>1, <2>s DEF CaptureFinal
    <3>2. CASE hold[c] = <<>>
          BY <2>7, <3>2 DEF CaptureFinal
    <3> QED BY <3>1, <3>2
  <2> QED BY <1>1, <2>1, <2>2, <2>3, <2>4, <2>5, <2>6, <2>7 DEF CaptureStep
<1>2. ASSUME NEW i \in Indexer, IndexerStep(i) PROVE TypeOK'
  <2> i \in Thread /\ hold[i] \in Seq(Bucket)
      OBVIOUS
  <2>0. \A l \in Labels : [pc EXCEPT ![i] = l] \in [Thread -> Labels]
        OBVIOUS
  <2>1. CASE IndexerCheck(i)
        BY <2>1 DEF IndexerCheck
  <2>2. CASE IndexerPop(i)
    <3>1. filled # <<>> => Head(filled) \in Seq(Bucket) /\ Tail(filled) \in Seq(Seq(Bucket))
          BY HeadTailProperties
    <3> QED BY <2>2, <3>1 DEF IndexerPop, CanPop
  <2>3. CASE IndexerPush(i)
    <3>1. pc' \in [Thread -> Labels]
      <4> DEFINE p == [pc EXCEPT ![i] = "check"]
      <4>1. p \in [Thread -> Labels] /\ Output \in SUBSET Thread
            BY <2>0
      <4>2. pc' \in PushSignal(p, Output, "indexed", closed)
            BY <2>3 DEF IndexerPush
      <4> HIDE DEF p
      <4> QED BY ONLY <4>1, <4>2, PushSignalEffect, Zenon
    <3>3. Append(indexed, hold[i]) \in Seq(Seq(Bucket))
          BY AppendProperties
    <3>4. [hold EXCEPT ![i] = <<>>] \in [Thread -> Seq(Bucket)]
          BY EmptySeq
    <3> QED BY <2>3, <3>1, <3>3, <3>4 DEF IndexerPush, Push
  <2> QED BY <1>2, <2>1, <2>2, <2>3 DEF IndexerStep
<1>3. ASSUME NEW o \in Output, OutputStep(o) PROVE TypeOK'
  <2> o \in Thread /\ hold[o] \in Seq(Bucket)
      OBVIOUS
  <2>0. \A l \in Labels : [pc EXCEPT ![o] = l] \in [Thread -> Labels]
        OBVIOUS
  <2>1. CASE OutputCheck(o)
        BY <2>1 DEF OutputCheck
  <2>2. CASE OutputPop(o)
    <3>1. indexed # <<>> => Head(indexed) \in Seq(Bucket) /\ Tail(indexed) \in Seq(Seq(Bucket))
          BY HeadTailProperties
    <3> QED BY <2>2, <3>1 DEF OutputPop, CanPop
  <2>3. CASE OutputBucket(o)
        BY <2>3 DEF OutputBucket
  <2>4. CASE Recycle(o)
    <3>1. pc' \in [Thread -> Labels]
      <4> DEFINE p == [pc EXCEPT ![o] = IF Len(hold[o]) = 1 THEN "check" ELSE "recycle"]
      <4>1. p \in [Thread -> Labels] /\ Capture \in SUBSET Thread
            BY <2>0
      <4>2. pc' \in Signal(p, Capture)
            BY <2>4 DEF Recycle
      <4> HIDE DEF p
      <4> QED BY ONLY <4>1, <4>2, SignalEffect, Zenon
    <3>2. hold[o] # <<>>
          BY <2>4 DEF Recycle
    <3>3. Head(hold[o]) \in Bucket /\ Tail(hold[o]) \in Seq(Bucket)
          BY <3>2, HeadTailProperties
    <3> QED BY <2>4, <1>a, <3>1, <3>3 DEF Recycle
  <2> QED BY <1>3, <2>1, <2>2, <2>3, <2>4 DEF OutputStep
<1>4. ASSUME AllocateBucket PROVE TypeOK'
  <2>1. pc' \in [Thread -> Labels]
    <3>1. pc \in [Thread -> Labels] /\ Capture \in SUBSET Thread
          OBVIOUS
    <3>2. pc' \in Signal(pc, Capture)
          BY <1>4 DEF AllocateBucket
    <3> QED BY ONLY <3>1, <3>2, SignalEffect, Zenon
  <2> QED BY <1>4, <2>1, <1>a DEF AllocateBucket
<1>5. ASSUME MainStep PROVE TypeOK'
  <2> USE DEF MainGoto, MainLabels
  <2>1. ASSUME NEW l, NEW q \in {"filled", "indexed"}, NEW T \in SUBSET Thread,
               NEW next \in MainLabels, CloseQueue(l, q, T, next)
        PROVE  TypeOK'
        BY <2>1, BroadcastType DEF CloseQueue
  <2>2. CASE ShutdownCapture
        BY <2>2 DEF ShutdownCapture, StopThread, StopDone, Joined, Unlock
  <2>3. CASE ShutdownIndexers
        BY <2>1, <2>3 DEF ShutdownIndexers, StopThread, StopDone, Joined, Drained
  <2>4. CASE ShutdownOutputs
        BY <2>1, <2>4 DEF ShutdownOutputs, StopThread, StopDone, Joined, Drained
  <2>5. CASE FreeBuckets
    <3>1. <<>> \in Seq(Bucket)
          BY EmptySeq
    <3>2. Elements(ready) \subseteq Bucket
          BY DEF Elements
    <3> QED BY <2>5, <3>1, <3>2 DEF FreeBuckets
  <2>6. CASE TestDb
        BY <2>6 DEF TestDb
  <2>7. CASE LeaveRun
        BY <2>7 DEF LeaveRun
  <2> QED BY <1>5, <2>2, <2>3, <2>4, <2>5, <2>6, <2>7 DEF MainStep
<1>6. CASE ReceiveSignal \/ DbChange
      BY <1>6 DEF ReceiveSignal, DbChange
<1>7. ASSUME NEW t \in Thread, SpuriousWakeup(t) PROVE TypeOK'
      BY <1>7 DEF SpuriousWakeup
<1>8. CASE UNCHANGED vars
      BY <1>8 DEF vars
<1> QED
    BY <1>1, <1>2, <1>3, <1>4, <1>5, <1>6, <1>7, <1>8 DEF Next, Running, Terminated

\* Every reachable state of the capture process has the expected types.
THEOREM TypeCorrect == Spec => []TypeOK
BY InitType, TypeStep, PTL DEF Spec

-----------------------------------------------------------------------------
(* Control: what threads hold, and what the shutdown stages establish.     *)

\* From old to new, the thread t has moved to the label l and has signalled the
\* threads T: the others are where they were, but a waiter of T may be woken.
Moved(old, new, t, l, T) ==
    /\ new[t] = l
    /\ \A u \in Thread \ {t} :
          new[u] = old[u] \/ (u \in T /\ old[u] = "waiting" /\ new[u] = "woken")

LEMMA SignalMoves ==
    ASSUME NEW old \in [Thread -> Labels], NEW T \in SUBSET Thread,
           NEW t \in Thread, t \notin T, NEW l \in Labels,
           NEW new \in Signal([old EXCEPT ![t] = l], T)
    PROVE  Moved(old, new, t, l, T)
<1> DEFINE p == [old EXCEPT ![t] = l]
<1>1. p \in [Thread -> Labels] /\ p[t] = l /\ \A u \in Thread \ {t} : p[u] = old[u]
      OBVIOUS
<1>2. new = p \/ \E w \in T : p[w] = "waiting" /\ new = [p EXCEPT ![w] = "woken"]
      BY DEF Signal, Waiters
<1> HIDE DEF p
<1>3. CASE new = p
      BY <1>1, <1>3 DEF Moved
<1>4. ASSUME NEW w \in T, p[w] = "waiting", new = [p EXCEPT ![w] = "woken"]
      PROVE  Moved(old, new, t, l, T)
      BY <1>1, <1>4 DEF Moved
<1> QED BY <1>2, <1>3, <1>4

LEMMA PushSignalMoves ==
    ASSUME NEW old \in [Thread -> Labels], NEW T \in SUBSET Thread,
           NEW t \in Thread, t \notin T, NEW l \in Labels, NEW q, NEW cl,
           NEW new \in PushSignal([old EXCEPT ![t] = l], T, q, cl)
    PROVE  Moved(old, new, t, l, T)
<1>1. CASE q \in cl
      BY <1>1 DEF PushSignal, Moved
<1>2. CASE q \notin cl
  <2>1. new \in Signal([old EXCEPT ![t] = l], T)
        BY <1>2 DEF PushSignal
  <2> QED BY <2>1, SignalMoves
<1> QED BY <1>1, <1>2

LEMMA InitControl == Init => HoldOK /\ PhaseOK
BY ThreadSets DEF Init, HoldOK, PhaseOK, OutputsJoined, IndexedClosed, IndexedDrained,
    IndexersJoined, FilledClosed, FilledDrained, LockReleased, CaptureJoined

\* Every step keeps the control invariants.
LEMMA ControlStep == TypeOK /\ HoldOK /\ PhaseOK /\ [Next]_vars => HoldOK' /\ PhaseOK'
<1> SUFFICES ASSUME TypeOK, HoldOK, PhaseOK, [Next]_vars PROVE HoldOK' /\ PhaseOK'
    OBVIOUS
<1>t. TypeOK'
      BY TypeStep
<1>a. Capture \cap Indexer = {} /\ Capture \cap Output = {} /\ Indexer \cap Output = {}
      BY ThreadAssumption
<1> USE <1>a, ThreadSets DEF queues, process, Goto, Take
<1>1. ASSUME NEW c \in Capture, CaptureStep(c), ~crashed, main # "exited"
      PROVE HoldOK' /\ PhaseOK'
  <2>s. ASSUME NEW l \in {"grab", "exited"}, pc[c] # "exited", hold[c] # <<>>, SendBucket(c, l),
               UNCHANGED <<ready, indexed, closed, stop, eof, main, locked>>
        PROVE  HoldOK' /\ PhaseOK'
    <3>1. Moved(pc, pc', c, l, Indexer)
      <4>1. pc \in [Thread -> Labels] /\ c \in Thread /\ c \notin Indexer /\ l \in Labels
            /\ Indexer \in SUBSET Thread
            BY DEF TypeOK, Labels
      <4>2. pc' \in PushSignal([pc EXCEPT ![c] = l], Indexer, "filled", closed)
            BY <2>s DEF SendBucket
      <4> QED BY ONLY <4>1, <4>2, PushSignalMoves
    <3>2. "filled" \notin closed
          BY <2>s DEF PhaseOK, CaptureJoined, LockReleased, FilledDrained
    <3>3. /\ filled' = Append(filled, hold[c])
          /\ hold' = [hold EXCEPT ![c] = <<>>]
          BY <2>s, <3>2 DEF SendBucket, Push
    <3>4. HoldOK'
      <4>1. \A k \in 1..Len(filled') : filled'[k] # <<>>
            BY <2>s, <3>3 DEF HoldOK, TypeOK
      <4>2. \A u \in Thread \ {c} : hold'[u] = hold[u]
            BY <3>3 DEF TypeOK
      <4>3. hold'[c] = <<>>
            BY <3>3 DEF TypeOK
      <4> QED BY <2>s, <3>1, <4>1, <4>2, <4>3 DEF HoldOK, Moved
    <3>5. PhaseOK'
      <4>1. main \notin CaptureJoined
            BY <2>s DEF PhaseOK
      <4> QED BY <2>s, <4>1, <3>1 DEF Moved, PhaseOK, CaptureJoined, LockReleased, FilledDrained,
                 FilledClosed, IndexersJoined, IndexedDrained, IndexedClosed, OutputsJoined
    <3> QED BY <3>4, <3>5
  <2>p. main \notin CaptureJoined \/ pc[c] = "exited"
        BY DEF PhaseOK
  <2>m. \A l : pc' = [pc EXCEPT ![c] = l] => pc'[c] = l /\ \A u \in Thread \ {c} : pc'[u] = pc[u]
        BY DEF TypeOK
  <2>1. CASE CaptureCheck(c)
    <3>1. HoldOK'
      <4>1. (\A u \in Thread \ {c} : pc'[u] = pc[u]) /\ UNCHANGED <<hold, filled, indexed>>
            BY <2>1, <2>m DEF CaptureCheck
      <4>2. pc'[c] \in {"check", "dispatch", "final"}
            BY <2>1, <2>m DEF CaptureCheck
      <4> QED BY <4>1, <4>2 DEF HoldOK
    <3>2. PhaseOK'
          BY <2>1, <2>p DEF CaptureCheck, PhaseOK, TypeOK
    <3> QED BY <3>1, <3>2
  <2>2. CASE DispatchReturn(c)
    <3>1. HoldOK'
          BY <2>2 DEF DispatchReturn, HoldOK, TypeOK
    <3>2. PhaseOK'
          BY <2>2, <2>p DEF DispatchReturn, PhaseOK, TypeOK
    <3> QED BY <3>1, <3>2
  <2>3. CASE NewChain(c)
    <3>1. CASE hold[c] # <<>>
          BY <2>3, <3>1, <2>s DEF NewChain
    <3>2. CASE hold[c] = <<>>
      <4>1. HoldOK'
            BY <2>3, <3>2 DEF NewChain, HoldOK, TypeOK
      <4>2. PhaseOK'
            BY <2>3, <3>2, <2>p DEF NewChain, PhaseOK, TypeOK
      <4> QED BY <4>1, <4>2
    <3> QED BY <3>1, <3>2
  <2>4. CASE GrabBucket(c)
    <3>1. HoldOK'
          BY <2>4 DEF GrabBucket, HoldOK, TypeOK
    <3>2. PhaseOK'
          BY <2>4, <2>p, <1>1 DEF GrabBucket, PhaseOK, TypeOK
    <3> QED BY <3>1, <3>2
  <2>g. ready # <<>> => Append(hold[c], Head(ready)) # <<>>
    <3>1. hold[c] \in Seq(Bucket) /\ (ready # <<>> => Head(ready) \in Bucket)
          BY HeadTailProperties DEF TypeOK
    <3> QED BY <3>1, AppendProperties
  <2>5. CASE ExtendChain(c)
    <3>1. HoldOK'
          BY <2>5, <2>g DEF ExtendChain, HoldOK, TypeOK
    <3>2. PhaseOK'
          BY <2>5, <2>p, <1>1 DEF ExtendChain, PhaseOK, TypeOK
    <3> QED BY <3>1, <3>2
  <2>6. CASE ExtendWoken(c)
    <3>1. HoldOK'
          BY <2>6, <2>g DEF ExtendWoken, HoldOK, TypeOK
    <3>2. PhaseOK'
          BY <2>6, <2>p, <1>1 DEF ExtendWoken, PhaseOK, TypeOK
    <3> QED BY <3>1, <3>2
  <2>7. CASE CaptureFinal(c)
    <3>1. CASE hold[c] # <<>>
          BY <2>7, <3>1, <2>s DEF CaptureFinal
    <3>2. CASE hold[c] = <<>>
      <4>1. HoldOK'
            BY <2>7, <3>2 DEF CaptureFinal, HoldOK, TypeOK
      <4>2. PhaseOK'
            BY <2>7, <3>2, <2>p DEF CaptureFinal, PhaseOK, TypeOK
      <4> QED BY <4>1, <4>2
    <3> QED BY <3>1, <3>2
  <2> QED BY <1>1, <2>1, <2>2, <2>3, <2>4, <2>5, <2>6, <2>7 DEF CaptureStep
<1>2. ASSUME NEW i \in Indexer, IndexerStep(i), ~crashed, main # "exited"
      PROVE HoldOK' /\ PhaseOK'
  <2>p. main \notin IndexersJoined \/ pc[i] = "exited"
        BY DEF PhaseOK
  <2>1. CASE IndexerCheck(i)
    <3>1. HoldOK'
          BY <2>1 DEF IndexerCheck, HoldOK, TypeOK
    <3>2. PhaseOK'
          BY <2>1, <2>p DEF IndexerCheck, PhaseOK, TypeOK
    <3> QED BY <3>1, <3>2
  <2>2. CASE IndexerPop(i)
    <3>1. CASE CanPop(filled, "filled", closed)
      <4>1. /\ filled' = Tail(filled) /\ hold' = [hold EXCEPT ![i] = Head(filled)]
            /\ pc' = [pc EXCEPT ![i] = "work"] /\ UNCHANGED <<ready, indexed, closed, main, locked>>
            BY <2>2, <3>1 DEF IndexerPop
      <4>2. /\ filled # <<>> /\ Len(filled) >= 1
            /\ Len(Tail(filled)) = Len(filled) - 1
            /\ \A k \in 1..Len(Tail(filled)) : Tail(filled)[k] = filled[k+1]
            /\ Head(filled) = filled[1]
            BY <3>1, HeadTailProperties, EmptySeq DEF CanPop, TypeOK
      <4>a. Head(filled) # <<>> /\ \A k \in 1..Len(Tail(filled)) : Tail(filled)[k] # <<>>
            BY <4>2 DEF HoldOK, TypeOK
      <4>b. /\ pc'[i] = "work" /\ hold'[i] = Head(filled)
            /\ \A u \in Thread \ {i} : pc'[u] = pc[u] /\ hold'[u] = hold[u]
            BY <4>1 DEF TypeOK
      <4>3. HoldOK'
            BY <4>1, <4>a, <4>b DEF HoldOK
      <4>4. main \notin FilledDrained /\ main \notin IndexersJoined
            BY <2>2, <4>2, <2>p DEF PhaseOK, IndexerPop
      <4>5. \A u \in Thread \ {i} : pc'[u] = pc[u]
            BY <4>1 DEF TypeOK
      <4>6. PhaseOK'
            BY <4>1, <4>4, <4>5 DEF PhaseOK
      <4> QED BY <4>3, <4>6
    <3>2. CASE ~CanPop(filled, "filled", closed)
      <4>1. HoldOK'
            BY <2>2, <3>2 DEF IndexerPop, HoldOK, TypeOK
      <4>2. PhaseOK'
            BY <2>2, <3>2, <2>p DEF IndexerPop, PhaseOK, TypeOK
      <4> QED BY <4>1, <4>2
    <3> QED BY <3>1, <3>2
  <2>3. CASE IndexerPush(i)
    <3>1. Moved(pc, pc', i, "check", Output)
      <4>1. pc \in [Thread -> Labels] /\ i \in Thread /\ i \notin Output /\ "check" \in Labels
            /\ Output \in SUBSET Thread
            BY DEF TypeOK, Labels
      <4>2. pc' \in PushSignal([pc EXCEPT ![i] = "check"], Output, "indexed", closed)
            BY <2>3 DEF IndexerPush
      <4> QED BY ONLY <4>1, <4>2, PushSignalMoves
    <3>2. main \notin IndexersJoined /\ "indexed" \notin closed
          BY <2>3, <2>p DEF IndexerPush, PhaseOK, IndexersJoined, IndexedDrained
    <3>3. /\ indexed' = Append(indexed, hold[i])
          /\ hold' = [hold EXCEPT ![i] = <<>>]
          /\ UNCHANGED <<ready, filled, closed, main, locked>>
          BY <2>3, <3>2 DEF IndexerPush, Push
    <3>4. HoldOK'
      <4>1. \A k \in 1..Len(indexed') : indexed'[k] # <<>>
        <5>1. indexed \in Seq(Seq(Bucket)) /\ hold[i] \in Seq(Bucket) /\ hold[i] # <<>>
              BY <2>3 DEF TypeOK, HoldOK, IndexerPush
        <5>2. /\ Len(indexed') = Len(indexed) + 1 /\ Len(indexed) \in Nat
              /\ \A k \in 1..Len(indexed) : indexed'[k] = indexed[k]
              /\ indexed'[Len(indexed) + 1] = hold[i]
              BY <3>3, <5>1, AppendProperties
        <5> QED BY <5>1, <5>2 DEF HoldOK
      <4>2. \A u \in Thread \ {i} : hold'[u] = hold[u]
            BY <3>3 DEF TypeOK
      <4>3. hold'[i] = <<>>
            BY <3>3 DEF TypeOK
      <4> QED BY <3>1, <3>3, <4>1, <4>2, <4>3 DEF HoldOK, Moved
    <3>5. PhaseOK'
          BY <3>3, <3>2, <3>1 DEF Moved, PhaseOK, IndexersJoined, IndexedDrained,
             IndexedClosed, OutputsJoined
    <3> QED BY <3>4, <3>5
  <2> QED BY <1>2, <2>1, <2>2, <2>3 DEF IndexerStep
<1>3. ASSUME NEW o \in Output, OutputStep(o), ~crashed, main # "exited"
      PROVE HoldOK' /\ PhaseOK'
  <2>p. main \notin OutputsJoined \/ pc[o] = "exited"
        BY DEF PhaseOK
  <2>1. CASE OutputCheck(o)
    <3>1. HoldOK'
          BY <2>1 DEF OutputCheck, HoldOK, TypeOK
    <3>2. PhaseOK'
          BY <2>1, <2>p DEF OutputCheck, PhaseOK, TypeOK
    <3> QED BY <3>1, <3>2
  <2>2. CASE OutputPop(o)
    <3>1. CASE CanPop(indexed, "indexed", closed)
      <4>1. /\ indexed' = Tail(indexed) /\ hold' = [hold EXCEPT ![o] = Head(indexed)]
            /\ pc' = [pc EXCEPT ![o] = "work"] /\ UNCHANGED <<ready, filled, closed, main, locked>>
            BY <2>2, <3>1 DEF OutputPop
      <4>2. /\ indexed # <<>> /\ Len(indexed) >= 1
            /\ Len(Tail(indexed)) = Len(indexed) - 1
            /\ \A k \in 1..Len(Tail(indexed)) : Tail(indexed)[k] = indexed[k+1]
            /\ Head(indexed) = indexed[1]
            BY <3>1, HeadTailProperties, EmptySeq DEF CanPop, TypeOK
      <4>a. Head(indexed) # <<>> /\ \A k \in 1..Len(Tail(indexed)) : Tail(indexed)[k] # <<>>
            BY <4>2 DEF HoldOK, TypeOK
      <4>b. /\ pc'[o] = "work" /\ hold'[o] = Head(indexed)
            /\ \A u \in Thread \ {o} : pc'[u] = pc[u] /\ hold'[u] = hold[u]
            BY <4>1 DEF TypeOK
      <4>3. HoldOK'
            BY <4>1, <4>a, <4>b DEF HoldOK
      <4>4. main \notin IndexedDrained /\ main \notin OutputsJoined
            BY <2>2, <4>2, <2>p DEF PhaseOK, OutputPop
      <4>5. \A u \in Thread \ {o} : pc'[u] = pc[u]
            BY <4>1 DEF TypeOK
      <4>6. PhaseOK'
            BY <4>1, <4>4, <4>5 DEF PhaseOK
      <4> QED BY <4>3, <4>6
    <3>2. CASE ~CanPop(indexed, "indexed", closed)
      <4>1. HoldOK'
            BY <2>2, <3>2 DEF OutputPop, HoldOK, TypeOK
      <4>2. PhaseOK'
            BY <2>2, <3>2, <2>p DEF OutputPop, PhaseOK, TypeOK
      <4> QED BY <4>1, <4>2
    <3> QED BY <3>1, <3>2
  <2>3. CASE OutputBucket(o)
    <3>1. HoldOK'
          BY <2>3 DEF OutputBucket, HoldOK, TypeOK
    <3>2. PhaseOK'
          BY <2>3, <2>p DEF OutputBucket, PhaseOK, TypeOK
    <3> QED BY <3>1, <3>2
  <2>4. CASE Recycle(o)
    <3> DEFINE l == IF Len(hold[o]) = 1 THEN "check" ELSE "recycle"
    <3>1. Moved(pc, pc', o, l, Capture)
      <4>1. pc \in [Thread -> Labels] /\ o \in Thread /\ o \notin Capture /\ l \in Labels
            /\ Capture \in SUBSET Thread
            BY DEF TypeOK, Labels
      <4>2. pc' \in Signal([pc EXCEPT ![o] = l], Capture)
            BY <2>4 DEF Recycle
      <4> QED BY ONLY <4>1, <4>2, SignalMoves
    <3>2. main \notin OutputsJoined
          BY <2>4, <2>p DEF Recycle
    <3>3. /\ hold' = [hold EXCEPT ![o] = Tail(hold[o])]
          /\ UNCHANGED <<filled, indexed, closed, main, locked>>
          BY <2>4 DEF Recycle
    <3>4. HoldOK'
      <4>1. Tail(hold[o]) = <<>> <=> Len(hold[o]) = 1
        <5>1. hold[o] \in Seq(Bucket) /\ hold[o] # <<>>
              BY <2>4 DEF Recycle, TypeOK
        <5>2. Len(hold[o]) \in Nat /\ Tail(hold[o]) \in Seq(Bucket)
              /\ Len(Tail(hold[o])) = Len(hold[o]) - 1
              BY <5>1, HeadTailProperties
        <5>3. \A s \in Seq(Bucket) : s = <<>> <=> Len(s) = 0
              BY EmptySeq
        <5>4. Tail(hold[o]) = <<>> <=> Len(Tail(hold[o])) = 0
              BY <5>2, <5>3, Zenon
        <5> QED BY <5>2, <5>4
      <4>2. \A u \in Thread \ {o} : hold'[u] = hold[u]
            BY <3>3 DEF TypeOK
      <4>3. hold'[o] = Tail(hold[o])
            BY <3>3 DEF TypeOK
      <4> QED BY <3>1, <3>3, <4>1, <4>2, <4>3 DEF HoldOK, Moved
    <3>5. PhaseOK'
          BY <3>3, <3>2, <3>1, <1>3 DEF Moved, PhaseOK, OutputsJoined
    <3> QED BY <3>4, <3>5
  <2> QED BY <1>3, <2>1, <2>2, <2>3, <2>4 DEF OutputStep
<1>4. ASSUME AllocateBucket PROVE HoldOK' /\ PhaseOK'
  <2>1. \A t \in Thread : pc'[t] = pc[t] \/ (t \in Capture /\ pc[t] = "waiting" /\ pc'[t] = "woken")
    <3>1. pc \in [Thread -> Labels] /\ Capture \in SUBSET Thread /\ pc' \in Signal(pc, Capture)
          BY <1>4 DEF AllocateBucket, TypeOK
    <3> QED BY <3>1 DEF Signal, Waiters
  <2>2. HoldOK'
        BY <1>4, <2>1 DEF AllocateBucket, HoldOK
  <2>3. PhaseOK'
        BY <1>4, <2>1 DEF AllocateBucket, PhaseOK, OutputsJoined, IndexedClosed, IndexedDrained,
           IndexersJoined, FilledClosed, FilledDrained, LockReleased, CaptureJoined
  <2> QED BY <2>2, <2>3
<1>5. ASSUME MainStep, main # "exited" PROVE HoldOK' /\ PhaseOK'
  <2>1. HoldOK'
    <3>1. CASE UNCHANGED <<pc, hold, filled, indexed>>
          BY <3>1 DEF HoldOK
    <3>2. ASSUME NEW l, NEW q, NEW T \in SUBSET Thread, NEW next, CloseQueue(l, q, T, next)
          PROVE  HoldOK'
      <4>1. \A t \in Thread : pc'[t] = pc[t] \/ (pc[t] = "waiting" /\ pc'[t] = "woken")
            BY <3>2 DEF CloseQueue, Broadcast, Waiters, TypeOK
      <4> QED BY <3>2, <4>1 DEF CloseQueue, HoldOK
    <3> QED BY <1>5, <3>1, <3>2 DEF MainStep, TestDb, LeaveRun, ShutdownCapture, StopThread,
               StopDone, Joined, Unlock, ShutdownIndexers, Drained, ShutdownOutputs, FreeBuckets
  <2> USE DEF OutputsJoined, IndexedClosed, IndexedDrained,
      IndexersJoined, FilledClosed, FilledDrained, LockReleased, CaptureJoined, MainGoto
  <2>2. CASE TestDb \/ LeaveRun
        BY <2>1, <2>2 DEF PhaseOK, TestDb, LeaveRun
  <2>3. CASE ShutdownCapture
        BY <2>1, <2>3 DEF PhaseOK, ShutdownCapture, StopThread, StopDone, Joined, Unlock
  <2>c. ASSUME NEW T \in SUBSET Thread
        PROVE  \A t \in Thread : Broadcast(pc, T)[t] = pc[t] \/ pc[t] = "waiting"
        BY DEF Broadcast, Waiters, TypeOK
  <2>4. CASE ShutdownIndexers
    <3>1. CASE CloseQueue("close_filled", "filled", Indexer, "stop_index")
          BY <2>1, <3>1, <2>c DEF CloseQueue, PhaseOK
    <3> QED BY <2>4, <2>1, <3>1 DEF PhaseOK, ShutdownIndexers, StopThread, StopDone, Joined, Drained
  <2>5. CASE ShutdownOutputs
    <3>1. CASE CloseQueue("close_indexed", "indexed", Output, "stop_output")
          BY <2>1, <3>1, <2>c DEF CloseQueue, PhaseOK
    <3> QED BY <2>5, <2>1, <3>1 DEF PhaseOK, ShutdownOutputs, StopThread, StopDone, Joined, Drained
  <2>6. CASE FreeBuckets
        BY <2>1, <2>6 DEF PhaseOK, FreeBuckets
  <2> QED BY <1>5, <2>1, <2>2, <2>3, <2>4, <2>5, <2>6 DEF MainStep
<1>6. CASE ReceiveSignal \/ DbChange
      BY <1>6 DEF ReceiveSignal, DbChange, HoldOK, PhaseOK
<1>7. ASSUME NEW t \in Thread, SpuriousWakeup(t) PROVE HoldOK' /\ PhaseOK'
  <2>1. HoldOK'
        BY <1>7 DEF SpuriousWakeup, HoldOK, TypeOK
  <2>2. PhaseOK'
        BY <1>7 DEF SpuriousWakeup, PhaseOK, TypeOK
  <2> QED BY <2>1, <2>2
<1>8. CASE UNCHANGED vars
      BY <1>8 DEF vars, HoldOK, PhaseOK
<1> QED
    BY <1>1, <1>2, <1>3, <1>4, <1>5, <1>6, <1>7, <1>8 DEF Next, Running, Terminated


-----------------------------------------------------------------------------
(* Buckets: where they are, and that each is in one place.                 *)

LEMMA ElementsEmpty == Elements(<<>>) = {} /\ Distinct(<<>>)
BY DEF Elements, Distinct

LEMMA ElementsAppend ==
    ASSUME NEW S, NEW s \in Seq(S), NEW e \in S
    PROVE  /\ Elements(Append(s, e)) = Elements(s) \cup {e}
           /\ Distinct(s) /\ e \notin Elements(s) => Distinct(Append(s, e))
<1> DEFINE a == Append(s, e)
<1>1. /\ Len(a) = Len(s) + 1 /\ Len(s) \in Nat
      /\ \A k \in 1..Len(s) : a[k] = s[k]
      /\ a[Len(s) + 1] = e
      BY AppendProperties
<1> HIDE DEF a
<1>2. Elements(a) = Elements(s) \cup {e}
  <2>1. \A k \in 1..Len(a) : k \in 1..Len(s) \/ k = Len(s) + 1
        BY <1>1
  <2>2. \A k \in 1..Len(s) : k \in 1..Len(a)
        BY <1>1
  <2>3. Len(s) + 1 \in 1..Len(a)
        BY <1>1
  <2> QED BY <1>1, <2>1, <2>2, <2>3 DEF Elements
<1>3. ASSUME Distinct(s), e \notin Elements(s) PROVE Distinct(a)
  <2> SUFFICES ASSUME NEW j \in 1..Len(a), NEW k \in 1..Len(a), a[j] = a[k] PROVE j = k
      BY DEF Distinct
  <2>1. CASE j \in 1..Len(s) /\ k \in 1..Len(s)
        BY <1>1, <1>3, <2>1 DEF Distinct
  <2>2. CASE j \in 1..Len(s) /\ k = Len(s) + 1
        BY <1>1, <1>3, <2>2 DEF Elements
  <2>3. CASE j = Len(s) + 1 /\ k \in 1..Len(s)
        BY <1>1, <1>3, <2>3 DEF Elements
  <2>4. CASE j = Len(s) + 1 /\ k = Len(s) + 1
        BY <2>4
  <2> QED BY <1>1, <2>1, <2>2, <2>3, <2>4
<1> QED BY <1>2, <1>3 DEF a

LEMMA ElementsTail ==
    ASSUME NEW S, NEW s \in Seq(S), s # <<>>, Distinct(s)
    PROVE  /\ Elements(Tail(s)) = Elements(s) \ {Head(s)}
           /\ Head(s) \in Elements(s)
           /\ Distinct(Tail(s))
<1> DEFINE a == Tail(s)
<1>1. /\ Len(a) = Len(s) - 1 /\ Len(s) \in Nat \ {0}
      /\ \A k \in 1..Len(a) : a[k] = s[k+1]
      /\ Head(s) = s[1]
      BY HeadTailProperties, EmptySeq
<1> HIDE DEF a
<1>2. Elements(a) = Elements(s) \ {s[1]}
  <2>1. \A k \in 1..Len(a) : k + 1 \in 1..Len(s) /\ k + 1 # 1
        BY <1>1
  <2>2. \A k \in 1..Len(s) : k = 1 \/ (k - 1 \in 1..Len(a) /\ a[k-1] = s[k])
        BY <1>1
  <2>3. 1 \in 1..Len(s)
        BY <1>1
  <2>4. Elements(a) \subseteq Elements(s) \ {s[1]}
        BY <1>1, <2>1, <2>3 DEF Elements, Distinct
  <2>5. Elements(s) \ {s[1]} \subseteq Elements(a)
        BY <2>2 DEF Elements
  <2> QED BY <2>4, <2>5
<1>3. Distinct(a)
  <2> SUFFICES ASSUME NEW j \in 1..Len(a), NEW k \in 1..Len(a), a[j] = a[k] PROVE j = k
      BY DEF Distinct
  <2>1. j + 1 \in 1..Len(s) /\ k + 1 \in 1..Len(s) /\ s[j+1] = s[k+1]
        BY <1>1
  <2>2. j + 1 = k + 1
        BY <2>1 DEF Distinct
  <2> QED BY <2>2
<1>4. s[1] \in Elements(s)
      BY <1>1 DEF Elements
<1> QED BY <1>1, <1>2, <1>3, <1>4 DEF a

\* A chain at the tail of a queue of chains.
LEMMA ChainsAppend ==
    ASSUME NEW S, NEW f \in Seq(Seq(S)), NEW c \in Seq(S), Distinct(c),
           DistinctChains(f, 1..Len(f)), AllIn(f, 1..Len(f)) \cap Elements(c) = {}
    PROVE  /\ AllIn(Append(f, c), 1..Len(Append(f, c))) = AllIn(f, 1..Len(f)) \cup Elements(c)
           /\ DistinctChains(Append(f, c), 1..Len(Append(f, c)))
<1> DEFINE a == Append(f, c)
<1>1. /\ Len(a) = Len(f) + 1 /\ Len(f) \in Nat
      /\ \A k \in 1..Len(f) : a[k] = f[k]
      /\ a[Len(f) + 1] = c
      BY AppendProperties
<1> HIDE DEF a
<1>2. \A k \in 1..Len(a) : k \in 1..Len(f) \/ k = Len(f) + 1
      BY <1>1
<1>3. \A k \in 1..Len(f) : k \in 1..Len(a)
      BY <1>1
<1>4. Len(f) + 1 \in 1..Len(a)
      BY <1>1
<1>5. AllIn(a, 1..Len(a)) = AllIn(f, 1..Len(f)) \cup Elements(c)
      BY <1>1, <1>2, <1>3, <1>4 DEF AllIn
<1>6. DistinctChains(a, 1..Len(a))
  <2> SUFFICES ASSUME NEW j \in 1..Len(a)
               PROVE  /\ Distinct(a[j])
                      /\ \A k \in 1..Len(a) \ {j} : Elements(a[j]) \cap Elements(a[k]) = {}
      BY DEF DistinctChains
  <2>0. \A k \in 1..Len(f) : Elements(f[k]) \cap Elements(c) = {}
        BY DEF AllIn
  <2>1. CASE j \in 1..Len(f)
    <3>1. Distinct(a[j])
          BY <1>1, <2>1 DEF DistinctChains
    <3>2. ASSUME NEW k \in 1..Len(a) \ {j} PROVE Elements(a[j]) \cap Elements(a[k]) = {}
      <4>1. CASE k \in 1..Len(f)
            BY <1>1, <2>1, <4>1 DEF DistinctChains
      <4>2. CASE k = Len(f) + 1
            BY <1>1, <2>0, <2>1, <4>2
      <4> QED BY <1>2, <4>1, <4>2
    <3> QED BY <3>1, <3>2
  <2>2. CASE j = Len(f) + 1
    <3>1. Distinct(a[j])
          BY <1>1, <2>2
    <3>2. \A k \in 1..Len(a) \ {j} : k \in 1..Len(f)
          BY <1>2, <2>2
    <3> QED BY <1>1, <2>0, <2>2, <3>1, <3>2
  <2> QED BY <1>2, <2>1, <2>2
<1> QED BY <1>5, <1>6 DEF a

\* The chain at the head of a queue of chains is taken.
LEMMA ChainsTail ==
    ASSUME NEW S, NEW f \in Seq(Seq(S)), f # <<>>, DistinctChains(f, 1..Len(f))
    PROVE  /\ AllIn(Tail(f), 1..Len(Tail(f))) = AllIn(f, 1..Len(f)) \ Elements(Head(f))
           /\ Elements(Head(f)) \subseteq AllIn(f, 1..Len(f))
           /\ DistinctChains(Tail(f), 1..Len(Tail(f)))
           /\ Distinct(Head(f))
<1> DEFINE a == Tail(f)
<1>1. /\ Len(a) = Len(f) - 1 /\ Len(f) \in Nat \ {0}
      /\ \A k \in 1..Len(a) : a[k] = f[k+1]
      /\ Head(f) = f[1]
      BY HeadTailProperties, EmptySeq
<1> HIDE DEF a
<1>2. \A k \in 1..Len(a) : k + 1 \in 1..Len(f) /\ k + 1 # 1
      BY <1>1
<1>3. \A k \in 1..Len(f) : k = 1 \/ (k - 1 \in 1..Len(a) /\ a[k-1] = f[k])
      BY <1>1
<1>4. 1 \in 1..Len(f)
      BY <1>1
<1>5. AllIn(a, 1..Len(a)) = AllIn(f, 1..Len(f)) \ Elements(f[1])
  <2>1. \A k \in 1..Len(a) : Elements(a[k]) \cap Elements(f[1]) = {}
        BY <1>1, <1>2, <1>4 DEF DistinctChains
  <2>2. AllIn(a, 1..Len(a)) \subseteq AllIn(f, 1..Len(f)) \ Elements(f[1])
        BY <1>1, <1>2, <2>1 DEF AllIn
  <2>3. AllIn(f, 1..Len(f)) \ Elements(f[1]) \subseteq AllIn(a, 1..Len(a))
        BY <1>3 DEF AllIn
  <2> QED BY <2>2, <2>3
<1>6. DistinctChains(a, 1..Len(a))
  <2> SUFFICES ASSUME NEW j \in 1..Len(a)
               PROVE  /\ Distinct(a[j])
                      /\ \A k \in 1..Len(a) \ {j} : Elements(a[j]) \cap Elements(a[k]) = {}
      BY DEF DistinctChains
  <2>1. j + 1 \in 1..Len(f) /\ a[j] = f[j+1]
        BY <1>1, <1>2
  <2>2. \A k \in 1..Len(a) \ {j} : k + 1 \in 1..Len(f) \ {j + 1} /\ a[k] = f[k+1]
        BY <1>1, <1>2
  <2> QED BY <2>1, <2>2 DEF DistinctChains
<1>7. Elements(f[1]) \subseteq AllIn(f, 1..Len(f)) /\ Distinct(f[1])
      BY <1>4 DEF AllIn, DistinctChains
<1> QED BY <1>1, <1>5, <1>6, <1>7 DEF a

\* One of several chains, f[t], is replaced by c.
LEMMA ChainsExcept ==
    ASSUME NEW D, NEW f, f = [i \in D |-> f[i]], NEW t \in D, NEW c, Distinct(c),
           DistinctChains(f, D), Elements(c) \cap (AllIn(f, D) \ Elements(f[t])) = {}
    PROVE  /\ AllIn([f EXCEPT ![t] = c], D) = (AllIn(f, D) \ Elements(f[t])) \cup Elements(c)
           /\ DistinctChains([f EXCEPT ![t] = c], D)
<1> DEFINE a == [f EXCEPT ![t] = c]
<1>1. a[t] = c /\ \A i \in D \ {t} : a[i] = f[i]
      OBVIOUS
<1> HIDE DEF a
<1>2. \A i \in D \ {t} : Elements(f[i]) \cap Elements(f[t]) = {}
      BY DEF DistinctChains
<1>3. \A i \in D \ {t} : Elements(f[i]) \cap Elements(c) = {}
      BY <1>2 DEF AllIn
<1>4. AllIn(a, D) = (AllIn(f, D) \ Elements(f[t])) \cup Elements(c)
      BY <1>1, <1>2 DEF AllIn
<1>5. DistinctChains(a, D)
      BY <1>1, <1>3 DEF DistinctChains
<1> QED BY <1>4, <1>5 DEF a

LEMMA InitBucketsPlaced == Init => NoSharedBucket /\ NoLostBucket
<1> SUFFICES ASSUME Init PROVE NoSharedBucket /\ NoLostBucket
    OBVIOUS
<1>1. InFilled = {} /\ InIndexed = {}
      BY DEF Init, InFilled, InIndexed, AllIn
<1>2. HeldBy(Thread) = {}
      BY ElementsEmpty DEF Init, HeldBy, AllIn
<1>3. InReady = InitBuckets
      BY DEF Init, InReady
<1>4. Distinct(ready)
  <2>1. IsFiniteSet(InitBuckets) /\ Cardinality(InitBuckets) \in Nat
        BY BucketAssumption, FS_Subset, FS_CardinalityType
  <2> DEFINE n == Cardinality(InitBuckets)
  <2>2. IsFiniteSet(1..n) /\ Cardinality(1..n) = n
        BY <2>1, FS_Interval
  <2>3. ready \in Surjection(1..n, InitBuckets)
    <3>1. ready \in [1..n -> InitBuckets] /\ Elements(ready) = InitBuckets
          BY DEF Init
    <3> HIDE DEF n
    <3>2. ready \in Seq(InitBuckets) /\ Len(ready) = n
          BY <2>1, <3>1 DEF n
    <3>3. \A b \in InitBuckets : \E k \in 1..n : ready[k] = b
          BY <3>1, <3>2 DEF Elements
    <3> QED BY <3>1, <3>3 DEF Surjection
  <2>4. ready \in Injection(1..n, InitBuckets)
        BY <2>1, <2>2, <2>3, FS_SurjSameCardinalityImpliesInj
  <2>5. Len(ready) = n
        BY <2>1 DEF Init
  <2>6. \A j, k \in 1..n : ready[j] = ready[k] => j = k
        BY <2>4 DEF Injection, IsInjective
  <2> QED BY <2>5, <2>6 DEF Distinct
<1>5. DistinctChains(filled, 1..Len(filled)) /\ DistinctChains(indexed, 1..Len(indexed))
      BY DEF Init, DistinctChains
<1>6. DistinctChains(hold, Thread)
      BY ElementsEmpty DEF Init, DistinctChains
<1>7. unallocated = Bucket \ InitBuckets /\ InitBuckets \subseteq Bucket
      BY BucketAssumption DEF Init
<1> QED BY <1>1, <1>2, <1>3, <1>4, <1>5, <1>6, <1>7 DEF NoSharedBucket, NoLostBucket

Placed == NoSharedBucket /\ NoLostBucket

\* A bucket goes from the ready queue to the end of a thread's chain.
LEMMA BucketTaken ==
    ASSUME TypeOK, Placed, NEW t \in Thread, ready # <<>>, ready' = Tail(ready),
           hold' = [hold EXCEPT ![t] = Append(hold[t], Head(ready))],
           UNCHANGED <<filled, indexed, unallocated>>
    PROVE  Placed'
<1> DEFINE b == Head(ready)
           c == Append(hold[t], b)
<1>1. b \in InReady /\ InReady' = InReady \ {b} /\ Distinct(ready')
      BY ElementsTail DEF TypeOK, Placed, NoSharedBucket, InReady
<1>2. b \in Bucket /\ hold[t] \in Seq(Bucket) /\ hold \in [Thread -> Seq(Bucket)]
      BY HeadTailProperties DEF TypeOK
<1>3. DistinctChains(hold, Thread) /\ Distinct(hold[t]) /\ Elements(hold[t]) \subseteq HeldBy(Thread)
      BY DEF Placed, NoSharedBucket, DistinctChains, HeldBy, AllIn
<1>4. b \notin HeldBy(Thread)
      BY <1>1 DEF Placed, NoSharedBucket
<1>5. Elements(c) = Elements(hold[t]) \cup {b} /\ Distinct(c)
      BY <1>2, <1>3, <1>4, ElementsAppend
<1> HIDE DEF b, c
<1>6. HeldBy(Thread)' = HeldBy(Thread) \cup {b} /\ DistinctChains(hold', Thread)
  <2>1. Elements(c) \cap (AllIn(hold, Thread) \ Elements(hold[t])) = {}
        BY <1>4, <1>5 DEF HeldBy
  <2>2. hold = [u \in Thread |-> hold[u]] /\ hold' = [hold EXCEPT ![t] = c]
        BY <1>2 DEF c, b
  <2>3. /\ AllIn(hold', Thread) = (AllIn(hold, Thread) \ Elements(hold[t])) \cup Elements(c)
        /\ DistinctChains(hold', Thread)
    <3>1. /\ AllIn([hold EXCEPT ![t] = c], Thread) = (AllIn(hold, Thread) \ Elements(hold[t])) \cup Elements(c)
          /\ DistinctChains([hold EXCEPT ![t] = c], Thread)
          BY ONLY <1>3, <1>5, <2>1, <2>2, t \in Thread, ChainsExcept, Zenon
    <3> QED BY <2>2, <3>1
  <2> QED BY <1>3, <1>5, <2>3 DEF HeldBy
<1>7. InFilled' = InFilled /\ InIndexed' = InIndexed
      BY DEF InFilled, InIndexed
<1> QED BY <1>1, <1>6, <1>7 DEF Placed, NoSharedBucket, NoLostBucket

\* A thread gives its chain away and keeps nothing: what the chain's buckets
\* leave behind.
LEMMA ChainGiven ==
    ASSUME TypeOK, Placed, NEW t \in Thread, hold' = [hold EXCEPT ![t] = <<>>]
    PROVE  /\ HeldBy(Thread)' = HeldBy(Thread) \ Elements(hold[t])
           /\ DistinctChains(hold', Thread)
           /\ Elements(hold[t]) \subseteq HeldBy(Thread)
           /\ Distinct(hold[t])
<1>1. hold = [u \in Thread |-> hold[u]]
      BY DEF TypeOK
<1>2. DistinctChains(hold, Thread) /\ Distinct(hold[t]) /\ Elements(hold[t]) \subseteq HeldBy(Thread)
      BY DEF Placed, NoSharedBucket, DistinctChains, HeldBy, AllIn
<1>3. /\ AllIn(hold', Thread) = (AllIn(hold, Thread) \ Elements(hold[t])) \cup Elements(<<>>)
      /\ DistinctChains(hold', Thread)
      BY <1>1, <1>2, ElementsEmpty, ChainsExcept
<1> QED BY <1>2, <1>3, ElementsEmpty DEF HeldBy

\* A thread that holds nothing takes a chain no thread holds.
LEMMA ChainTaken ==
    ASSUME TypeOK, Placed, NEW t \in Thread, hold[t] = <<>>, NEW c, Distinct(c),
           Elements(c) \cap HeldBy(Thread) = {}, hold' = [hold EXCEPT ![t] = c]
    PROVE  /\ HeldBy(Thread)' = HeldBy(Thread) \cup Elements(c)
           /\ DistinctChains(hold', Thread)
<1>1. hold = [u \in Thread |-> hold[u]]
      BY DEF TypeOK
<1>2. DistinctChains(hold, Thread)
      BY DEF Placed, NoSharedBucket
<1>3. /\ AllIn(hold', Thread) = (AllIn(hold, Thread) \ Elements(hold[t])) \cup Elements(c)
      /\ DistinctChains(hold', Thread)
      BY <1>1, <1>2, ChainsExcept DEF HeldBy
<1> QED BY <1>3, ElementsEmpty DEF HeldBy

\* A chain goes from a thread to the filled queue.
LEMMA ChainFilled ==
    ASSUME TypeOK, Placed, NEW t \in Thread, filled' = Append(filled, hold[t]),
           hold' = [hold EXCEPT ![t] = <<>>], UNCHANGED <<ready, indexed, unallocated>>
    PROVE  Placed'
<1>1. /\ HeldBy(Thread)' = HeldBy(Thread) \ Elements(hold[t]) /\ DistinctChains(hold', Thread)
      /\ Elements(hold[t]) \subseteq HeldBy(Thread) /\ Distinct(hold[t])
      BY ChainGiven
<1>2. filled \in Seq(Seq(Bucket)) /\ hold[t] \in Seq(Bucket)
      BY DEF TypeOK
<1>3. DistinctChains(filled, 1..Len(filled)) /\ AllIn(filled, 1..Len(filled)) \cap Elements(hold[t]) = {}
      BY <1>1 DEF Placed, NoSharedBucket, InFilled
<1>4. InFilled' = InFilled \cup Elements(hold[t]) /\ DistinctChains(filled', 1..Len(filled'))
      BY <1>1, <1>2, <1>3, ChainsAppend DEF InFilled
<1>5. InReady' = InReady /\ InIndexed' = InIndexed
      BY DEF InReady, InIndexed
<1> QED BY <1>1, <1>4, <1>5 DEF Placed, NoSharedBucket, NoLostBucket

\* A chain goes from a thread to the indexed queue.
LEMMA ChainIndexed ==
    ASSUME TypeOK, Placed, NEW t \in Thread, indexed' = Append(indexed, hold[t]),
           hold' = [hold EXCEPT ![t] = <<>>], UNCHANGED <<ready, filled, unallocated>>
    PROVE  Placed'
<1>1. /\ HeldBy(Thread)' = HeldBy(Thread) \ Elements(hold[t]) /\ DistinctChains(hold', Thread)
      /\ Elements(hold[t]) \subseteq HeldBy(Thread) /\ Distinct(hold[t])
      BY ChainGiven
<1>2. indexed \in Seq(Seq(Bucket)) /\ hold[t] \in Seq(Bucket)
      BY DEF TypeOK
<1>3. DistinctChains(indexed, 1..Len(indexed)) /\ AllIn(indexed, 1..Len(indexed)) \cap Elements(hold[t]) = {}
      BY <1>1 DEF Placed, NoSharedBucket, InIndexed
<1>4. InIndexed' = InIndexed \cup Elements(hold[t]) /\ DistinctChains(indexed', 1..Len(indexed'))
      BY <1>1, <1>2, <1>3, ChainsAppend DEF InIndexed
<1>5. InReady' = InReady /\ InFilled' = InFilled
      BY DEF InReady, InFilled
<1> QED BY <1>1, <1>4, <1>5 DEF Placed, NoSharedBucket, NoLostBucket

\* A thread takes a chain from the filled queue.
LEMMA FilledTaken ==
    ASSUME TypeOK, Placed, NEW t \in Thread, hold[t] = <<>>, filled # <<>>,
           filled' = Tail(filled), hold' = [hold EXCEPT ![t] = Head(filled)],
           UNCHANGED <<ready, indexed, unallocated>>
    PROVE  Placed'
<1> DEFINE c == Head(filled)
<1>1. filled \in Seq(Seq(Bucket)) /\ DistinctChains(filled, 1..Len(filled))
      BY DEF TypeOK, Placed, NoSharedBucket
<1>2. /\ InFilled' = InFilled \ Elements(c) /\ Elements(c) \subseteq InFilled
      /\ DistinctChains(filled', 1..Len(filled')) /\ Distinct(c)
      BY <1>1, ChainsTail DEF InFilled
<1> HIDE DEF c
<1>3. HeldBy(Thread)' = HeldBy(Thread) \cup Elements(c) /\ DistinctChains(hold', Thread)
  <2>1. Elements(c) \cap HeldBy(Thread) = {}
        BY <1>2 DEF Placed, NoSharedBucket
  <2>2. hold' = [hold EXCEPT ![t] = c]
        BY DEF c
  <2> QED BY <1>2, <2>1, <2>2, ChainTaken
<1>4. InReady' = InReady /\ InIndexed' = InIndexed
      BY DEF InReady, InIndexed
<1> QED BY <1>2, <1>3, <1>4 DEF Placed, NoSharedBucket, NoLostBucket

\* A thread takes a chain from the indexed queue.
LEMMA IndexedTaken ==
    ASSUME TypeOK, Placed, NEW t \in Thread, hold[t] = <<>>, indexed # <<>>,
           indexed' = Tail(indexed), hold' = [hold EXCEPT ![t] = Head(indexed)],
           UNCHANGED <<ready, filled, unallocated>>
    PROVE  Placed'
<1> DEFINE c == Head(indexed)
<1>1. indexed \in Seq(Seq(Bucket)) /\ DistinctChains(indexed, 1..Len(indexed))
      BY DEF TypeOK, Placed, NoSharedBucket
<1>2. /\ InIndexed' = InIndexed \ Elements(c) /\ Elements(c) \subseteq InIndexed
      /\ DistinctChains(indexed', 1..Len(indexed')) /\ Distinct(c)
      BY <1>1, ChainsTail DEF InIndexed
<1> HIDE DEF c
<1>3. HeldBy(Thread)' = HeldBy(Thread) \cup Elements(c) /\ DistinctChains(hold', Thread)
  <2>1. Elements(c) \cap HeldBy(Thread) = {}
        BY <1>2 DEF Placed, NoSharedBucket
  <2>2. hold' = [hold EXCEPT ![t] = c]
        BY DEF c
  <2> QED BY <1>2, <2>1, <2>2, ChainTaken
<1>4. InReady' = InReady /\ InFilled' = InFilled
      BY DEF InReady, InFilled
<1> QED BY <1>2, <1>3, <1>4 DEF Placed, NoSharedBucket, NoLostBucket

\* The first bucket of a thread's chain goes back to the ready queue.
LEMMA BucketRecycled ==
    ASSUME TypeOK, Placed, NEW t \in Thread, hold[t] # <<>>,
           ready' = Append(ready, Head(hold[t])),
           hold' = [hold EXCEPT ![t] = Tail(hold[t])],
           UNCHANGED <<filled, indexed, unallocated>>
    PROVE  Placed'
<1> DEFINE b == Head(hold[t])
           c == Tail(hold[t])
<1>1. hold[t] \in Seq(Bucket) /\ hold = [u \in Thread |-> hold[u]] /\ ready \in Seq(Bucket)
      BY DEF TypeOK
<1>2. DistinctChains(hold, Thread) /\ Distinct(hold[t]) /\ Elements(hold[t]) \subseteq HeldBy(Thread)
      BY DEF Placed, NoSharedBucket, DistinctChains, HeldBy, AllIn
<1>3. Elements(c) = Elements(hold[t]) \ {b} /\ b \in Elements(hold[t]) /\ Distinct(c)
      BY <1>1, <1>2, ElementsTail
<1>4. b \in Bucket
      BY <1>1, HeadTailProperties
<1>5. InReady' = InReady \cup {b} /\ Distinct(ready')
  <2>1. b \notin Elements(ready) /\ Distinct(ready)
        BY <1>2, <1>3 DEF Placed, NoSharedBucket, InReady
  <2> QED BY <1>1, <1>4, <2>1, ElementsAppend DEF InReady
<1>6. hold' = [hold EXCEPT ![t] = c]
      OBVIOUS
<1> HIDE DEF b, c
<1>7. HeldBy(Thread)' = HeldBy(Thread) \ {b} /\ DistinctChains(hold', Thread)
  <2>1. Elements(c) \cap (AllIn(hold, Thread) \ Elements(hold[t])) = {}
        BY <1>3
  <2>2. /\ AllIn(hold', Thread) = (AllIn(hold, Thread) \ Elements(hold[t])) \cup Elements(c)
        /\ DistinctChains(hold', Thread)
    <3>1. /\ AllIn([hold EXCEPT ![t] = c], Thread) = (AllIn(hold, Thread) \ Elements(hold[t])) \cup Elements(c)
          /\ DistinctChains([hold EXCEPT ![t] = c], Thread)
          BY ONLY <1>1, <1>2, <1>3, <2>1, t \in Thread, ChainsExcept, Zenon
    <3> QED BY <1>6, <3>1
  <2> QED BY <1>2, <1>3, <2>2 DEF HeldBy
<1>8. InFilled' = InFilled /\ InIndexed' = InIndexed
      BY DEF InFilled, InIndexed
<1> QED BY <1>2, <1>3, <1>5, <1>7, <1>8 DEF Placed, NoSharedBucket, NoLostBucket

LEMMA PlacedUnchanged ==
    ASSUME Placed, UNCHANGED <<ready, filled, indexed, hold, unallocated>>
    PROVE  Placed'
BY DEF Placed, NoSharedBucket, NoLostBucket, InReady, InFilled, InIndexed, HeldBy

\* Every step keeps each bucket in one place.
LEMMA PlacedStep == TypeOK /\ HoldOK /\ PhaseOK /\ Placed /\ [Next]_vars => Placed'
<1> SUFFICES ASSUME TypeOK, HoldOK, PhaseOK, Placed, [Next]_vars PROVE Placed'
    OBVIOUS
<1> USE ThreadSets DEF queues, process, Goto, Take
<1>1. ASSUME NEW c \in Capture, CaptureStep(c) PROVE Placed'
  <2>0. c \in Thread /\ (pc[c] # "exited" => "filled" \notin closed)
        BY DEF PhaseOK, CaptureJoined, LockReleased, FilledDrained
  <2>1. CASE CaptureCheck(c) \/ DispatchReturn(c)
        BY <2>1, PlacedUnchanged DEF CaptureCheck, DispatchReturn
  <2>2. CASE NewChain(c) \/ CaptureFinal(c)
    <3>1. CASE hold[c] = <<>>
          BY <2>2, <3>1, PlacedUnchanged DEF NewChain, CaptureFinal
    <3>2. CASE hold[c] # <<>>
      <4>1. /\ filled' = Append(filled, hold[c]) /\ hold' = [hold EXCEPT ![c] = <<>>]
            /\ UNCHANGED <<ready, indexed, unallocated>>
            BY <2>0, <2>2, <3>2 DEF NewChain, CaptureFinal, SendBucket, Push
      <4> QED BY <2>0, <4>1, ChainFilled
    <3> QED BY <3>1, <3>2
  <2>3. CASE GrabBucket(c) \/ ExtendChain(c) \/ ExtendWoken(c)
    <3>1. CASE ready = <<>>
          BY <2>3, <3>1, PlacedUnchanged DEF GrabBucket, ExtendChain, ExtendWoken
    <3>2. CASE ready # <<>>
      <4>1. Head(ready) \in Bucket
            BY <3>2, HeadTailProperties DEF TypeOK
      <4>2. \A b \in Bucket : Append(<<>>, b) = <<b>>
            OBVIOUS
      <4>3. pc[c] = "grab" => <<Head(ready)>> = Append(hold[c], Head(ready))
            BY <4>1, <4>2 DEF HoldOK
      <4>4. /\ ready' = Tail(ready) /\ hold' = [hold EXCEPT ![c] = Append(hold[c], Head(ready))]
            /\ UNCHANGED <<filled, indexed, unallocated>>
            BY <2>3, <3>2, <4>3 DEF GrabBucket, ExtendChain, ExtendWoken
      <4> QED BY <2>0, <3>2, <4>4, BucketTaken
    <3> QED BY <3>1, <3>2
  <2> QED BY <1>1, <2>1, <2>2, <2>3 DEF CaptureStep
<1>2. ASSUME NEW i \in Indexer, IndexerStep(i) PROVE Placed'
  <2>1. CASE IndexerCheck(i)
        BY <2>1, PlacedUnchanged DEF IndexerCheck
  <2>2. CASE IndexerPop(i)
    <3>1. CASE ~CanPop(filled, "filled", closed)
          BY <2>2, <3>1, PlacedUnchanged DEF IndexerPop
    <3>2. CASE CanPop(filled, "filled", closed)
      <4>1. /\ filled # <<>> /\ hold[i] = <<>> /\ filled' = Tail(filled)
            /\ hold' = [hold EXCEPT ![i] = Head(filled)] /\ UNCHANGED <<ready, indexed, unallocated>>
            BY <2>2, <3>2 DEF IndexerPop, CanPop, HoldOK
      <4> QED BY <4>1, FilledTaken
    <3> QED BY <3>1, <3>2
  <2>3. CASE IndexerPush(i)
    <3>1. "indexed" \notin closed
          BY <2>3 DEF IndexerPush, PhaseOK, IndexersJoined, IndexedDrained
    <3>2. /\ indexed' = Append(indexed, hold[i]) /\ hold' = [hold EXCEPT ![i] = <<>>]
          /\ UNCHANGED <<ready, filled, unallocated>>
          BY <2>3, <3>1 DEF IndexerPush, Push
    <3> QED BY <3>2, ChainIndexed
  <2> QED BY <1>2, <2>1, <2>2, <2>3 DEF IndexerStep
<1>3. ASSUME NEW o \in Output, OutputStep(o) PROVE Placed'
  <2>1. CASE OutputCheck(o) \/ OutputBucket(o)
        BY <2>1, PlacedUnchanged DEF OutputCheck, OutputBucket
  <2>2. CASE OutputPop(o)
    <3>1. CASE ~CanPop(indexed, "indexed", closed)
          BY <2>2, <3>1, PlacedUnchanged DEF OutputPop
    <3>2. CASE CanPop(indexed, "indexed", closed)
      <4>1. /\ indexed # <<>> /\ hold[o] = <<>> /\ indexed' = Tail(indexed)
            /\ hold' = [hold EXCEPT ![o] = Head(indexed)] /\ UNCHANGED <<ready, filled, unallocated>>
            BY <2>2, <3>2 DEF OutputPop, CanPop, HoldOK
      <4> QED BY <4>1, IndexedTaken
    <3> QED BY <3>1, <3>2
  <2>3. CASE Recycle(o)
    <3>1. /\ hold[o] # <<>> /\ ready' = Append(ready, Head(hold[o]))
          /\ hold' = [hold EXCEPT ![o] = Tail(hold[o])]
          /\ UNCHANGED <<filled, indexed, unallocated>>
          BY <2>3 DEF Recycle
    <3> QED BY <3>1, BucketRecycled
  <2> QED BY <1>3, <2>1, <2>2, <2>3 DEF OutputStep
<1>4. CASE AllocateBucket
  <2>1. PICK b \in unallocated : /\ ready' = Append(ready, b) /\ unallocated' = unallocated \ {b}
                                 /\ UNCHANGED <<filled, indexed, hold>>
        BY <1>4 DEF AllocateBucket
  <2>2. b \in Bucket /\ b \notin Elements(ready) /\ Distinct(ready) /\ ready \in Seq(Bucket)
        BY DEF TypeOK, Placed, NoSharedBucket, InReady
  <2>3. InReady' = InReady \cup {b} /\ Distinct(ready')
        BY <2>1, <2>2, ElementsAppend DEF InReady
  <2>4. InFilled' = InFilled /\ InIndexed' = InIndexed /\ HeldBy(Thread)' = HeldBy(Thread)
        BY <2>1 DEF InFilled, InIndexed, HeldBy
  <2> QED BY <2>1, <2>3, <2>4 DEF Placed, NoSharedBucket, NoLostBucket
<1>5. CASE MainStep
  <2>1. CASE FreeBuckets
    <3>1. /\ ready' = <<>> /\ unallocated' = unallocated \cup InReady
          /\ UNCHANGED <<filled, indexed, hold>>
          BY <2>1 DEF FreeBuckets, InReady
    <3>2. InReady' = {} /\ Distinct(ready')
          BY <3>1, ElementsEmpty DEF InReady
    <3>3. InFilled' = InFilled /\ InIndexed' = InIndexed /\ HeldBy(Thread)' = HeldBy(Thread)
          BY <3>1 DEF InFilled, InIndexed, HeldBy
    <3> QED BY <3>1, <3>2, <3>3 DEF Placed, NoSharedBucket, NoLostBucket
  <2>2. CASE UNCHANGED <<ready, filled, indexed, hold, unallocated>>
        BY <2>2, PlacedUnchanged
  <2> QED BY <1>5, <2>1, <2>2 DEF MainStep, TestDb, LeaveRun, ShutdownCapture, StopThread,
             StopDone, Joined, Unlock, ShutdownIndexers, Drained, CloseQueue, ShutdownOutputs
<1>6. CASE ReceiveSignal \/ DbChange
      BY <1>6, PlacedUnchanged DEF ReceiveSignal, DbChange
<1>7. ASSUME NEW t \in Thread, SpuriousWakeup(t) PROVE Placed'
      BY <1>7, PlacedUnchanged DEF SpuriousWakeup
<1>8. CASE UNCHANGED vars
      BY <1>8, PlacedUnchanged DEF vars
<1> QED
    BY <1>1, <1>2, <1>3, <1>4, <1>5, <1>6, <1>7, <1>8 DEF Next, Running, Terminated


-----------------------------------------------------------------------------
(* Wakeups: no item of a queue is left while a thread waits for one.       *)

Woken(pcs, T) == {t \in T : pcs[t] = "woken"}

\* NoLostWakeupOn for a queue of n items, with its parts as parameters.
WakeOK(pcs, T, name, cl, n) ==
    Waiters(pcs, T) # {} => name \notin cl /\ n <= Cardinality(Woken(pcs, T))

LEMMA WakeParts ==
    NoLostWakeup <=>
        /\ WakeOK(pc, Capture, "ready", closed, Len(ready))
        /\ WakeOK(pc, Indexer, "filled", closed, Len(filled))
        /\ WakeOK(pc, Output, "indexed", closed, Len(indexed))
BY DEF NoLostWakeup, NoLostWakeupOn, WakeOK, Woken

LEMMA WokenFinite ==
    ASSUME NEW pcs, NEW T \in SUBSET Thread
    PROVE  IsFiniteSet(Woken(pcs, T)) /\ Cardinality(Woken(pcs, T)) \in Nat
<1>1. Woken(pcs, T) \subseteq Thread
      BY DEF Woken
<1> QED BY <1>1, ThreadAssumption, FS_Subset, FS_CardinalityType

\* Fewer threads wait, more are woken, no item came.
LEMMA WakeMono ==
    ASSUME NEW T \in SUBSET Thread, NEW old, NEW new, NEW name, NEW cl,
           NEW m \in Nat, NEW n \in Nat, m <= n,
           Waiters(new, T) \subseteq Waiters(old, T), Woken(old, T) \subseteq Woken(new, T),
           WakeOK(old, T, name, cl, n)
    PROVE  WakeOK(new, T, name, cl, m)
<1>1. /\ Cardinality(Woken(old, T)) \in Nat /\ Cardinality(Woken(new, T)) \in Nat
      /\ Cardinality(Woken(old, T)) <= Cardinality(Woken(new, T))
      BY WokenFinite, FS_Subset
<1> QED BY <1>1 DEF WakeOK

\* The same, for threads that did not move.
LEMMA WakeSame ==
    ASSUME NEW T \in SUBSET Thread, NEW old, NEW new, NEW name, NEW cl,
           NEW m \in Nat, NEW n \in Nat, m <= n, \A t \in T : new[t] = old[t],
           WakeOK(old, T, name, cl, n)
    PROVE  WakeOK(new, T, name, cl, m)
<1>1. Waiters(new, T) \subseteq Waiters(old, T) /\ Woken(old, T) \subseteq Woken(new, T)
      BY DEF Waiters, Woken
<1> QED BY ONLY <1>1, WakeMono, T \in SUBSET Thread, m \in Nat, n \in Nat, m <= n,
           WakeOK(old, T, name, cl, n)

LEMMA WakeEmpty ==
    ASSUME NEW T \in SUBSET Thread, NEW pcs, NEW name, NEW cl, name \notin cl
    PROVE  WakeOK(pcs, T, name, cl, 0)
<1>1. Cardinality(Woken(pcs, T)) \in Nat
      BY WokenFinite
<1> QED BY <1>1 DEF WakeOK

\* A woken thread takes an item.
LEMMA WakeTaken ==
    ASSUME NEW T \in SUBSET Thread, NEW old, NEW new, NEW name, NEW cl,
           NEW m \in Nat, NEW n \in Nat, n = m + 1, NEW t \in T, old[t] = "woken",
           new[t] # "waiting", new[t] # "woken", \A u \in T \ {t} : new[u] = old[u],
           WakeOK(old, T, name, cl, n)
    PROVE  WakeOK(new, T, name, cl, m)
<1>1. Waiters(new, T) = Waiters(old, T) /\ Woken(new, T) = Woken(old, T) \ {t} /\ t \in Woken(old, T)
      BY DEF Waiters, Woken
<1>2. /\ Cardinality(Woken(new, T)) = Cardinality(Woken(old, T)) - 1
      /\ Cardinality(Woken(old, T)) \in Nat
  <2>1. IsFiniteSet(Woken(old, T)) /\ Cardinality(Woken(old, T)) \in Nat
        BY WokenFinite
  <2>2. Cardinality(Woken(old, T) \ {t}) = Cardinality(Woken(old, T)) - 1
        BY ONLY <1>1, <2>1, FS_RemoveElement
  <2> QED BY <1>1, <2>1, <2>2
<1> QED BY <1>1, <1>2 DEF WakeOK

\* An item comes and one waiter is signalled.
LEMMA WakeSignal ==
    ASSUME NEW T \in SUBSET Thread, NEW old \in [Thread -> Labels], NEW new \in Signal(old, T),
           NEW name, NEW cl, NEW m \in Nat, NEW n \in Nat, m = n + 1,
           WakeOK(old, T, name, cl, n)
    PROVE  WakeOK(new, T, name, cl, m)
<1>1. CASE Waiters(old, T) = {}
      BY <1>1 DEF Signal, WakeOK
<1>2. CASE Waiters(old, T) # {}
  <2>1. PICK t \in Waiters(old, T) : new = [old EXCEPT ![t] = "woken"]
        BY <1>2 DEF Signal
  <2>2. t \in T /\ old[t] = "waiting" /\ t \in Thread
        BY DEF Waiters
  <2>3. Woken(new, T) = Woken(old, T) \cup {t} /\ t \notin Woken(old, T)
        BY <2>1, <2>2 DEF Woken
  <2>4. /\ Cardinality(Woken(new, T)) = Cardinality(Woken(old, T)) + 1
        /\ Cardinality(Woken(old, T)) \in Nat
        BY <2>3, WokenFinite, FS_AddElement
  <2> QED BY <1>2, <2>4 DEF WakeOK
<1> QED BY <1>1, <1>2

\* A thread outside T moves to the label l and signals T for the item it pushed.
LEMMA WakePush ==
    ASSUME NEW T \in SUBSET Thread, NEW old \in [Thread -> Labels], NEW t \in Thread, t \notin T,
           NEW l \in Labels, NEW new \in Signal([old EXCEPT ![t] = l], T),
           NEW name, NEW cl, NEW m \in Nat, NEW n \in Nat, m = n + 1,
           WakeOK(old, T, name, cl, n)
    PROVE  WakeOK(new, T, name, cl, m)
<1> DEFINE p == [old EXCEPT ![t] = l]
<1>1. p \in [Thread -> Labels] /\ (\A u \in T : p[u] = old[u]) /\ new \in Signal(p, T)
      OBVIOUS
<1> HIDE DEF p
<1>2. WakeOK(p, T, name, cl, n)
      BY <1>1, WakeSame
<1> QED BY ONLY <1>1, <1>2, WakeSignal, T \in SUBSET Thread, m \in Nat, n \in Nat, m = n + 1

LEMMA InitWakeup == Init => NoLostWakeup
<1> SUFFICES ASSUME Init PROVE NoLostWakeup
    OBVIOUS
<1>1. \A T \in SUBSET Thread : Waiters(pc, T) = {}
      BY DEF Init, Waiters
<1> QED BY <1>1, ThreadSets, WakeParts DEF WakeOK

\* Every step keeps the wakeups.
LEMMA WakeStep == TypeOK /\ HoldOK /\ PhaseOK /\ NoLostWakeup /\ [Next]_vars => NoLostWakeup'
<1> SUFFICES ASSUME TypeOK, HoldOK, PhaseOK, NoLostWakeup, [Next]_vars PROVE NoLostWakeup'
    OBVIOUS
<1> DEFINE R == WakeOK(pc, Capture, "ready", closed, Len(ready))
           F == WakeOK(pc, Indexer, "filled", closed, Len(filled))
           X == WakeOK(pc, Output, "indexed", closed, Len(indexed))
<1>0. R /\ F /\ X
      BY WakeParts
<1>q. WakeOK(pc', Capture, "ready", closed', Len(ready')) /\ WakeOK(pc', Indexer, "filled", closed', Len(filled'))
      /\ WakeOK(pc', Output, "indexed", closed', Len(indexed')) => NoLostWakeup'
      BY DEF NoLostWakeup, NoLostWakeupOn, WakeOK, Woken
<1>t. TypeOK'
      BY TypeStep
<1>l. /\ Len(ready) \in Nat /\ Len(filled) \in Nat /\ Len(indexed) \in Nat
      /\ Len(ready') \in Nat /\ Len(filled') \in Nat /\ Len(indexed') \in Nat
      BY <1>t, LenProperties DEF TypeOK
<1>p. pc \in [Thread -> Labels] /\ pc' \in [Thread -> Labels] /\ "ready" \notin closed
      BY <1>t DEF TypeOK
<1>T. Capture \in SUBSET Thread /\ Indexer \in SUBSET Thread /\ Output \in SUBSET Thread
      BY ThreadSets
<1>a. Capture \cap Indexer = {} /\ Capture \cap Output = {} /\ Indexer \cap Output = {}
      BY ThreadAssumption
<1>r. ASSUME closed' = closed, Len(ready') <= Len(ready), \A t \in Capture : pc'[t] = pc[t] PROVE R'
      BY ONLY <1>r, <1>0, <1>l, <1>T, WakeSame
<1>f. ASSUME closed' = closed, Len(filled') <= Len(filled), \A t \in Indexer : pc'[t] = pc[t] PROVE F'
      BY ONLY <1>f, <1>0, <1>l, <1>T, WakeSame
<1>x. ASSUME closed' = closed, Len(indexed') <= Len(indexed), \A t \in Output : pc'[t] = pc[t] PROVE X'
      BY ONLY <1>x, <1>0, <1>l, <1>T, WakeSame
<1>m. ASSUME NEW T \in SUBSET Thread, NEW name, NEW n \in Nat, WakeOK(pc, T, name, closed, n),
             NEW m \in Nat, m <= n, NEW t \in Thread, closed' = closed,
             pc[t] # "woken" \/ pc'[t] = "woken", pc'[t] # "waiting",
             \A u \in Thread \ {t} : pc'[u] = pc[u]
      PROVE  WakeOK(pc', T, name, closed', m)
  <2>1. Waiters(pc', T) \subseteq Waiters(pc, T) /\ Woken(pc, T) \subseteq Woken(pc', T)
        BY <1>m, <1>p DEF Waiters, Woken
  <2> QED BY ONLY <2>1, <1>m, WakeMono
<1> HIDE DEF R, F, X
<1> USE DEF queues, process, Goto, Take
<1>h. ready # <<>> => Len(Tail(ready)) = Len(ready) - 1
      BY HeadTailProperties DEF TypeOK
<1>1. ASSUME NEW c \in Capture, CaptureStep(c) PROVE NoLostWakeup'
  <2>0. c \in Thread /\ closed' = closed /\ c \notin Indexer /\ c \notin Output
        BY <1>1, <1>a, <1>T DEF CaptureStep, CaptureCheck, DispatchReturn, NewChain, GrabBucket, ExtendChain,
           ExtendWoken, CaptureFinal
  <2>1. CASE CaptureCheck(c) \/ DispatchReturn(c) \/ GrabBucket(c) \/ ExtendChain(c) \/ ExtendWoken(c)
    <3>1. /\ \A u \in Thread \ {c} : pc'[u] = pc[u]
          /\ filled' = filled /\ indexed' = indexed /\ Len(ready') <= Len(ready)
          BY <2>1, <1>p, <1>l, <1>h DEF CaptureCheck, DispatchReturn, GrabBucket, ExtendChain, ExtendWoken
    <3>2. F' /\ X'
          BY <2>0, <3>1, <1>f, <1>x, <1>l, <1>T
    <3>3. R'
      <4>1. CASE pc[c] = "woken" /\ ready # <<>>
        <5>1. /\ pc'[c] = "dispatch" /\ Len(ready) = Len(ready') + 1
          <6>1. ExtendWoken(c)
                BY <2>1, <4>1 DEF CaptureCheck, DispatchReturn, GrabBucket, ExtendChain
          <6>2. pc' = [pc EXCEPT ![c] = "dispatch"] /\ ready' = Tail(ready)
                BY <4>1, <6>1 DEF ExtendWoken
          <6> QED BY <6>2, <4>1, <1>p, <1>h, <1>l, <2>0
        <5>2. \A u \in Capture \ {c} : pc'[u] = pc[u]
              BY <3>1, <1>T
        <5>3. pc'[c] # "waiting" /\ pc'[c] # "woken"
              BY <5>1
        <5> QED BY ONLY <2>0, <4>1, <5>1, <5>2, <5>3, <1>0, <1>l, <1>T, WakeTaken, c \in Capture DEF R
      <4>2. CASE pc[c] = "woken" /\ ready = <<>>
        <5>1. pc' = pc /\ ready' = ready
              BY <2>1, <4>2 DEF CaptureCheck, DispatchReturn, GrabBucket, ExtendChain, ExtendWoken
        <5> QED BY <5>1, <2>0, <1>r, <1>l
      <4>3. CASE pc'[c] = "waiting"
        <5>1. ready' = <<>>
              BY <2>1, <4>3, <1>p, <2>0 DEF CaptureCheck, DispatchReturn, GrabBucket, ExtendChain, ExtendWoken
        <5>2. Len(ready') = 0 /\ "ready" \notin closed'
              BY <5>1, <1>p, <2>0
        <5> QED BY <5>2, <1>T, WakeEmpty DEF R
      <4>4. CASE pc[c] # "woken" /\ pc'[c] # "waiting"
            BY ONLY <4>4, <2>0, <3>1, <1>m, <1>0, <1>l, <1>T DEF R
      <4> QED BY <4>1, <4>2, <4>3, <4>4
    <3> QED BY <3>2, <3>3, <1>q DEF R, F, X
  <2>2. CASE (NewChain(c) \/ CaptureFinal(c)) /\ hold[c] = <<>>
    <3>1. /\ \A u \in Thread \ {c} : pc'[u] = pc[u]
          /\ filled' = filled /\ indexed' = indexed /\ ready' = ready
          /\ pc[c] # "woken" /\ pc'[c] # "waiting"
          BY <2>2, <2>0, <1>p DEF NewChain, CaptureFinal
    <3>2. F' /\ X'
          BY <2>0, <3>1, <1>f, <1>x, <1>l, <1>T
    <3>3. Len(ready') <= Len(ready)
          BY <3>1, <1>l
    <3>4. R'
          BY ONLY <2>0, <3>1, <3>3, <1>m, <1>0, <1>l, <1>T DEF R
    <3> QED BY <3>2, <3>4, <1>q DEF R, F, X
  <2>3. CASE (NewChain(c) \/ CaptureFinal(c)) /\ hold[c] # <<>>
    <3>1. "filled" \notin closed
          BY <2>3 DEF PhaseOK, CaptureJoined, LockReleased, FilledDrained, NewChain, CaptureFinal
    <3>2. PICK l \in {"grab", "exited"} : pc' \in Signal([pc EXCEPT ![c] = l], Indexer)
          BY <2>3, <3>1 DEF NewChain, CaptureFinal, SendBucket, PushSignal
    <3>3. Len(filled') = Len(filled) + 1 /\ ready' = ready /\ indexed' = indexed
      <4>1. filled' = Append(filled, hold[c]) /\ ready' = ready /\ indexed' = indexed
            BY <2>3, <3>1 DEF NewChain, CaptureFinal, SendBucket, Push
      <4>2. filled \in Seq(Seq(Bucket)) /\ hold[c] \in Seq(Bucket)
            BY <2>0 DEF TypeOK
      <4> QED BY <4>1, <4>2, AppendProperties
    <3>4. l \in Labels /\ l # "waiting" /\ l # "woken" /\ pc[c] # "woken"
          BY <2>3 DEF Labels, NewChain, CaptureFinal
    <3>5. Moved(pc, pc', c, l, Indexer)
          BY ONLY <3>2, <3>4, <2>0, <1>p, <1>T, SignalMoves
    <3>6. F'
          BY ONLY <3>2, <3>3, <3>4, <2>0, <1>p, <1>l, <1>T, <1>0, WakePush DEF F
    <3>7. X'
          BY <2>0, <3>3, <3>5, <1>x, <1>l, <1>T, <1>a DEF Moved
    <3>8. R'
      <4>1. Waiters(pc', Capture) \subseteq Waiters(pc, Capture) /\ Woken(pc, Capture) \subseteq Woken(pc', Capture)
            BY <3>4, <3>5, <1>a, <1>T DEF Waiters, Woken, Moved
      <4>2. Len(ready') <= Len(ready)
            BY <3>3, <1>l
      <4> QED BY ONLY <4>1, <4>2, <2>0, <1>0, <1>T, <1>l, WakeMono DEF R
    <3> QED BY <3>6, <3>7, <3>8, <1>q DEF R, F, X
  <2> QED BY <1>1, <2>1, <2>2, <2>3 DEF CaptureStep
<1>2. ASSUME NEW i \in Indexer, IndexerStep(i) PROVE NoLostWakeup'
  <2>0. i \in Thread /\ closed' = closed /\ i \notin Capture /\ i \notin Output /\ ready' = ready
        BY <1>2, <1>a, <1>T DEF IndexerStep, IndexerCheck, IndexerPop, IndexerPush
  <2>1. CASE IndexerCheck(i) \/ IndexerPop(i)
    <3>1. (\A u \in Thread \ {i} : pc'[u] = pc[u]) /\ indexed' = indexed
          BY <2>1, <1>p DEF IndexerCheck, IndexerPop
    <3>2. R' /\ X'
          BY <2>0, <3>1, <1>r, <1>x, <1>l, <1>T
    <3>3. F'
      <4>1. CASE CanPop(filled, "filled", closed) /\ pc[i] \in {"pop", "woken"}
        <5>1. /\ pc'[i] = "work" /\ Len(filled) = Len(filled') + 1
          <6>1. pc'[i] = "work" /\ filled' = Tail(filled)
                BY <2>1, <2>0, <4>1, <1>p DEF IndexerCheck, IndexerPop
          <6>2. filled # <<>>
                BY <4>1 DEF CanPop
          <6>3. Len(Tail(filled)) = Len(filled) - 1
                BY <6>2, HeadTailProperties DEF TypeOK
          <6> QED BY <6>1, <6>3, <1>l
        <5>2. \A u \in Indexer \ {i} : pc'[u] = pc[u]
              BY <3>1, <1>T
        <5>3. pc'[i] # "waiting" /\ pc'[i] # "woken" /\ Len(filled') <= Len(filled)
              BY <5>1, <1>l
        <5>4. CASE pc[i] = "woken"
              BY ONLY <5>4, <2>0, <5>1, <5>2, <5>3, <1>0, <1>l, <1>T, WakeTaken, i \in Indexer DEF F
        <5>5. CASE pc[i] # "woken"
              BY ONLY <5>5, <2>0, <5>3, <3>1, <1>m, <1>0, <1>l, <1>T DEF F
        <5> QED BY <5>4, <5>5
      <4>2. CASE ~CanPop(filled, "filled", closed) /\ pc[i] \in {"pop", "woken"}
        <5>1. filled' = filled /\ (pc'[i] = "waiting" => "filled" \notin closed)
              /\ pc'[i] \in {"waiting", "check"}
              BY <2>1, <2>0, <4>2, <1>p DEF IndexerCheck, IndexerPop
        <5>2. CASE "filled" \in closed
          <6>1. Waiters(pc, Indexer) = {}
                BY <5>2, <1>0 DEF F, WakeOK
          <6>2. Waiters(pc', Indexer) = {}
                BY <6>1, <5>1, <5>2, <3>1, <1>T DEF Waiters
          <6> QED BY <6>2 DEF F, WakeOK
        <5>3. CASE "filled" \notin closed
          <6>1. filled' = <<>>
                BY <4>2, <5>1, <5>3 DEF CanPop
          <6>2. Len(filled') = 0
                BY <6>1
          <6> QED BY <6>2, <2>0, <5>3, <1>T, WakeEmpty DEF F
        <5> QED BY <5>2, <5>3
      <4>3. CASE pc[i] \notin {"pop", "woken"}
        <5>1. pc'[i] # "waiting" /\ filled' = filled /\ pc[i] # "woken"
              BY <2>1, <2>0, <4>3, <1>p DEF IndexerCheck, IndexerPop
        <5>2. Len(filled') <= Len(filled)
              BY <5>1, <1>l
        <5> QED BY ONLY <5>1, <5>2, <2>0, <3>1, <1>m, <1>0, <1>l, <1>T DEF F
      <4> QED BY <4>1, <4>2, <4>3
    <3> QED BY <3>2, <3>3, <1>q DEF R, F, X
  <2>2. CASE IndexerPush(i)
    <3>1. "indexed" \notin closed
          BY <2>2 DEF PhaseOK, IndexersJoined, IndexedDrained, IndexerPush
    <3>2. pc' \in Signal([pc EXCEPT ![i] = "check"], Output)
          BY <2>2, <3>1 DEF IndexerPush, PushSignal
    <3>3. Len(indexed') = Len(indexed) + 1 /\ filled' = filled
      <4>1. indexed' = Append(indexed, hold[i]) /\ filled' = filled
            BY <2>2, <3>1 DEF IndexerPush, Push
      <4>2. indexed \in Seq(Seq(Bucket)) /\ hold[i] \in Seq(Bucket)
            BY <2>0 DEF TypeOK
      <4> QED BY <4>1, <4>2, AppendProperties
    <3>4. "check" \in Labels /\ pc[i] # "woken"
          BY <2>2 DEF Labels, IndexerPush
    <3>5. Moved(pc, pc', i, "check", Output)
          BY ONLY <3>2, <3>4, <2>0, <1>p, <1>T, SignalMoves
    <3>6. X'
          BY ONLY <3>2, <3>3, <3>4, <2>0, <1>p, <1>l, <1>T, <1>0, WakePush DEF X
    <3>7. R'
          BY <2>0, <3>3, <3>5, <1>r, <1>l, <1>T, <1>a DEF Moved
    <3>8. F'
      <4>1. Waiters(pc', Indexer) \subseteq Waiters(pc, Indexer) /\ Woken(pc, Indexer) \subseteq Woken(pc', Indexer)
            BY <3>4, <3>5, <1>a, <1>T DEF Waiters, Woken, Moved
      <4>2. Len(filled') <= Len(filled)
            BY <3>3, <1>l
      <4> QED BY ONLY <4>1, <4>2, <2>0, <1>0, <1>T, <1>l, WakeMono DEF F
    <3> QED BY <3>6, <3>7, <3>8, <1>q DEF R, F, X
  <2> QED BY <1>2, <2>1, <2>2 DEF IndexerStep
<1>3. ASSUME NEW o \in Output, OutputStep(o) PROVE NoLostWakeup'
  <2>0. o \in Thread /\ closed' = closed /\ o \notin Capture /\ o \notin Indexer /\ filled' = filled
        BY <1>3, <1>a, <1>T DEF OutputStep, OutputCheck, OutputPop, OutputBucket, Recycle
  <2>1. CASE OutputCheck(o) \/ OutputPop(o) \/ OutputBucket(o)
    <3>1. (\A u \in Thread \ {o} : pc'[u] = pc[u]) /\ ready' = ready
          BY <2>1, <1>p DEF OutputCheck, OutputPop, OutputBucket
    <3>2. R' /\ F'
          BY <2>0, <3>1, <1>r, <1>f, <1>l, <1>T
    <3>3. X'
      <4>1. CASE CanPop(indexed, "indexed", closed) /\ pc[o] \in {"pop", "woken"}
        <5>1. /\ pc'[o] = "work" /\ Len(indexed) = Len(indexed') + 1
          <6>1. pc'[o] = "work" /\ indexed' = Tail(indexed)
                BY <2>1, <2>0, <4>1, <1>p DEF OutputCheck, OutputPop, OutputBucket
          <6>2. indexed # <<>>
                BY <4>1 DEF CanPop
          <6>3. Len(Tail(indexed)) = Len(indexed) - 1
                BY <6>2, HeadTailProperties DEF TypeOK
          <6> QED BY <6>1, <6>3, <1>l
        <5>2. \A u \in Output \ {o} : pc'[u] = pc[u]
              BY <3>1, <1>T
        <5>3. pc'[o] # "waiting" /\ pc'[o] # "woken" /\ Len(indexed') <= Len(indexed)
              BY <5>1, <1>l
        <5>4. CASE pc[o] = "woken"
              BY ONLY <5>4, <2>0, <5>1, <5>2, <5>3, <1>0, <1>l, <1>T, WakeTaken, o \in Output DEF X
        <5>5. CASE pc[o] # "woken"
              BY ONLY <5>5, <2>0, <5>3, <3>1, <1>m, <1>0, <1>l, <1>T DEF X
        <5> QED BY <5>4, <5>5
      <4>2. CASE ~CanPop(indexed, "indexed", closed) /\ pc[o] \in {"pop", "woken"}
        <5>1. indexed' = indexed /\ (pc'[o] = "waiting" => "indexed" \notin closed)
              /\ pc'[o] \in {"waiting", "check"}
              BY <2>1, <2>0, <4>2, <1>p DEF OutputCheck, OutputPop, OutputBucket
        <5>2. CASE "indexed" \in closed
          <6>1. Waiters(pc, Output) = {}
                BY <5>2, <1>0 DEF X, WakeOK
          <6>2. Waiters(pc', Output) = {}
                BY <6>1, <5>1, <5>2, <3>1, <1>T DEF Waiters
          <6> QED BY <6>2 DEF X, WakeOK
        <5>3. CASE "indexed" \notin closed
          <6>1. indexed' = <<>>
                BY <4>2, <5>1, <5>3 DEF CanPop
          <6>2. Len(indexed') = 0
                BY <6>1
          <6> QED BY <6>2, <2>0, <5>3, <1>T, WakeEmpty DEF X
        <5> QED BY <5>2, <5>3
      <4>3. CASE pc[o] \notin {"pop", "woken"}
        <5>1. pc'[o] # "waiting" /\ indexed' = indexed /\ pc[o] # "woken"
              BY <2>1, <2>0, <4>3, <1>p DEF OutputCheck, OutputPop, OutputBucket
        <5>2. Len(indexed') <= Len(indexed)
              BY <5>1, <1>l
        <5> QED BY ONLY <5>1, <5>2, <2>0, <3>1, <1>m, <1>0, <1>l, <1>T DEF X
      <4> QED BY <4>1, <4>2, <4>3
    <3> QED BY <3>2, <3>3, <1>q DEF R, F, X
  <2>2. CASE Recycle(o)
    <3>2. PICK l \in {"check", "recycle"} : pc' \in Signal([pc EXCEPT ![o] = l], Capture)
          BY <2>2 DEF Recycle
    <3>3. Len(ready') = Len(ready) + 1 /\ indexed' = indexed
      <4>1. ready' = Append(ready, Head(hold[o])) /\ indexed' = indexed /\ hold[o] # <<>>
            BY <2>2 DEF Recycle
      <4>2. ready \in Seq(Bucket) /\ Head(hold[o]) \in Bucket
            BY <2>0, <4>1, HeadTailProperties DEF TypeOK
      <4> QED BY <4>1, <4>2, AppendProperties
    <3>4. l \in Labels /\ l # "waiting" /\ l # "woken" /\ pc[o] # "woken"
          BY <2>2 DEF Labels, Recycle
    <3>5. Moved(pc, pc', o, l, Capture)
          BY ONLY <3>2, <3>4, <2>0, <1>p, <1>T, SignalMoves
    <3>6. R'
          BY ONLY <3>2, <3>3, <3>4, <2>0, <1>p, <1>l, <1>T, <1>0, WakePush DEF R
    <3>7. F'
          BY <2>0, <3>3, <3>5, <1>f, <1>l, <1>T, <1>a DEF Moved
    <3>8. X'
      <4>1. Waiters(pc', Output) \subseteq Waiters(pc, Output) /\ Woken(pc, Output) \subseteq Woken(pc', Output)
            BY <3>4, <3>5, <1>a, <1>T DEF Waiters, Woken, Moved
      <4>2. Len(indexed') <= Len(indexed)
            BY <3>3, <1>l
      <4> QED BY ONLY <4>1, <4>2, <2>0, <1>0, <1>T, <1>l, WakeMono DEF X
    <3> QED BY <3>6, <3>7, <3>8, <1>q DEF R, F, X
  <2> QED BY <1>3, <2>1, <2>2 DEF OutputStep
<1>4. CASE AllocateBucket
  <2>1. PICK b \in unallocated : ready' = Append(ready, b)
        BY <1>4 DEF AllocateBucket
  <2>2. pc' \in Signal(pc, Capture) /\ UNCHANGED <<filled, indexed, closed>>
        BY <1>4 DEF AllocateBucket
  <2>3. Len(ready') = Len(ready) + 1
    <3>1. ready \in Seq(Bucket) /\ b \in Bucket
          BY DEF TypeOK
    <3> QED BY <2>1, <3>1, AppendProperties
  <2>4. R'
        BY ONLY <2>2, <2>3, <1>p, <1>l, <1>T, <1>0, WakeSignal DEF R
  <2>5. \A t \in Indexer \cup Output : pc'[t] = pc[t]
        BY <2>2, <1>p, <1>T, <1>a DEF Signal, Waiters
  <2> QED BY <2>2, <2>4, <2>5, <1>f, <1>x, <1>l, <1>q DEF R, F, X
<1>5. CASE MainStep
  <2>1. CASE CloseQueue("close_filled", "filled", Indexer, "stop_index")
    <3>1. /\ pc' = Broadcast(pc, Indexer) /\ closed' = closed \cup {"filled"}
          /\ UNCHANGED <<ready, filled, indexed>>
          BY <2>1 DEF CloseQueue
    <3>2. /\ Waiters(pc', Indexer) = {}
          /\ \A t \in Thread \ Indexer : pc'[t] = pc[t]
          BY <3>1, <1>p, <1>T DEF Broadcast, Waiters
    <3>3. /\ Waiters(pc', Capture) = Waiters(pc, Capture) /\ Woken(pc', Capture) = Woken(pc, Capture)
          /\ Waiters(pc', Output) = Waiters(pc, Output) /\ Woken(pc', Output) = Woken(pc, Output)
          BY <3>2, <1>a, <1>T DEF Waiters, Woken
    <3>4. R' /\ F' /\ X'
          BY <3>1, <3>2, <3>3, <1>0 DEF R, F, X, WakeOK
    <3> QED BY <3>4, <1>q DEF R, F, X
  <2>2. CASE CloseQueue("close_indexed", "indexed", Output, "stop_output")
    <3>1. /\ pc' = Broadcast(pc, Output) /\ closed' = closed \cup {"indexed"}
          /\ UNCHANGED <<ready, filled, indexed>>
          BY <2>2 DEF CloseQueue
    <3>2. /\ Waiters(pc', Output) = {}
          /\ \A t \in Thread \ Output : pc'[t] = pc[t]
          BY <3>1, <1>p, <1>T DEF Broadcast, Waiters
    <3>3. /\ Waiters(pc', Capture) = Waiters(pc, Capture) /\ Woken(pc', Capture) = Woken(pc, Capture)
          /\ Waiters(pc', Indexer) = Waiters(pc, Indexer) /\ Woken(pc', Indexer) = Woken(pc, Indexer)
          BY <3>2, <1>a, <1>T DEF Waiters, Woken
    <3>4. R' /\ F' /\ X'
          BY <3>1, <3>2, <3>3, <1>0 DEF R, F, X, WakeOK
    <3> QED BY <3>4, <1>q DEF R, F, X
  <2>3. CASE closed' = closed /\ UNCHANGED <<pc, filled, indexed>> /\ (ready' = ready \/ ready' = <<>>)
    <3>1. Len(ready') <= Len(ready)
      <4>1. CASE ready' = ready
            BY <4>1, <1>l
      <4>2. CASE ready' = <<>>
        <5>1. Len(ready') = 0
              BY <4>2
        <5> QED BY <5>1, <1>l
      <4> QED BY <2>3, <4>1, <4>2
    <3> QED BY <2>3, <3>1, <1>r, <1>f, <1>x, <1>l, <1>q DEF R, F, X
  <2> QED BY <1>5, <2>1, <2>2, <2>3 DEF MainStep, TestDb, LeaveRun, ShutdownCapture, StopThread,
             StopDone, Joined, Unlock, ShutdownIndexers, Drained, ShutdownOutputs, FreeBuckets
<1>6. CASE UNCHANGED <<pc, queues>>
      BY <1>6, <1>r, <1>f, <1>x, <1>l, <1>q DEF R, F, X
<1>7. ASSUME NEW t \in Thread, SpuriousWakeup(t) PROVE NoLostWakeup'
  <2>1. /\ pc'[t] = "woken" /\ (\A u \in Thread \ {t} : pc'[u] = pc[u])
        /\ UNCHANGED <<ready, filled, indexed, closed>>
        BY <1>7, <1>p DEF SpuriousWakeup
  <2>2. pc'[t] # "waiting" /\ Len(ready') <= Len(ready) /\ Len(filled') <= Len(filled) /\ Len(indexed') <= Len(indexed)
        BY <2>1, <1>l
  <2>3. R' /\ F' /\ X'
        BY ONLY <2>1, <2>2, <1>m, <1>0, <1>l, <1>T, t \in Thread DEF R, F, X
  <2> QED BY <2>3, <1>q DEF R, F, X
<1> QED
    BY <1>1, <1>2, <1>3, <1>4, <1>5, <1>6, <1>7 DEF Next, Running, Terminated, ReceiveSignal, DbChange, vars


-----------------------------------------------------------------------------
(* The theorems.                                                           *)

\* The inductive invariant.
IInv == TypeOK /\ HoldOK /\ PhaseOK /\ NoSharedBucket /\ NoLostBucket /\ NoLostWakeup

\* The inductive invariant holds in every state of every behaviour of the
\* capture process.
THEOREM Inductive == Spec => []IInv
<1>1. Init => IInv
      BY InitType, InitControl, InitBucketsPlaced, InitWakeup DEF IInv
<1>2. IInv /\ [Next]_vars => IInv'
  <2> SUFFICES ASSUME IInv, [Next]_vars PROVE IInv'
      OBVIOUS
  <2>1. TypeOK /\ HoldOK /\ PhaseOK /\ Placed /\ NoLostWakeup
        BY DEF IInv, Placed
  <2>2. TypeOK' /\ HoldOK' /\ PhaseOK' /\ Placed' /\ NoLostWakeup'
        BY <2>1, TypeStep, ControlStep, PlacedStep, WakeStep
  <2> QED BY <2>2 DEF IInv, Placed
<1> QED BY <1>1, <1>2, PTL DEF Spec

\* No bucket is ever in two places: whatever the number of threads and buckets
\* and their interleaving, queue_pop and queue_push hand each bucket from one
\* owner to the next (bucketize.c:24-58, output.c:47-53).
THEOREM BucketsNotShared == Spec => []NoSharedBucket
<1>1. IInv => NoSharedBucket
      BY DEF IInv
<1> QED BY <1>1, Inductive, PTL

\* No bucket is ever lost: the order in which pcapdb_shutdown closes the queues
\* makes sure that no queue_push is ever refused (pcapdb.c:488-583).
THEOREM BucketsNotLost == Spec => []NoLostBucket
<1>1. IInv => NoLostBucket
      BY DEF IInv
<1> QED BY <1>1, Inductive, PTL

\* No thread sleeps on a queue that has an item nobody is coming for, and none
\* sleeps on a closed queue (queue.c:20-126).
THEOREM WakeupsNotLost == Spec => []NoLostWakeup
<1>1. IInv => NoLostWakeup
      BY DEF IInv
<1> QED BY <1>1, Inductive, PTL

\* While the process can be seen without the lock, its capture threads are gone
\* (pcapdb.c:515-525).
THEOREM LockSafe == Spec => []LockCoversCapture
<1>1. IInv => LockCoversCapture
      BY DEF IInv, LockCoversCapture, PhaseOK, HoldOK, CaptureJoined
<1> QED BY <1>1, Inductive, PTL

\* A process that ends has sent every chain through the output stage and has
\* given all its memory back (pcapdb.c:488-541).
THEOREM ExitsClean == Spec => []CleanExit
<1>1. IInv => CleanExit
  <2> SUFFICES ASSUME IInv, main = "exited" PROVE CleanExit
      BY DEF CleanExit
  <2>1. filled = <<>> /\ indexed = <<>> /\ ready = <<>>
        BY DEF IInv, PhaseOK, FilledDrained, FilledClosed, IndexersJoined, IndexedDrained,
           IndexedClosed, OutputsJoined
  <2>2. \A t \in Thread : pc[t] = "exited" /\ hold[t] = <<>>
        BY DEF IInv, PhaseOK, HoldOK, Thread, CaptureJoined, LockReleased, FilledDrained, FilledClosed,
           IndexersJoined, IndexedDrained, IndexedClosed, OutputsJoined
  <2>3. InReady = {} /\ InFilled = {} /\ InIndexed = {} /\ HeldBy(Thread) = {}
        BY <2>1, <2>2, ElementsEmpty DEF InReady, InFilled, InIndexed, HeldBy, AllIn
  <2>4. unallocated = Bucket
        BY <2>3 DEF IInv, NoLostBucket
  <2> QED BY <2>1, <2>2, <2>4 DEF CleanExit
<1> QED BY <1>1, Inductive, PTL

-----------------------------------------------------------------------------
(* The refinement: every step moves buckets the way BucketLife allows.     *)

Places == Stages \cup Thread

\* The buckets at the place p.
Holding(p) ==
    IF p = "unallocated" THEN unallocated
    ELSE IF p = "ready" THEN InReady
    ELSE IF p = "filled" THEN InFilled
    ELSE IF p = "indexed" THEN InIndexed
    ELSE Elements(hold[p])

\* Where each bucket is agrees with what each place holds.
WhereOK ==
    /\ DOMAIN Where = Bucket
    /\ \A b \in Bucket : Where[b] \in Places
    /\ \A b \in Bucket, p \in Places : Where[b] = p <=> b \in Holding(p)
    /\ \A p \in Places : Holding(p) \subseteq Bucket

HoldingIs ==
    /\ Holding("unallocated") = unallocated
    /\ Holding("ready") = InReady
    /\ Holding("filled") = InFilled
    /\ Holding("indexed") = InIndexed
    /\ \A t \in Thread : Holding(t) = Elements(hold[t])

LEMMA HoldingStages == HoldingIs /\ HoldingIs'
BY NameAssumption DEF HoldingIs, Holding, Stages

\* A place holds buckets only, and no two places the same one.
LEMMA PlacesApart ==
    ASSUME TypeOK, Placed
    PROVE  /\ \A p \in Places : Holding(p) \subseteq Bucket
           /\ \A p, q \in Places : p # q => Holding(p) \cap Holding(q) = {}
           /\ \A b \in Bucket : \E p \in Places : b \in Holding(p)
<1>1. \A t \in Thread : Elements(hold[t]) \subseteq HeldBy(Thread)
      BY DEF HeldBy, AllIn
<1>2. \A t, u \in Thread : t # u => Elements(hold[t]) \cap Elements(hold[u]) = {}
      BY DEF Placed, NoSharedBucket, DistinctChains
<1>3. \A b \in HeldBy(Thread) : \E t \in Thread : b \in Elements(hold[t])
      BY DEF HeldBy, AllIn
<1>4. \A p \in Places : Holding(p) \subseteq Bucket
      BY <1>1, HoldingStages DEF HoldingIs, Places, Stages, Placed, NoLostBucket
<1>5. \A p, q \in Stages : p # q => Holding(p) \cap Holding(q) = {}
      BY HoldingStages DEF HoldingIs, Stages, Placed, NoSharedBucket
<1>6. \A p \in Stages, t \in Thread : Holding(p) \cap Holding(t) = {}
      BY <1>1, HoldingStages DEF HoldingIs, Stages, Placed, NoSharedBucket
<1>7. \A p, q \in Places : p # q => Holding(p) \cap Holding(q) = {}
  <2>1. \A t, u \in Thread : t # u => Holding(t) \cap Holding(u) = {}
        BY <1>2, HoldingStages DEF HoldingIs
  <2> QED BY <1>5, <1>6, <2>1 DEF Places
<1>8. \A b \in Bucket : \E p \in Places : b \in Holding(p)
      BY <1>3, HoldingStages DEF HoldingIs, Places, Stages, Placed, NoLostBucket
<1> QED BY <1>4, <1>7, <1>8

LEMMA WhereIs == TypeOK /\ Placed => WhereOK
<1> SUFFICES ASSUME TypeOK, Placed PROVE WhereOK
    OBVIOUS
<1>1. DOMAIN Where = Bucket /\ \A b \in Bucket : Where[b] = Place(b)
      BY DEF Where
<1>2. ASSUME NEW b \in Bucket
      PROVE  Place(b) \in Places /\ b \in Holding(Place(b))
  <2>1. CASE b \in HeldBy(Thread)
    <3>1. PICK t \in Thread : b \in Elements(hold[t])
          BY <2>1 DEF HeldBy, AllIn
    <3>2. Place(b) = CHOOSE u \in Thread : b \in Elements(hold[u])
          BY <2>1 DEF Place, Placed, NoSharedBucket
    <3>3. Place(b) \in Thread /\ b \in Elements(hold[Place(b)])
          BY <3>1, <3>2
    <3> QED BY <3>3, HoldingStages DEF HoldingIs, Places
  <2>2. CASE b \notin HeldBy(Thread)
        BY <2>2, HoldingStages DEF HoldingIs, Place, Places, Stages, Placed, NoLostBucket
  <2> QED BY <2>1, <2>2
<1>3. \A b \in Bucket, p \in Places : Where[b] = p <=> b \in Holding(p)
      BY <1>1, <1>2, PlacesApart
<1> QED BY <1>1, <1>2, <1>3, PlacesApart DEF WhereOK

\* The buckets of S move from p to q, and nothing else changes place.
Moves(S, p, q) ==
    /\ S \subseteq Holding(p)
    /\ Holding(p)' = Holding(p) \ S
    /\ Holding(q)' = Holding(q) \cup S
    /\ \A r \in Places \ {p, q} : Holding(r)' = Holding(r)

LEMMA MovesAsLife ==
    ASSUME WhereOK, WhereOK', NEW p \in Places, NEW q \in Places, p # q, NEW S, Moves(S, p, q)
    PROVE  Life!MoveTo(S, q)
<1>1. Places' = Places
      BY DEF Places
<1>2. ASSUME NEW b \in Bucket PROVE Where'[b] = IF b \in S THEN q ELSE Where[b]
  <2>1. CASE b \in S
        BY <2>1, <1>1 DEF WhereOK, Moves
  <2>2. CASE b \notin S
    <3>1. PICK r \in Places : Where[b] = r
          BY DEF WhereOK
    <3>2. b \in Holding(r)
          BY <3>1 DEF WhereOK
    <3>3. b \in Holding(r)'
          BY <2>2, <3>2 DEF Moves
    <3>4. Where'[b] = r
          BY <3>3, <1>1 DEF WhereOK
    <3> QED BY <2>2, <3>1, <3>4
  <2> QED BY <2>1, <2>2
<1>3. Where' = [b \in Bucket |-> Where'[b]]
      BY DEF Where
<1> QED BY <1>2, <1>3 DEF Life!MoveTo

\* What BucketLife sees at a place is what the place holds.
LEMMA AtIs == ASSUME WhereOK, NEW p \in Places PROVE Life!At(p) = Holding(p)
BY DEF WhereOK, Life!At

\* Only t's chain changes.
LEMMA OneHolds ==
    ASSUME TypeOK, NEW t \in Thread, NEW c, hold' = [hold EXCEPT ![t] = c]
    PROVE  Holding(t)' = Elements(c) /\ \A u \in Thread \ {t} : Holding(u)' = Holding(u)
<1>1. hold'[t] = c /\ \A u \in Thread \ {t} : hold'[u] = hold[u]
      BY DEF TypeOK
<1>2. \A u \in Thread : Holding(u)' = Elements(hold'[u]) /\ Holding(u) = Elements(hold[u])
      BY HoldingStages DEF HoldingIs, Elements
<1> QED BY <1>1, <1>2

\* A bucket goes from the ready queue to the end of a thread's chain.
LEMMA TakenMoves ==
    ASSUME TypeOK, Placed, NEW t \in Thread, ready # <<>>, ready' = Tail(ready),
           hold' = [hold EXCEPT ![t] = Append(hold[t], Head(ready))],
           UNCHANGED <<filled, indexed, unallocated>>
    PROVE  Moves({Head(ready)}, "ready", t)
<1>1. Head(ready) \in InReady /\ InReady' = InReady \ {Head(ready)}
      BY ElementsTail DEF TypeOK, Placed, NoSharedBucket, InReady
<1>2. Elements(Append(hold[t], Head(ready))) = Elements(hold[t]) \cup {Head(ready)}
  <2>1. hold[t] \in Seq(Bucket) /\ Head(ready) \in Bucket
        BY HeadTailProperties DEF TypeOK
  <2> QED BY <2>1, ElementsAppend
<1>3. InFilled' = InFilled /\ InIndexed' = InIndexed
      BY DEF InFilled, InIndexed
<1>4. /\ Holding(t)' = Holding(t) \cup {Head(ready)}
      /\ \A u \in Thread \ {t} : Holding(u)' = Holding(u)
      BY <1>2, OneHolds, HoldingStages DEF HoldingIs
<1> QED BY <1>1, <1>3, <1>4, HoldingStages DEF HoldingIs, Moves, Places, Stages

\* A thread's chain goes to the queue of the next stage.
LEMMA SentMoves ==
    ASSUME TypeOK, Placed, NEW t \in Thread, hold' = [hold EXCEPT ![t] = <<>>],
           UNCHANGED <<ready, unallocated>>
    PROVE  /\ filled' = Append(filled, hold[t]) /\ indexed' = indexed
                => Moves(Elements(hold[t]), t, "filled")
           /\ indexed' = Append(indexed, hold[t]) /\ filled' = filled
                => Moves(Elements(hold[t]), t, "indexed")
<1>1. Distinct(hold[t]) /\ Elements(hold[t]) \subseteq HeldBy(Thread) /\ hold[t] \in Seq(Bucket)
      BY DEF TypeOK, Placed, NoSharedBucket, DistinctChains, HeldBy, AllIn
<1>2. InReady' = InReady
      BY DEF InReady
<1>3. /\ Holding(t)' = {} /\ Holding(t) = Elements(hold[t])
      /\ \A u \in Thread \ {t} : Holding(u)' = Holding(u)
      BY OneHolds, ElementsEmpty, HoldingStages DEF HoldingIs
<1>4. ASSUME filled' = Append(filled, hold[t]), indexed' = indexed
      PROVE  Moves(Elements(hold[t]), t, "filled")
  <2>1. filled \in Seq(Seq(Bucket)) /\ DistinctChains(filled, 1..Len(filled))
        /\ AllIn(filled, 1..Len(filled)) \cap Elements(hold[t]) = {}
        BY <1>1 DEF TypeOK, Placed, NoSharedBucket, InFilled
  <2>2. InFilled' = InFilled \cup Elements(hold[t]) /\ InIndexed' = InIndexed
        BY <1>1, <1>4, <2>1, ChainsAppend DEF InFilled, InIndexed
  <2> QED BY <1>2, <1>3, <2>2, HoldingStages DEF HoldingIs, Moves, Places, Stages
<1>5. ASSUME indexed' = Append(indexed, hold[t]), filled' = filled
      PROVE  Moves(Elements(hold[t]), t, "indexed")
  <2>1. indexed \in Seq(Seq(Bucket)) /\ DistinctChains(indexed, 1..Len(indexed))
        /\ AllIn(indexed, 1..Len(indexed)) \cap Elements(hold[t]) = {}
        BY <1>1 DEF TypeOK, Placed, NoSharedBucket, InIndexed
  <2>2. InIndexed' = InIndexed \cup Elements(hold[t]) /\ InFilled' = InFilled
        BY <1>1, <1>5, <2>1, ChainsAppend DEF InFilled, InIndexed
  <2> QED BY <1>2, <1>3, <2>2, HoldingStages DEF HoldingIs, Moves, Places, Stages
<1> QED BY <1>4, <1>5

\* A thread that has no chain takes the first one of its stage's queue.
LEMMA ChainMoves ==
    ASSUME TypeOK, Placed, NEW t \in Thread, hold[t] = <<>>, UNCHANGED <<ready, unallocated>>
    PROVE  /\ filled # <<>> /\ filled' = Tail(filled) /\ indexed' = indexed
              /\ hold' = [hold EXCEPT ![t] = Head(filled)]
                => Moves(Elements(Head(filled)), "filled", t)
           /\ indexed # <<>> /\ indexed' = Tail(indexed) /\ filled' = filled
              /\ hold' = [hold EXCEPT ![t] = Head(indexed)]
                => Moves(Elements(Head(indexed)), "indexed", t)
<1>1. InReady' = InReady
      BY DEF InReady
<1>2. Holding(t) = {}
      BY ElementsEmpty, HoldingStages DEF HoldingIs
<1>3. ASSUME filled # <<>>, filled' = Tail(filled), indexed' = indexed,
             hold' = [hold EXCEPT ![t] = Head(filled)]
      PROVE  Moves(Elements(Head(filled)), "filled", t)
  <2>1. filled \in Seq(Seq(Bucket)) /\ DistinctChains(filled, 1..Len(filled))
        BY DEF TypeOK, Placed, NoSharedBucket
  <2>2. /\ InFilled' = InFilled \ Elements(Head(filled)) /\ Elements(Head(filled)) \subseteq InFilled
        /\ InIndexed' = InIndexed
        BY <1>3, <2>1, ChainsTail DEF InFilled, InIndexed
  <2>3. /\ Holding(t)' = Elements(Head(filled))
        /\ \A u \in Thread \ {t} : Holding(u)' = Holding(u)
        BY <1>3, OneHolds
  <2> QED BY <1>1, <1>2, <2>2, <2>3, HoldingStages DEF HoldingIs, Moves, Places, Stages
<1>4. ASSUME indexed # <<>>, indexed' = Tail(indexed), filled' = filled,
             hold' = [hold EXCEPT ![t] = Head(indexed)]
      PROVE  Moves(Elements(Head(indexed)), "indexed", t)
  <2>1. indexed \in Seq(Seq(Bucket)) /\ DistinctChains(indexed, 1..Len(indexed))
        BY DEF TypeOK, Placed, NoSharedBucket
  <2>2. /\ InIndexed' = InIndexed \ Elements(Head(indexed)) /\ Elements(Head(indexed)) \subseteq InIndexed
        /\ InFilled' = InFilled
        BY <1>4, <2>1, ChainsTail DEF InFilled, InIndexed
  <2>3. /\ Holding(t)' = Elements(Head(indexed))
        /\ \A u \in Thread \ {t} : Holding(u)' = Holding(u)
        BY <1>4, OneHolds
  <2> QED BY <1>1, <1>2, <2>2, <2>3, HoldingStages DEF HoldingIs, Moves, Places, Stages
<1> QED BY <1>3, <1>4

\* The first bucket of a thread's chain goes back to the ready queue.
LEMMA RecycledMoves ==
    ASSUME TypeOK, Placed, NEW t \in Thread, hold[t] # <<>>,
           ready' = Append(ready, Head(hold[t])),
           hold' = [hold EXCEPT ![t] = Tail(hold[t])],
           UNCHANGED <<filled, indexed, unallocated>>
    PROVE  Moves({Head(hold[t])}, t, "ready")
<1>1. hold[t] \in Seq(Bucket) /\ ready \in Seq(Bucket) /\ Distinct(hold[t])
      BY DEF TypeOK, Placed, NoSharedBucket, DistinctChains
<1>2. Elements(Tail(hold[t])) = Elements(hold[t]) \ {Head(hold[t])} /\ Head(hold[t]) \in Elements(hold[t])
      BY <1>1, ElementsTail
<1>3. Head(hold[t]) \in Bucket
      BY <1>1, HeadTailProperties
<1>4. InReady' = InReady \cup {Head(hold[t])} /\ InFilled' = InFilled /\ InIndexed' = InIndexed
      BY <1>1, <1>3, ElementsAppend DEF InReady, InFilled, InIndexed
<1>5. /\ Holding(t)' = Holding(t) \ {Head(hold[t])} /\ Head(hold[t]) \in Holding(t)
      /\ \A u \in Thread \ {t} : Holding(u)' = Holding(u)
      BY <1>2, OneHolds, HoldingStages DEF HoldingIs
<1> QED BY <1>4, <1>5, HoldingStages DEF HoldingIs, Moves, Places, Stages

LEMMA LifeUnchanged ==
    ASSUME UNCHANGED <<ready, filled, indexed, hold, unallocated>>
    PROVE  UNCHANGED Where
<1>1. ASSUME NEW b \in Bucket PROVE Place(b)' = Place(b)
      BY DEF Place, InReady, InFilled, InIndexed
<1> QED BY <1>1 DEF Where

LEMMA LifeInit == Init => Life!Init
<1> SUFFICES ASSUME Init PROVE Life!Init
    OBVIOUS
<1>1. unallocated = Bucket \ InitBuckets /\ InReady = InitBuckets /\ InitBuckets \subseteq Bucket
      BY BucketAssumption DEF Init, InReady
<1>2. \A b \in Bucket : Place(b) = IF b \in InitBuckets THEN "ready" ELSE "unallocated"
      BY <1>1 DEF Place
<1> QED BY <1>2 DEF Life!Init, Where

\* Every step of the capture process is a step of BucketLife, or moves nothing.
LEMMA LifeStep == TypeOK /\ HoldOK /\ PhaseOK /\ Placed /\ [Next]_vars => [Life!Next]_Where
<1> SUFFICES ASSUME TypeOK, HoldOK, PhaseOK, Placed, [Next]_vars PROVE Life!Next \/ UNCHANGED Where
    OBVIOUS
<1>p. (TypeOK /\ Placed => WhereOK)'
      BY WhereIs, PTL
<1>w. WhereOK /\ WhereOK'
      BY <1>p, WhereIs, TypeStep, PlacedStep
<1>t. /\ Thread \subseteq Places /\ Stages \subseteq Places
      /\ \A t \in Thread : t # "ready" /\ t # "filled" /\ t # "indexed"
      BY NameAssumption DEF Places, Stages
<1>h. \A t \in Thread : Life!At(t) = Elements(hold[t])
      BY <1>w, <1>t, AtIs, HoldingStages DEF HoldingIs
<1>e. \A s \in Seq(Bucket) : s # <<>> => Elements(s) # {}
  <2> SUFFICES ASSUME NEW s \in Seq(Bucket), s # <<>> PROVE s[1] \in Elements(s)
      OBVIOUS
  <2>1. Len(s) \in Nat /\ Len(s) # 0
        BY EmptySeq
  <2> QED BY <2>1 DEF Elements
<1> USE ThreadSets DEF queues, process, Goto, Take
<1>1. ASSUME NEW c \in Capture, CaptureStep(c) PROVE Life!Next \/ UNCHANGED Where
  <2>0. c \in Thread /\ (pc[c] # "exited" => "filled" \notin closed)
        BY DEF PhaseOK, CaptureJoined, LockReleased, FilledDrained
  <2>1. CASE CaptureCheck(c) \/ DispatchReturn(c)
        BY <2>1, LifeUnchanged DEF CaptureCheck, DispatchReturn
  <2>2. CASE NewChain(c) \/ CaptureFinal(c)
    <3>1. CASE hold[c] = <<>>
          BY <2>2, <3>1, LifeUnchanged DEF NewChain, CaptureFinal
    <3>2. CASE hold[c] # <<>>
      <4>1. /\ filled' = Append(filled, hold[c]) /\ hold' = [hold EXCEPT ![c] = <<>>]
            /\ UNCHANGED <<ready, indexed, unallocated>>
            BY <2>0, <2>2, <3>2 DEF NewChain, CaptureFinal, SendBucket, Push
      <4>2. Moves(Elements(hold[c]), c, "filled")
            BY <2>0, <4>1, SentMoves
      <4>3. Life!MoveTo(Life!At(c), "filled")
            BY <1>w, <1>t, <1>h, <2>0, <4>2, MovesAsLife DEF Stages
      <4>4. Life!At(c) # {}
            BY <1>e, <1>h, <2>0, <3>2 DEF TypeOK
      <4> QED BY <4>3, <4>4 DEF Life!Next, Life!Send
    <3> QED BY <3>1, <3>2
  <2>3. CASE GrabBucket(c) \/ ExtendChain(c) \/ ExtendWoken(c)
    <3>1. CASE ready = <<>>
          BY <2>3, <3>1, LifeUnchanged DEF GrabBucket, ExtendChain, ExtendWoken
    <3>2. CASE ready # <<>>
      <4>1. Head(ready) \in Bucket
            BY <3>2, HeadTailProperties DEF TypeOK
      <4>2. \A b \in Bucket : Append(<<>>, b) = <<b>>
            OBVIOUS
      <4>3. pc[c] = "grab" => <<Head(ready)>> = Append(hold[c], Head(ready))
            BY <4>1, <4>2 DEF HoldOK
      <4>4. /\ ready' = Tail(ready) /\ hold' = [hold EXCEPT ![c] = Append(hold[c], Head(ready))]
            /\ UNCHANGED <<filled, indexed, unallocated>>
            BY <2>3, <3>2, <4>3 DEF GrabBucket, ExtendChain, ExtendWoken
      <4>5. Moves({Head(ready)}, "ready", c)
            BY <2>0, <3>2, <4>4, TakenMoves
      <4>6. Life!MoveTo({Head(ready)}, c) /\ Head(ready) \in Life!At("ready")
            BY <1>w, <1>t, <2>0, <4>5, MovesAsLife, AtIs DEF Stages, Moves
      <4> QED BY <4>6 DEF Life!Next, Life!Grab
    <3> QED BY <3>1, <3>2
  <2> QED BY <1>1, <2>1, <2>2, <2>3 DEF CaptureStep
<1>2. ASSUME NEW i \in Indexer, IndexerStep(i) PROVE Life!Next \/ UNCHANGED Where
  <2>1. CASE IndexerCheck(i)
        BY <2>1, LifeUnchanged DEF IndexerCheck
  <2>2. CASE IndexerPop(i)
    <3>1. CASE ~CanPop(filled, "filled", closed)
          BY <2>2, <3>1, LifeUnchanged DEF IndexerPop
    <3>2. CASE CanPop(filled, "filled", closed)
      <4>1. /\ filled # <<>> /\ hold[i] = <<>> /\ filled' = Tail(filled)
            /\ hold' = [hold EXCEPT ![i] = Head(filled)] /\ UNCHANGED <<ready, indexed, unallocated>>
            BY <2>2, <3>2 DEF IndexerPop, CanPop, HoldOK
      <4>2. Moves(Elements(Head(filled)), "filled", i)
            BY <4>1, ChainMoves
      <4>3. /\ Life!MoveTo(Elements(Head(filled)), i)
            /\ Elements(Head(filled)) \in SUBSET Life!At("filled")
            BY <1>w, <1>t, <4>2, MovesAsLife, AtIs DEF Stages, Moves
      <4>4. Elements(Head(filled)) # {}
        <5>1. Head(filled) = filled[1] /\ Head(filled) \in Seq(Bucket) /\ 1 \in 1..Len(filled)
              BY <4>1, HeadTailProperties, EmptySeq DEF TypeOK
        <5> QED BY <1>e, <5>1 DEF HoldOK
      <4>5. Life!At(i) = {}
            BY <1>h, <4>1, ElementsEmpty
      <4> QED BY <4>3, <4>4, <4>5 DEF Life!Next, Life!TakeChain
    <3> QED BY <3>1, <3>2
  <2>3. CASE IndexerPush(i)
    <3>1. "indexed" \notin closed /\ hold[i] # <<>>
          BY <2>3 DEF IndexerPush, PhaseOK, HoldOK, IndexersJoined, IndexedDrained
    <3>2. /\ indexed' = Append(indexed, hold[i]) /\ hold' = [hold EXCEPT ![i] = <<>>]
          /\ UNCHANGED <<ready, filled, unallocated>>
          BY <2>3, <3>1 DEF IndexerPush, Push
    <3>3. Moves(Elements(hold[i]), i, "indexed")
          BY <3>2, SentMoves
    <3>4. Life!MoveTo(Life!At(i), "indexed")
          BY <1>w, <1>t, <1>h, <3>3, MovesAsLife DEF Stages
    <3>5. Life!At(i) # {}
          BY <1>e, <1>h, <3>1 DEF TypeOK
    <3> QED BY <3>4, <3>5 DEF Life!Next, Life!Pass
  <2> QED BY <1>2, <2>1, <2>2, <2>3 DEF IndexerStep
<1>3. ASSUME NEW o \in Output, OutputStep(o) PROVE Life!Next \/ UNCHANGED Where
  <2>1. CASE OutputCheck(o) \/ OutputBucket(o)
        BY <2>1, LifeUnchanged DEF OutputCheck, OutputBucket
  <2>2. CASE OutputPop(o)
    <3>1. CASE ~CanPop(indexed, "indexed", closed)
          BY <2>2, <3>1, LifeUnchanged DEF OutputPop
    <3>2. CASE CanPop(indexed, "indexed", closed)
      <4>1. /\ indexed # <<>> /\ hold[o] = <<>> /\ indexed' = Tail(indexed)
            /\ hold' = [hold EXCEPT ![o] = Head(indexed)] /\ UNCHANGED <<ready, filled, unallocated>>
            BY <2>2, <3>2 DEF OutputPop, CanPop, HoldOK
      <4>2. Moves(Elements(Head(indexed)), "indexed", o)
            BY <4>1, ChainMoves
      <4>3. /\ Life!MoveTo(Elements(Head(indexed)), o)
            /\ Elements(Head(indexed)) \in SUBSET Life!At("indexed")
            BY <1>w, <1>t, <4>2, MovesAsLife, AtIs DEF Stages, Moves
      <4>4. Elements(Head(indexed)) # {}
        <5>1. Head(indexed) = indexed[1] /\ Head(indexed) \in Seq(Bucket) /\ 1 \in 1..Len(indexed)
              BY <4>1, HeadTailProperties, EmptySeq DEF TypeOK
        <5> QED BY <1>e, <5>1 DEF HoldOK
      <4>5. Life!At(o) = {}
            BY <1>h, <4>1, ElementsEmpty
      <4> QED BY <4>3, <4>4, <4>5 DEF Life!Next, Life!TakeChain
    <3> QED BY <3>1, <3>2
  <2>3. CASE Recycle(o)
    <3>1. /\ hold[o] # <<>> /\ ready' = Append(ready, Head(hold[o]))
          /\ hold' = [hold EXCEPT ![o] = Tail(hold[o])]
          /\ UNCHANGED <<filled, indexed, unallocated>>
          BY <2>3 DEF Recycle
    <3>2. Moves({Head(hold[o])}, o, "ready")
          BY <3>1, RecycledMoves
    <3>3. Life!MoveTo({Head(hold[o])}, "ready") /\ Head(hold[o]) \in Life!At(o)
          BY <1>w, <1>t, <3>2, MovesAsLife, AtIs DEF Stages, Moves
    <3> QED BY <3>3 DEF Life!Next, Life!PutBack
  <2> QED BY <1>3, <2>1, <2>2, <2>3 DEF OutputStep
<1>4. CASE AllocateBucket
  <2>1. PICK b \in unallocated : /\ ready' = Append(ready, b) /\ unallocated' = unallocated \ {b}
                                 /\ UNCHANGED <<filled, indexed, hold>>
        BY <1>4 DEF AllocateBucket
  <2>2. b \in Bucket /\ ready \in Seq(Bucket)
        BY DEF TypeOK
  <2>3. InReady' = InReady \cup {b} /\ InFilled' = InFilled /\ InIndexed' = InIndexed
        BY <2>1, <2>2, ElementsAppend DEF InReady, InFilled, InIndexed
  <2>4. \A t \in Thread : Holding(t)' = Holding(t)
    <3>1. \A t \in Thread : Holding(t) = Elements(hold[t]) /\ Holding(t)' = Elements(hold'[t])
          BY HoldingStages DEF HoldingIs, Elements
    <3> QED BY <2>1, <3>1
  <2>5. Moves({b}, "unallocated", "ready")
        BY <2>1, <2>3, <2>4, HoldingStages DEF HoldingIs, Moves, Places, Stages
  <2>6. Life!MoveTo({b}, "ready") /\ b \in Life!At("unallocated")
        BY <1>w, <1>t, <2>5, MovesAsLife, AtIs DEF Stages, Moves
  <2> QED BY <2>6 DEF Life!Next, Life!Allocate
<1>5. ASSUME MainStep PROVE Life!Next \/ UNCHANGED Where
  <2>1. CASE FreeBuckets
    <3>1. /\ main = "free" /\ ready' = <<>> /\ unallocated' = unallocated \cup InReady
          /\ UNCHANGED <<filled, indexed, hold>>
          BY <2>1 DEF FreeBuckets, InReady, MainGoto
    <3>2. InReady' = {} /\ InFilled' = InFilled /\ InIndexed' = InIndexed
          BY <3>1, ElementsEmpty DEF InReady, InFilled, InIndexed
    <3>3. filled = <<>> /\ indexed = <<>> /\ \A t \in Thread : hold[t] = <<>>
      <4>1. /\ filled = <<>> /\ indexed = <<>>
            /\ \A t \in Thread : pc[t] = "exited"
            BY <3>1 DEF PhaseOK, Thread, CaptureJoined, LockReleased, FilledDrained,
               FilledClosed, IndexersJoined, IndexedDrained, IndexedClosed, OutputsJoined
      <4> QED BY <4>1 DEF HoldOK, Thread
    <3>4. InFilled = {} /\ InIndexed = {} /\ HeldBy(Thread) = {}
          BY <3>3, ElementsEmpty DEF InFilled, InIndexed, HeldBy, AllIn
    <3>5. Bucket = unallocated \cup InReady
          BY <3>4 DEF Placed, NoLostBucket
    <3>6. \A b \in Bucket : Where[b] \in {"ready", "unallocated"}
          BY <1>w, <1>t, <3>5, HoldingStages DEF HoldingIs, WhereOK, Stages
    <3>7. \A b \in Bucket : Place(b)' = "unallocated"
          BY <3>1, <3>5 DEF Place
    <3>8. Life!MoveTo(Bucket, "unallocated")
          BY <3>7 DEF Where, Life!MoveTo
    <3> QED BY <3>6, <3>8 DEF Life!Next, Life!Free
  <2>2. CASE UNCHANGED <<ready, filled, indexed, hold, unallocated>>
        BY <2>2, LifeUnchanged
  <2> QED BY <1>5, <2>1, <2>2 DEF MainStep, TestDb, LeaveRun, ShutdownCapture, StopThread,
             StopDone, Joined, Unlock, ShutdownIndexers, Drained, CloseQueue, ShutdownOutputs
<1>6. CASE ReceiveSignal \/ DbChange
      BY <1>6, LifeUnchanged DEF ReceiveSignal, DbChange
<1>7. ASSUME NEW t \in Thread, SpuriousWakeup(t) PROVE Life!Next \/ UNCHANGED Where
      BY <1>7, LifeUnchanged DEF SpuriousWakeup
<1>8. CASE UNCHANGED vars
      BY <1>8, LifeUnchanged DEF vars
<1> QED
    BY <1>1, <1>2, <1>3, <1>4, <1>5, <1>6, <1>7, <1>8 DEF Next, Running, Terminated

\* The capture process implements BucketLife, for any number of threads and
\* buckets: chains go from stage to stage as a whole, a thread has one chain at
\* a time, buckets go back one by one, and memory is given back only when
\* nothing is in the pipeline (bucketize.c:24-74, index.c:48-74,
\* output.c:29-55, pcapdb.c:539).
THEOREM RefinesLife == Spec => Lifecycle
<1>1. IInv /\ [Next]_vars => [Life!Next]_Where
      BY LifeStep DEF IInv, Placed
<1> QED BY <1>1, LifeInit, Inductive, PTL DEF Spec, Lifecycle, Life!Spec

-----------------------------------------------------------------------------
(* Shutdown: somebody can always take the next step.                       *)

\* What the stop events, the chains of waiting capture threads and the memory
\* of the buckets say about how far the shutdown is.
StopOK ==
    /\ \A t \in Indexer \cup Output : pc[t] = "exited" => t \in stop
    /\ stop \cap Indexer # {} => main \in FilledClosed
    /\ stop \cap Output # {} => main \in IndexedClosed
    /\ \A c \in Capture : pc[c] = "waiting" => Len(hold[c]) < ChainMax
    /\ main # "exited" => unallocated \cap InitBuckets = {}

\* A thread at one of these labels does not depend on anyone to go on.
ThreadMoves(t) ==
    /\ pc[t] \notin {"waiting", "exited"}
    /\ t \in Output /\ pc[t] = "work" => dbUp \/ shutdown

\* The main thread does not wait for the signal, for a thread or for a queue.
MainMoves ==
    /\ main # "exited"
    /\ main = "run" => shutdown
    /\ main = "join_capture" => \A c \in Capture : pc[c] = "exited"
    /\ main = "drain_filled" => filled = <<>>
    /\ main = "join_index" => \A i \in Indexer : pc[i] = "exited"
    /\ main = "drain_indexed" => indexed = <<>>
    /\ main = "join_output" => \A o \in Output : pc[o] = "exited"

NotStuck ==
    shutdown /\ ~crashed /\ main # "exited" => MainMoves \/ \E t \in Thread : ThreadMoves(t)

LEMMA InitStop == Init => StopOK
BY ThreadSets DEF Init, StopOK

LEMMA StopStep == TypeOK /\ HoldOK /\ PhaseOK /\ StopOK /\ [Next]_vars => StopOK'
<1> SUFFICES ASSUME TypeOK, HoldOK, PhaseOK, StopOK, [Next]_vars PROVE StopOK'
    OBVIOUS
<1> USE ThreadSets, ThreadAssumption DEF queues, process, Goto, Take
<1>0. pc \in [Thread -> Labels] /\ hold \in [Thread -> Seq(Bucket)]
      BY DEF TypeOK
<1>1. ASSUME NEW c \in Capture, CaptureStep(c) PROVE StopOK'
  <2>1. CASE CaptureCheck(c) \/ DispatchReturn(c)
        BY <1>0, <2>1 DEF CaptureCheck, DispatchReturn, StopOK
  <2>2. CASE NewChain(c) \/ CaptureFinal(c)
    <3>1. CASE hold[c] = <<>>
          BY <1>0, <2>2, <3>1 DEF NewChain, CaptureFinal, StopOK
    <3>2. CASE hold[c] # <<>>
      <4>1. PICK l \in {"grab", "exited"} : SendBucket(c, l)
            BY <2>2, <3>2 DEF NewChain, CaptureFinal
      <4>2. Moved(pc, pc', c, l, Indexer)
        <5>1. c \in Thread /\ c \notin Indexer /\ l \in Labels /\ Indexer \in SUBSET Thread
              BY DEF Labels
        <5>2. pc' \in PushSignal([pc EXCEPT ![c] = l], Indexer, "filled", closed)
              BY <4>1 DEF SendBucket
        <5> QED BY ONLY <1>0, <5>1, <5>2, PushSignalMoves
      <4>3. UNCHANGED <<stop, main, unallocated>> /\ \A u \in Thread \ {c} : hold'[u] = hold[u]
            BY <1>0, <2>2, <4>1 DEF NewChain, CaptureFinal, SendBucket
      <4> QED BY <4>1, <4>2, <4>3 DEF Moved, StopOK
    <3> QED BY <3>1, <3>2
  <2>3. CASE GrabBucket(c) \/ ExtendChain(c) \/ ExtendWoken(c)
    <3>1. /\ \A u \in Thread \ {c} : pc'[u] = pc[u] /\ hold'[u] = hold[u]
          /\ UNCHANGED <<stop, main, unallocated>>
          BY <1>0, <2>3 DEF GrabBucket, ExtendChain, ExtendWoken
    <3>2. pc'[c] = "waiting" => Len(hold'[c]) < ChainMax
          BY <1>0, <2>3 DEF GrabBucket, ExtendChain, ExtendWoken
    <3> QED BY <3>1, <3>2 DEF StopOK
  <2> QED BY <1>1, <2>1, <2>2, <2>3 DEF CaptureStep
<1>2. ASSUME NEW i \in Indexer, IndexerStep(i) PROVE StopOK'
  <2>1. CASE IndexerCheck(i)
        BY <1>0, <2>1 DEF IndexerCheck, StopOK
  <2>2. CASE IndexerPop(i)
        BY <1>0, <2>2 DEF IndexerPop, StopOK
  <2>3. CASE IndexerPush(i)
    <3>1. Moved(pc, pc', i, "check", Output)
      <4>1. i \in Thread /\ i \notin Output /\ "check" \in Labels /\ Output \in SUBSET Thread
            BY DEF Labels
      <4>2. pc' \in PushSignal([pc EXCEPT ![i] = "check"], Output, "indexed", closed)
            BY <2>3 DEF IndexerPush
      <4> QED BY ONLY <1>0, <4>1, <4>2, PushSignalMoves
    <3>2. UNCHANGED <<stop, main, unallocated>> /\ \A u \in Thread \ {i} : hold'[u] = hold[u]
          BY <1>0, <2>3 DEF IndexerPush
    <3> QED BY <3>1, <3>2 DEF Moved, StopOK
  <2> QED BY <1>2, <2>1, <2>2, <2>3 DEF IndexerStep
<1>3. ASSUME NEW o \in Output, OutputStep(o) PROVE StopOK'
  <2>1. CASE OutputCheck(o)
        BY <1>0, <2>1 DEF OutputCheck, StopOK
  <2>2. CASE OutputPop(o) \/ OutputBucket(o)
        BY <1>0, <2>2 DEF OutputPop, OutputBucket, StopOK
  <2>3. CASE Recycle(o)
    <3> DEFINE l == IF Len(hold[o]) = 1 THEN "check" ELSE "recycle"
    <3>1. Moved(pc, pc', o, l, Capture)
      <4>1. o \in Thread /\ o \notin Capture /\ l \in Labels /\ Capture \in SUBSET Thread
            BY DEF Labels
      <4>2. pc' \in Signal([pc EXCEPT ![o] = l], Capture)
            BY <2>3 DEF Recycle
      <4> QED BY ONLY <1>0, <4>1, <4>2, SignalMoves
    <3>2. UNCHANGED <<stop, main, unallocated>> /\ \A u \in Thread \ {o} : hold'[u] = hold[u]
          BY <1>0, <2>3 DEF Recycle
    <3> QED BY <3>1, <3>2 DEF Moved, StopOK
  <2> QED BY <1>3, <2>1, <2>2, <2>3 DEF OutputStep
<1>4. CASE AllocateBucket
  <2>1. \A t \in Thread : pc'[t] = pc[t] \/ pc'[t] = "woken"
        BY <1>0, <1>4 DEF AllocateBucket, Signal, Waiters
  <2>2. unallocated' \subseteq unallocated /\ UNCHANGED <<stop, main, hold>>
        BY <1>4 DEF AllocateBucket
  <2> QED BY <2>1, <2>2 DEF StopOK
<1>5. ASSUME MainStep PROVE StopOK'
  <2> USE DEF OutputsJoined, IndexedClosed, IndexedDrained,
      IndexersJoined, FilledClosed, FilledDrained, LockReleased, CaptureJoined, MainGoto
  <2>1. CASE TestDb \/ LeaveRun
        BY <2>1 DEF TestDb, LeaveRun, StopOK
  <2>2. CASE ShutdownCapture
        BY <2>2 DEF ShutdownCapture, StopThread, StopDone, Joined, Unlock, StopOK
  <2>c. ASSUME NEW T \in SUBSET Thread
        PROVE  \A t \in Thread : Broadcast(pc, T)[t] = pc[t] \/ Broadcast(pc, T)[t] = "woken"
        BY <1>0 DEF Broadcast, Waiters
  <2>3. CASE ShutdownIndexers
    <3>1. CASE CloseQueue("close_filled", "filled", Indexer, "stop_index")
          BY <3>1, <2>c DEF CloseQueue, StopOK
    <3>2. CASE StopThread("stop_index", Indexer)
          BY <3>2 DEF StopThread, StopOK
    <3> QED BY <2>3, <3>1, <3>2 DEF ShutdownIndexers, StopDone, Joined, Drained, StopOK
  <2>4. CASE ShutdownOutputs
    <3>1. CASE CloseQueue("close_indexed", "indexed", Output, "stop_output")
          BY <3>1, <2>c DEF CloseQueue, StopOK
    <3>2. CASE StopThread("stop_output", Output)
          BY <3>2 DEF StopThread, StopOK
    <3> QED BY <2>4, <3>1, <3>2 DEF ShutdownOutputs, StopDone, Joined, Drained, StopOK
  <2>5. CASE FreeBuckets
        BY <2>5 DEF FreeBuckets, StopOK
  <2> QED BY <1>5, <2>1, <2>2, <2>3, <2>4, <2>5 DEF MainStep
<1>6. CASE ReceiveSignal \/ DbChange
      BY <1>6 DEF ReceiveSignal, DbChange, StopOK
<1>7. ASSUME NEW t \in Thread, SpuriousWakeup(t) PROVE StopOK'
      BY <1>0, <1>7 DEF SpuriousWakeup, StopOK
<1>8. CASE UNCHANGED vars
      BY <1>8 DEF vars, StopOK
<1> QED
    BY <1>1, <1>2, <1>3, <1>4, <1>5, <1>6, <1>7, <1>8 DEF Next, Running, Terminated

\* There are more buckets from the start than the capture threads can hold when
\* every one of them waits for one more.
EnoughBuckets == Cardinality(InitBuckets) > Cardinality(Capture) * (ChainMax - 1)

\* Then they do not hold them all.
LEMMA NotAllHeld ==
    ASSUME TypeOK, EnoughBuckets, \A c \in Capture : Len(hold[c]) < ChainMax
    PROVE  \E b \in InitBuckets : \A c \in Capture : b \notin Elements(hold[c])
<1> SUFFICES ASSUME \A b \in InitBuckets : \E c \in Capture : b \in Elements(hold[c]) PROVE FALSE
    OBVIOUS
<1> DEFINE D == 1..(ChainMax - 1)
           Spot(b) == CHOOSE x \in Capture \X D : x[2] \in 1..Len(hold[x[1]]) /\ hold[x[1]][x[2]] = b
           f == [b \in InitBuckets |-> Spot(b)]
<1>1. ASSUME NEW b \in InitBuckets
      PROVE  Spot(b) \in Capture \X D /\ hold[Spot(b)[1]][Spot(b)[2]] = b
  <2>0. PICK c \in Capture : b \in Elements(hold[c])
        OBVIOUS
  <2>1. PICK k \in 1..Len(hold[c]) : hold[c][k] = b
        BY <2>0 DEF Elements
  <2>2. k \in D
    <3>1. Len(hold[c]) \in Nat /\ Len(hold[c]) < ChainMax /\ ChainMax \in Nat
          BY ThreadSets, ParameterAssumption DEF TypeOK
    <3> QED BY <3>1
  <2>3. <<c, k>> \in Capture \X D /\ <<c, k>>[1] = c /\ <<c, k>>[2] = k
        BY <2>2
  <2> HIDE DEF D
  <2>4. \E x \in Capture \X D : x[2] \in 1..Len(hold[x[1]]) /\ hold[x[1]][x[2]] = b
        BY <2>1, <2>3
  <2> QED BY <2>4
<1> HIDE DEF Spot
<1>2. f \in Injection(InitBuckets, Capture \X D)
  <2>1. f \in [InitBuckets -> Capture \X D]
        BY <1>1
  <2>2. \A a, b \in InitBuckets : f[a] = f[b] => a = b
        BY <1>1
  <2> QED BY <2>1, <2>2 DEF Injection, IsInjective
<1>3. ChainMax - 1 \in Nat /\ IsFiniteSet(D) /\ Cardinality(D) = ChainMax - 1
      BY ParameterAssumption, FS_Interval
<1>4. IsFiniteSet(Capture)
      BY ThreadSets, ThreadAssumption, FS_Subset
<1> HIDE DEF D, f
<1>5. IsFiniteSet(Capture \X D) /\ Cardinality(Capture \X D) = Cardinality(Capture) * (ChainMax - 1)
      BY <1>3, <1>4, FS_Product
<1>6. Cardinality(InitBuckets) <= Cardinality(Capture) * (ChainMax - 1)
      BY <1>2, <1>5, FS_Injection
<1>7. Cardinality(InitBuckets) \in Nat /\ Cardinality(Capture) * (ChainMax - 1) \in Nat
      BY <1>2, <1>5, FS_Injection, FS_CardinalityType
<1> QED BY <1>6, <1>7 DEF EnoughBuckets

LEMMA Unstuck ==
    ASSUME IInv, StopOK, EnoughBuckets, Indexer # {}, Output # {}
    PROVE  NotStuck
<1> SUFFICES ASSUME shutdown, main # "exited", ~MainMoves, \A t \in Thread : ~ThreadMoves(t)
             PROVE  FALSE
    BY DEF NotStuck
<1>i. TypeOK /\ HoldOK /\ PhaseOK /\ NoLostBucket /\ NoLostWakeup
      BY DEF IInv
<1> USE ThreadSets
<1>1. \A t \in Thread : pc[t] \in {"waiting", "exited"}
      BY DEF ThreadMoves
<1>2. /\ Waiters(pc, Capture) # {} => ready = <<>>
      /\ Waiters(pc, Indexer) # {} => filled = <<>> /\ "filled" \notin closed
      /\ Waiters(pc, Output) # {} => indexed = <<>> /\ "indexed" \notin closed
  <2>1. \A T \in SUBSET Thread : {t \in T : pc[t] = "woken"} = {}
        BY <1>1
  <2>2. Cardinality({}) = 0
        BY FS_EmptySet
  <2>3. /\ Waiters(pc, Capture) # {} => Len(ready) <= 0
        /\ Waiters(pc, Indexer) # {} => Len(filled) <= 0 /\ "filled" \notin closed
        /\ Waiters(pc, Output) # {} => Len(indexed) <= 0 /\ "indexed" \notin closed
        BY <1>i, <2>1, <2>2 DEF NoLostWakeup, NoLostWakeupOn
  <2>4. /\ Len(ready) \in Nat /\ (Len(ready) = 0 => ready = <<>>)
        /\ Len(filled) \in Nat /\ (Len(filled) = 0 => filled = <<>>)
        /\ Len(indexed) \in Nat /\ (Len(indexed) = 0 => indexed = <<>>)
        BY <1>i, EmptySeq DEF TypeOK
  <2> QED BY <2>3, <2>4
<1>3. filled = <<>>
  <2>1. CASE main \in FilledClosed
        BY <1>i, <2>1 DEF PhaseOK, FilledDrained
  <2>2. CASE main \notin FilledClosed
        BY <1>1, <1>2, <2>2 DEF StopOK, Waiters
  <2> QED BY <2>1, <2>2
<1>4. indexed = <<>>
  <2>1. CASE main \in IndexedClosed
        BY <1>i, <2>1 DEF PhaseOK, IndexedDrained
  <2>2. CASE main \notin IndexedClosed
        BY <1>1, <1>2, <2>2 DEF StopOK, Waiters
  <2> QED BY <2>1, <2>2
<1>5. /\ main = "join_index" => \A i \in Indexer : pc[i] = "exited"
      /\ main = "join_output" => \A o \in Output : pc[o] = "exited"
      BY <1>i, <1>1, <1>2 DEF PhaseOK, FilledClosed, IndexedClosed, Waiters
<1>6. PICK c \in Capture : pc[c] = "waiting"
      BY <1>1, <1>3, <1>4, <1>5 DEF MainMoves
<1>7. ready = <<>>
      BY <1>2, <1>6 DEF Waiters
<1>8. \A t \in Indexer \cup Output : hold[t] = <<>>
      BY <1>i, <1>1 DEF HoldOK
<1>9. \A u \in Capture : Len(hold[u]) < ChainMax
  <2> SUFFICES ASSUME NEW u \in Capture PROVE Len(hold[u]) < ChainMax
      OBVIOUS
  <2>1. CASE pc[u] = "waiting"
        BY <2>1 DEF StopOK
  <2>2. CASE pc[u] = "exited"
        BY <1>i, <2>2, ParameterAssumption DEF HoldOK
  <2> QED BY <1>1, <2>1, <2>2
<1>10. PICK b \in InitBuckets : \A u \in Capture : b \notin Elements(hold[u])
       BY <1>i, <1>9, NotAllHeld
<1>11. b \in Bucket /\ b \notin unallocated
       BY BucketAssumption DEF StopOK
<1>12. b \notin InReady /\ b \notin InFilled /\ b \notin InIndexed
       BY <1>3, <1>4, <1>7, ElementsEmpty DEF InReady, InFilled, InIndexed, AllIn
<1>13. b \notin HeldBy(Thread)
       BY <1>8, <1>10, ElementsEmpty DEF HeldBy, AllIn, Thread
<1> QED BY <1>i, <1>11, <1>12, <1>13 DEF NoLostBucket

\* A shutdown is never at a standstill, for any number of threads and whatever
\* the database does, if there is an indexing and an output thread (there always
\* is, pcapdb.h:191-192) and there are more buckets than chains that wait for one
\* more can hold: nobody sleeps on a queue that will not be filled, and
\* pcapdb_shutdown waits for nobody who waits for it (pcapdb.c:488-583).
THEOREM ShutdownMoves ==
    ASSUME EnoughBuckets, Indexer # {}, Output # {}
    PROVE  Spec => []NotStuck
<1>1. Init => StopOK
      BY InitStop
<1>2. IInv /\ StopOK /\ [Next]_vars => StopOK'
      BY StopStep DEF IInv
<1>3. IInv /\ StopOK => NotStuck
      BY Unstuck
<1> QED BY <1>1, <1>2, <1>3, Inductive, PTL DEF Spec

=============================================================================
