------------------------------ MODULE Pipeline ------------------------------
(***************************************************************************)
(* The capture process of the indexer: capture threads fill chains of      *)
(* buckets with packets, indexer threads index them, output threads write  *)
(* them to disk and give the buckets back, and the main thread starts the  *)
(* process, waits for a signal and shuts the stages down one by one.       *)
(*                                                                         *)
(* Packets are not modelled one by one: what a packet needs (nothing, the  *)
(* first bucket of a new chain, one more bucket) is a free choice, which   *)
(* covers every sequence of packet sizes.  A chain of buckets is the       *)
(* sequence of its buckets, head_bkt first and current_bkt last.           *)
(***************************************************************************)
EXTENDS Queue, FiniteSets

CONSTANTS
    Capture,      \* capture threads, one for each interface or input file
    Indexer,      \* indexing threads
    Output,       \* output threads
    Bucket,       \* the buckets that fit in memory
    InitBuckets,  \* the buckets allocated before the threads start
    ChainMax,     \* the most buckets one output file's worth of packets can take
    FileMode,     \* TRUE for CAP_MODE_FILE: each input ends
    Spurious,     \* TRUE if pthread_cond_wait may return without a signal
    Signals       \* TRUE if the process may get a signal from outside

Thread == Capture \cup Indexer \cup Output

ASSUME ThreadAssumption ==
    /\ Capture \cap Indexer = {}
    /\ Capture \cap Output = {}
    /\ Indexer \cap Output = {}
    /\ IsFiniteSet(Thread)

\* Where a bucket may be that is with no thread.  No thread has such a name.
Stages == {"unallocated", "ready", "filled", "indexed"}

ASSUME NameAssumption == Thread \cap Stages = {}

ASSUME BucketAssumption ==
    /\ IsFiniteSet(Bucket)
    /\ InitBuckets \subseteq Bucket

ASSUME ParameterAssumption ==
    /\ ChainMax \in Nat \ {0}
    /\ FileMode \in BOOLEAN
    /\ Spurious \in BOOLEAN
    /\ Signals \in BOOLEAN

VARIABLES
    ready,        \* ready_bkts: the free buckets
    filled,       \* filled_bkts: the chains that wait to be indexed
    indexed,      \* indexed_bkts: the chains that wait to be written
    closed,       \* the queues that were closed
    pc,           \* what each thread does next
    hold,         \* the chain each thread works on, <<>> for NULL
    stop,         \* the shutdown event of each thread
    eof,          \* the capture threads whose last dispatch read nothing
    main,         \* what the main thread does next
    shutdown,     \* the system-wide shutdown event
    locked,       \* the process holds the capture lock file
    dbUp,         \* the database answers
    unallocated,  \* the buckets whose memory the process does not have
    crashed       \* the process died on a NULL bucket

vars == <<ready, filled, indexed, closed, pc, hold, stop, eof, main, shutdown,
          locked, dbUp, unallocated, crashed>>

queues == <<ready, filled, indexed, closed>>
process == <<shutdown, locked, dbUp, unallocated, crashed>>

\* The elements of a sequence.
Elements(s) == {s[k] : k \in 1..Len(s)}

Goto(t, l) == pc' = [pc EXCEPT ![t] = l]
Take(t, chain) == hold' = [hold EXCEPT ![t] = chain]

Init ==
    /\ ready \in [1..Cardinality(InitBuckets) -> InitBuckets]
    /\ Elements(ready) = InitBuckets
    /\ filled = <<>>
    /\ indexed = <<>>
    /\ closed = {}
    /\ pc = [t \in Thread |-> "check"]
    /\ hold = [t \in Thread |-> <<>>]
    /\ stop = {}
    /\ eof = {}
    /\ main = "test_db"
    /\ shutdown = FALSE
    /\ locked = TRUE
    /\ dbUp \in BOOLEAN
    /\ unallocated = Bucket \ InitBuckets
    /\ crashed = FALSE

-----------------------------------------------------------------------------
(* Capture threads: capture() and the packet handler it is given.          *)

\* The head of the capture loop.  With its own shutdown event set the thread
\* leaves the loop; at the end of its file it sets the event itself and raises
\* SIGTERM; otherwise it dispatches packets.
CaptureCheck(c) ==
    /\ pc[c] = "check"
    /\ \/ /\ c \in stop
          /\ Goto(c, "final")
          /\ UNCHANGED <<stop, shutdown>>
       \/ /\ c \notin stop
          /\ FileMode /\ c \in eof
          /\ stop' = stop \cup {c}
          /\ shutdown' = TRUE
          /\ UNCHANGED pc
       \/ /\ c \notin stop
          /\ ~(FileMode /\ c \in eof)
          /\ Goto(c, "dispatch")
          /\ UNCHANGED <<stop, shutdown>>
    /\ UNCHANGED <<queues, hold, eof, main, locked, dbUp, unallocated, crashed>>

\* pcap_dispatch (or pfring_bucketize) returns: its packet limit is reached, the
\* loop was broken, or, when reading a file, the input has ended.
DispatchReturn(c) ==
    /\ pc[c] = "dispatch"
    /\ Goto(c, "check")
    /\ \/ UNCHANGED eof
       \/ FileMode /\ eof' = eof \cup {c}
    /\ UNCHANGED <<queues, hold, stop, main, process>>

\* Faulty form: send_bucket does not reset head_bkt.
SendBucketKeepsHead(c, next) ==
    /\ filled' = Push(filled, hold[c], "filled", closed)
    /\ pc' \in PushSignal([pc EXCEPT ![c] = next], Indexer, "filled", closed)
    /\ UNCHANGED hold

\* send_bucket: the chain goes to the filled queue, and its thread keeps nothing.
SendBucket(c, next) ==
    /\ filled' = Push(filled, hold[c], "filled", closed)
    /\ pc' \in PushSignal([pc EXCEPT ![c] = next], Indexer, "filled", closed)
    /\ Take(c, <<>>)

\* get_pkt_bucket, first half: there is no chain yet, or the packet might
\* overfill the output file and the chain is sent.
NewChain(c) ==
    /\ pc[c] = "dispatch"
    /\ \/ /\ hold[c] = <<>>
          /\ Goto(c, "grab")
          /\ UNCHANGED <<filled, hold>>
       \/ /\ hold[c] # <<>>
          /\ SendBucket(c, "grab")
    /\ UNCHANGED <<ready, indexed, closed, stop, eof, main, process>>

\* get_pkt_bucket, second half: a non-blocking pop for the head of the new
\* chain.  With no bucket ready the packet is dropped.
GrabBucket(c) ==
    /\ pc[c] = "grab"
    /\ Goto(c, "dispatch")
    /\ \/ /\ ready = <<>>
          /\ UNCHANGED <<ready, hold>>
       \/ /\ ready # <<>>
          /\ ready' = Tail(ready)
          /\ Take(c, <<Head(ready)>>)
    /\ UNCHANGED <<filled, indexed, closed, stop, eof, main, process>>

\* The current bucket cannot take the packet: a blocking pop for one more, which
\* is linked behind current_bkt.  First attempt of queue_pop.
ExtendChain(c) ==
    /\ pc[c] = "dispatch"
    /\ hold[c] # <<>>
    /\ Len(hold[c]) < ChainMax
    /\ \/ /\ ready # <<>>
          /\ ready' = Tail(ready)
          /\ Take(c, Append(hold[c], Head(ready)))
          /\ UNCHANGED pc
       \/ /\ ready = <<>>
          /\ Goto(c, "waiting")
          /\ UNCHANGED <<ready, hold>>
    /\ UNCHANGED <<filled, indexed, closed, stop, eof, main, process>>

\* Second attempt, after the wait.  A thread that finds nothing gets NULL and
\* resets the bucket it does not have: the process dies.
ExtendWoken(c) ==
    /\ pc[c] = "woken"
    /\ \/ /\ ready # <<>>
          /\ ready' = Tail(ready)
          /\ Take(c, Append(hold[c], Head(ready)))
          /\ Goto(c, "dispatch")
          /\ UNCHANGED crashed
       \/ /\ ready = <<>>
          /\ crashed' = TRUE
          /\ UNCHANGED <<ready, hold, pc>>
    /\ UNCHANGED <<filled, indexed, closed, stop, eof, main, shutdown, locked,
                   dbUp, unallocated>>

\* After the loop: whatever is left in the current chain is sent.
CaptureFinal(c) ==
    /\ pc[c] = "final"
    /\ \/ /\ hold[c] = <<>>
          /\ Goto(c, "exited")
          /\ UNCHANGED <<filled, hold>>
       \/ /\ hold[c] # <<>>
          /\ SendBucket(c, "exited")
    /\ UNCHANGED <<ready, indexed, closed, stop, eof, main, process>>

CaptureStep(c) ==
    \/ CaptureCheck(c) \/ DispatchReturn(c) \/ NewChain(c) \/ GrabBucket(c)
    \/ ExtendChain(c) \/ ExtendWoken(c) \/ CaptureFinal(c)

-----------------------------------------------------------------------------
(* Indexer threads: indexer().                                             *)

IndexerCheck(i) ==
    /\ pc[i] = "check"
    /\ Goto(i, IF i \in stop THEN "exited" ELSE "pop")
    /\ UNCHANGED <<queues, hold, stop, eof, main, process>>

\* An attempt to pop that finds a chain takes it; one that finds the queue
\* closed, or nothing after the wait, returns NULL and the loop goes on.
IndexerPop(i) ==
    /\ pc[i] \in {"pop", "woken"}
    /\ \/ /\ CanPop(filled, "filled", closed)
          /\ filled' = Tail(filled)
          /\ Take(i, Head(filled))
          /\ Goto(i, "work")
       \/ /\ ~CanPop(filled, "filled", closed)
          /\ Goto(i, IF pc[i] = "pop" /\ "filled" \notin closed THEN "waiting" ELSE "check")
          /\ UNCHANGED <<filled, hold>>
    /\ UNCHANGED <<ready, indexed, closed, stop, eof, main, process>>

\* index_bucket is done with the chain, which goes to the indexed queue.
IndexerPush(i) ==
    /\ pc[i] = "work"
    /\ indexed' = Push(indexed, hold[i], "indexed", closed)
    /\ pc' \in PushSignal([pc EXCEPT ![i] = "check"], Output, "indexed", closed)
    /\ Take(i, <<>>)
    /\ UNCHANGED <<ready, filled, closed, stop, eof, main, process>>

IndexerStep(i) == IndexerCheck(i) \/ IndexerPop(i) \/ IndexerPush(i)

-----------------------------------------------------------------------------
(* Output threads: output().                                               *)

OutputCheck(o) ==
    /\ pc[o] = "check"
    /\ Goto(o, IF o \in stop THEN "exited" ELSE "pop")
    /\ UNCHANGED <<queues, hold, stop, eof, main, process>>

OutputPop(o) ==
    /\ pc[o] \in {"pop", "woken"}
    /\ \/ /\ CanPop(indexed, "indexed", closed)
          /\ indexed' = Tail(indexed)
          /\ Take(o, Head(indexed))
          /\ Goto(o, "work")
       \/ /\ ~CanPop(indexed, "indexed", closed)
          /\ Goto(o, IF pc[o] = "pop" /\ "indexed" \notin closed THEN "waiting" ELSE "check")
          /\ UNCHANGED <<indexed, hold>>
    /\ UNCHANGED <<ready, filled, closed, stop, eof, main, process>>

\* Faulty form: the retry loop does not look at the shutdown event.
OutputBucketInsists(o) ==
    /\ pc[o] = "work"
    /\ dbUp
    /\ Goto(o, "recycle")
    /\ UNCHANGED <<queues, hold, stop, eof, main, process>>

\* output_bucket returns.  A database error is tried again for as long as the
\* system is not shutting down; after every other outcome, and after a database
\* error during shutdown, the thread goes on to recycle the chain.
OutputBucket(o) ==
    /\ pc[o] = "work"
    /\ dbUp \/ shutdown
    /\ Goto(o, "recycle")
    /\ UNCHANGED <<queues, hold, stop, eof, main, process>>

\* Faulty form: next is read after it was set to NULL.
RecycleFirstOnly(o) ==
    /\ pc[o] = "recycle"
    /\ hold[o] # <<>>
    /\ ready' = Append(ready, Head(hold[o]))
    /\ Take(o, <<>>)
    /\ pc' \in Signal([pc EXCEPT ![o] = "check"], Capture)
    /\ UNCHANGED <<filled, indexed, closed, stop, eof, main, process>>

\* Faulty form: the chain is not taken apart.
RecycleWholeChain(o) ==
    /\ pc[o] = "recycle"
    /\ hold[o] # <<>>
    /\ ready' = Append(ready, hold[o])
    /\ Take(o, <<>>)
    /\ pc' \in Signal([pc EXCEPT ![o] = "check"], Capture)
    /\ UNCHANGED <<filled, indexed, closed, stop, eof, main, process>>

\* One turn of the loop that takes the chain apart: the first bucket goes back
\* to the ready queue.
Recycle(o) ==
    /\ pc[o] = "recycle"
    /\ hold[o] # <<>>
    /\ ready' = Append(ready, Head(hold[o]))
    /\ Take(o, Tail(hold[o]))
    /\ pc' \in Signal([pc EXCEPT ![o] = IF Len(hold[o]) = 1 THEN "check" ELSE "recycle"], Capture)
    /\ UNCHANGED <<filled, indexed, closed, stop, eof, main, process>>

OutputStep(o) == OutputCheck(o) \/ OutputPop(o) \/ OutputBucket(o) \/ Recycle(o)

-----------------------------------------------------------------------------
(* The main thread: the end of main(), pcapdb_run and pcapdb_shutdown.     *)

MainGoto(from, to) == main = from /\ main' = to

\* The connection test.  When it fails main() goes straight to pcapdb_shutdown,
\* without setting the system-wide shutdown event.
TestDb ==
    /\ main = "test_db"
    /\ main' = IF dbUp THEN "run" ELSE "stop_capture"
    /\ UNCHANGED <<queues, pc, hold, stop, eof, process>>

\* pcapdb_run: one more huge-page bucket could be had.
AllocateBucket ==
    /\ main = "run"
    /\ \E b \in unallocated :
          /\ ready' = Append(ready, b)
          /\ unallocated' = unallocated \ {b}
    /\ pc' \in Signal(pc, Capture)
    /\ UNCHANGED <<filled, indexed, closed, hold, stop, eof, main, shutdown, locked,
                   dbUp, crashed>>

\* pcapdb_run returns once the shutdown event is set.
LeaveRun ==
    /\ MainGoto("run", "stop_capture")
    /\ shutdown
    /\ UNCHANGED <<queues, pc, hold, stop, eof, process>>

\* Sets the shutdown event of one more thread of the set T.
StopThread(l, T) ==
    /\ main = l
    /\ \E t \in T \ stop : stop' = stop \cup {t}
    /\ UNCHANGED <<queues, pc, hold, eof, main, process>>

\* All of T's events are set: the main thread goes on to join them.
StopDone(l, T, next) ==
    /\ MainGoto(l, next)
    /\ T \subseteq stop
    /\ UNCHANGED <<queues, pc, hold, stop, eof, process>>

\* Faulty form: the threads are not waited for.
JoinedNoWait(l, T, next) ==
    /\ MainGoto(l, next)
    /\ UNCHANGED <<queues, pc, hold, stop, eof, process>>

\* All of T could be joined.
Joined(l, T, next) ==
    /\ MainGoto(l, next)
    /\ \A t \in T : pc[t] = "exited"
    /\ UNCHANGED <<queues, pc, hold, stop, eof, process>>

Unlock ==
    /\ MainGoto("unlock", "drain_filled")
    /\ locked' = FALSE
    /\ UNCHANGED <<queues, pc, hold, stop, eof, shutdown, dbUp, unallocated, crashed>>

\* Faulty form: the queue is closed without waiting for it to empty.
DrainedNoWait(l, q, next) ==
    /\ MainGoto(l, next)
    /\ UNCHANGED <<queues, pc, hold, stop, eof, process>>

\* shutdown_thread_set waits until the queue q is empty ...
Drained(l, q, next) ==
    /\ MainGoto(l, next)
    /\ q = <<>>
    /\ UNCHANGED <<queues, pc, hold, stop, eof, process>>

\* ... and closes it, which wakes the threads T that wait on it.
CloseQueue(l, q, T, next) ==
    /\ MainGoto(l, next)
    /\ closed' = closed \cup {q}
    /\ pc' = Broadcast(pc, T)
    /\ UNCHANGED <<ready, filled, indexed, hold, stop, eof, process>>

\* bucketq_free: the memory of every bucket of the ready queue is given back.
FreeBuckets ==
    /\ MainGoto("free", "exited")
    /\ ready' = <<>>
    /\ unallocated' = unallocated \cup Elements(ready)
    /\ UNCHANGED <<filled, indexed, closed, pc, hold, stop, eof, shutdown, locked,
                   dbUp, crashed>>

ShutdownCapture ==
    \/ StopThread("stop_capture", Capture)
    \/ StopDone("stop_capture", Capture, "join_capture")
    \/ Joined("join_capture", Capture, "unlock")
    \/ Unlock

ShutdownIndexers ==
    \/ Drained("drain_filled", filled, "close_filled")
    \/ CloseQueue("close_filled", "filled", Indexer, "stop_index")
    \/ StopThread("stop_index", Indexer)
    \/ StopDone("stop_index", Indexer, "join_index")
    \/ Joined("join_index", Indexer, "drain_indexed")

ShutdownOutputs ==
    \/ Drained("drain_indexed", indexed, "close_indexed")
    \/ CloseQueue("close_indexed", "indexed", Output, "stop_output")
    \/ StopThread("stop_output", Output)
    \/ StopDone("stop_output", Output, "join_output")
    \/ Joined("join_output", Output, "free")

MainStep ==
    \/ TestDb \/ LeaveRun \/ ShutdownCapture \/ ShutdownIndexers \/ ShutdownOutputs
    \/ FreeBuckets

-----------------------------------------------------------------------------
(* The environment.                                                        *)

\* SIGTERM, SIGINT or SIGQUIT: the signal handler sets the shutdown event.
ReceiveSignal ==
    /\ Signals
    /\ ~shutdown
    /\ shutdown' = TRUE
    /\ UNCHANGED <<queues, pc, hold, stop, eof, main, locked, dbUp,
                   unallocated, crashed>>

\* The database goes away or comes back.
DbChange ==
    /\ dbUp' = ~dbUp
    /\ UNCHANGED <<queues, pc, hold, stop, eof, main, shutdown, locked,
                   unallocated, crashed>>

\* pthread_cond_wait returns without a signal.
SpuriousWakeup(t) ==
    /\ Spurious
    /\ pc[t] = "waiting"
    /\ Goto(t, "woken")
    /\ UNCHANGED <<queues, hold, stop, eof, main, process>>

\* The process is gone.
Terminated ==
    /\ crashed \/ main = "exited"
    /\ UNCHANGED vars

Running ==
    \/ \E c \in Capture : CaptureStep(c)
    \/ \E i \in Indexer : IndexerStep(i)
    \/ \E o \in Output : OutputStep(o)
    \/ AllocateBucket \/ MainStep
    \/ ReceiveSignal \/ DbChange
    \/ \E t \in Thread : SpuriousWakeup(t)

Next == (~crashed /\ main # "exited" /\ Running) \/ Terminated

Spec == Init /\ [][Next]_vars

(***************************************************************************)
(* Fairness.  Every thread is scheduled: a step it can take for good is    *)
(* taken.  A dispatch always returns: it handles PKT_READ_LIMIT packets at *)
(* most and pcap_breakloop interrupts it.  Nothing is assumed of signals,  *)
(* of the database, of allocation or of the packets.                       *)
(***************************************************************************)
Fairness ==
    /\ \A c \in Capture : WF_vars(~crashed /\ CaptureStep(c)) /\ SF_vars(~crashed /\ DispatchReturn(c))
    /\ \A i \in Indexer : WF_vars(~crashed /\ IndexerStep(i))
    /\ \A o \in Output : WF_vars(~crashed /\ OutputStep(o))
    /\ WF_vars(~crashed /\ MainStep)

FairSpec == Spec /\ Fairness

-----------------------------------------------------------------------------
(* Properties.                                                             *)

Labels == {"check", "dispatch", "grab", "waiting", "woken", "final", "pop",
           "work", "recycle", "exited"}

MainLabels == {"test_db", "run", "stop_capture", "join_capture", "unlock",
               "drain_filled", "close_filled", "stop_index", "join_index",
               "drain_indexed", "close_indexed", "stop_output", "join_output",
               "free", "exited"}

\* The variables have their types.
TypeOK ==
    /\ ready \in Seq(Bucket)
    /\ filled \in Seq(Seq(Bucket))
    /\ indexed \in Seq(Seq(Bucket))
    /\ closed \subseteq {"filled", "indexed"}
    /\ pc \in [Thread -> Labels]
    /\ hold \in [Thread -> Seq(Bucket)]
    /\ stop \subseteq Thread
    /\ eof \subseteq Capture
    /\ main \in MainLabels
    /\ shutdown \in BOOLEAN
    /\ locked \in BOOLEAN
    /\ dbUp \in BOOLEAN
    /\ unallocated \subseteq Bucket
    /\ crashed \in BOOLEAN

\* No bucket is twice in a sequence, or twice in the chains f[i], i in I.
Distinct(s) == \A j, k \in 1..Len(s) : s[j] = s[k] => j = k

DistinctChains(f, I) ==
    \A i \in I : Distinct(f[i]) /\ \A j \in I \ {i} : Elements(f[i]) \cap Elements(f[j]) = {}

\* The buckets of the chains f[i], i in I.
AllIn(f, I) == UNION {Elements(f[i]) : i \in I}

InReady == Elements(ready)
InFilled == AllIn(filled, 1..Len(filled))
InIndexed == AllIn(indexed, 1..Len(indexed))
HeldBy(T) == AllIn(hold, T)

\* No bucket is in two places: not twice in a queue or a chain, not in a queue
\* while a thread writes to it, not with two threads, not freed while in use
\* (bucketize.c:24-58, output.c:47-53, pcapdb.c:539).
NoSharedBucket ==
    /\ Distinct(ready)
    /\ DistinctChains(filled, 1..Len(filled))
    /\ DistinctChains(indexed, 1..Len(indexed))
    /\ DistinctChains(hold, Thread)
    /\ unallocated \cap InReady = {} /\ unallocated \cap InFilled = {}
    /\ unallocated \cap InIndexed = {} /\ unallocated \cap HeldBy(Thread) = {}
    /\ InReady \cap InFilled = {} /\ InReady \cap InIndexed = {} /\ InReady \cap HeldBy(Thread) = {}
    /\ InFilled \cap InIndexed = {} /\ InFilled \cap HeldBy(Thread) = {}
    /\ InIndexed \cap HeldBy(Thread) = {}

\* No bucket is lost: a push that a closed queue refuses would leak the chain,
\* because no caller looks at queue_push's result (queue.c:27-31).
NoLostBucket == Bucket = unallocated \cup InReady \cup InFilled \cup InIndexed \cup HeldBy(Thread)

\* When the process ends, every chain that was captured has been through the
\* output stage and all bucket memory was given back (pcapdb.c:488-541).
CleanExit ==
    main = "exited" =>
        /\ filled = <<>> /\ indexed = <<>>
        /\ \A t \in Thread : pc[t] = "exited" /\ hold[t] = <<>>
        /\ unallocated = Bucket

\* No wakeup is lost: while a thread waits on a queue, each item in that queue
\* has a woken thread on its way to it (queue.c:20-105).  And nobody waits on a
\* closed queue.
NoLostWakeupOn(q, name, T) ==
    Waiters(pc, T) # {} =>
        /\ name \notin closed
        /\ Len(q) <= Cardinality({t \in T : pc[t] = "woken"})

NoLostWakeup ==
    /\ NoLostWakeupOn(ready, "ready", Capture)
    /\ NoLostWakeupOn(filled, "filled", Indexer)
    /\ NoLostWakeupOn(indexed, "indexed", Output)

\* The lock is released, so that a new capture process may start, only when no
\* capture thread of this one can touch its interface or a bucket again
\* (pcapdb.c:515-525).
LockCoversCapture ==
    ~locked => \A c \in Capture : pc[c] = "exited" /\ hold[c] = <<>>

\* Once shutdown was asked for, the threads and the main thread never all wait
\* for each other.
ShutdownNotStuck ==
    shutdown /\ ~crashed /\ main # "exited" =>
        \/ \E c \in Capture : ENABLED CaptureStep(c)
        \/ \E i \in Indexer : ENABLED IndexerStep(i)
        \/ \E o \in Output : ENABLED OutputStep(o)
        \/ ENABLED MainStep

\* A shutdown that was asked for completes, whatever the database does.
ShutdownCompletes == shutdown ~> (main = "exited" \/ crashed)

\* A blocking pop returns a bucket: "If there was nothing to grab, wait until
\* there is" (queue.c:60-62), which get_pkt_bucket relies on.  It does not always.
NeverNull == ~crashed

-----------------------------------------------------------------------------
(* What the pipeline does to buckets, as BucketLife describes it.          *)

\* Where the bucket b is: in a queue, with a thread or not allocated.
Place(b) ==
    IF b \in unallocated THEN "unallocated"
    ELSE IF b \in InReady THEN "ready"
    ELSE IF b \in InFilled THEN "filled"
    ELSE IF b \in InIndexed THEN "indexed"
    ELSE CHOOSE t \in Thread : b \in Elements(hold[t])

Where == [b \in Bucket |-> Place(b)]

Life == INSTANCE BucketLife WITH place <- Where

\* Seen from a bucket, the pipeline is the cycle of BucketLife: chains go from
\* stage to stage as a whole, a thread has one chain at a time, buckets go back
\* one by one, and memory is given back only when nothing is in the pipeline.
Lifecycle == Life!Spec

-----------------------------------------------------------------------------
(* The inductive invariant behind the safety properties.                   *)

\* The main thread has ended the output stage; it has closed the indexed queue;
\* found it empty; ended the indexing stage; closed the filled queue; found it
\* empty; ended the capture stage.
OutputsJoined == {"free", "exited"}
IndexedClosed == {"stop_output", "join_output"} \cup OutputsJoined
IndexedDrained == {"close_indexed"} \cup IndexedClosed
IndexersJoined == {"drain_indexed"} \cup IndexedDrained
FilledClosed == {"stop_index", "join_index"} \cup IndexersJoined
FilledDrained == {"close_filled"} \cup FilledClosed
LockReleased == {"drain_filled"} \cup FilledDrained
CaptureJoined == {"unlock"} \cup LockReleased

\* What each kind of thread holds at each of its labels.
HoldOK ==
    /\ \A c \in Capture :
          /\ pc[c] \in {"check", "dispatch", "grab", "waiting", "woken", "final", "exited"}
          /\ pc[c] \in {"grab", "exited"} => hold[c] = <<>>
          /\ pc[c] \in {"waiting", "woken"} => hold[c] # <<>>
    /\ \A i \in Indexer :
          /\ pc[i] \in {"check", "pop", "waiting", "woken", "work", "exited"}
          /\ (hold[i] # <<>>) <=> (pc[i] = "work")
    /\ \A o \in Output :
          /\ pc[o] \in {"check", "pop", "waiting", "woken", "work", "recycle", "exited"}
          /\ (hold[o] # <<>>) <=> (pc[o] \in {"work", "recycle"})
    /\ \A k \in 1..Len(filled) : filled[k] # <<>>
    /\ \A k \in 1..Len(indexed) : indexed[k] # <<>>

\* What the main thread knows at each stage of the shutdown.
PhaseOK ==
    /\ main \in CaptureJoined => \A c \in Capture : pc[c] = "exited"
    /\ ~locked => main \in LockReleased
    /\ main \in FilledDrained => filled = <<>>
    /\ "filled" \in closed <=> main \in FilledClosed
    /\ main \in IndexersJoined => \A i \in Indexer : pc[i] = "exited"
    /\ main \in IndexedDrained => indexed = <<>>
    /\ "indexed" \in closed <=> main \in IndexedClosed
    /\ main \in OutputsJoined => \A o \in Output : pc[o] = "exited"
    /\ main = "exited" => ready = <<>>

=============================================================================
