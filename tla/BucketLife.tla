----------------------------- MODULE BucketLife -----------------------------
(***************************************************************************)
(* The promise of the capture pipeline, seen from its buckets: a bucket is *)
(* in one place at a time and goes round the stages in one direction.      *)
(* There are no queues here, no locks, no shutdown and no order.           *)
(***************************************************************************)
CONSTANTS Capture, Indexer, Output, Bucket, InitBuckets

Threads == Capture \cup Indexer \cup Output

VARIABLE place  \* where each bucket is

\* The buckets at p.
At(p) == {b \in Bucket : place[b] = p}

\* The buckets of S go to p.
MoveTo(S, p) == place' = [b \in Bucket |-> IF b \in S THEN p ELSE place[b]]

Init == place = [b \in Bucket |-> IF b \in InitBuckets THEN "ready" ELSE "unallocated"]

\* A capture thread adds a free bucket to its chain, and sends the chain.
Grab(c) == \E b \in At("ready") : MoveTo({b}, c)
Send(c) == At(c) # {} /\ MoveTo(At(c), "filled")

\* A thread of a later stage that has nothing takes a chain.
TakeChain(t, from) ==
    /\ At(t) = {}
    /\ \E S \in SUBSET At(from) : S # {} /\ MoveTo(S, t)

\* An indexer thread passes its chain on.
Pass(i) == At(i) # {} /\ MoveTo(At(i), "indexed")

\* An output thread puts one of its buckets back.
PutBack(o) == \E b \in At(o) : MoveTo({b}, "ready")

Allocate == \E b \in At("unallocated") : MoveTo({b}, "ready")

\* Memory is given back only when no bucket is in use.
Free ==
    /\ \A b \in Bucket : place[b] \in {"ready", "unallocated"}
    /\ MoveTo(Bucket, "unallocated")

Next ==
    \/ \E c \in Capture : Grab(c) \/ Send(c)
    \/ \E i \in Indexer : TakeChain(i, "filled") \/ Pass(i)
    \/ \E o \in Output : TakeChain(o, "indexed") \/ PutBack(o)
    \/ Allocate \/ Free

Spec == Init /\ [][Next]_place
=============================================================================
