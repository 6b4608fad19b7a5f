---------------------------- MODULE PacketFetch ----------------------------
(***************************************************************************)
(* pcap_fetch: the packets of the flows that were found are merged into    *)
(* one file by their times.  The flows are kept in a pairing heap, ordered *)
(* by the time of the next packet of each.                                 *)
(*                                                                         *)
(* The nodes of the heap are the flows, numbered in the order in which     *)
(* they are read; a flow is the times of its packets, as captured.         *)
(***************************************************************************)
EXTENDS Naturals, Sequences

CONSTANTS
    MaxFlows,     \* bound on the flows
    MaxPackets,   \* bound on the packets of a flow
    MaxTime       \* bound on the times

ASSUME FetchAssumption == MaxFlows \in Nat /\ MaxPackets \in Nat \ {0} /\ MaxTime \in Nat \ {0}

VARIABLES
    flow,      \* of each flow: the times of its packets
    preload,   \* the packets of a flow are loaded at once, not when they are wanted
    fetching,  \* what pcap_fetch does
    taken,     \* how many flow records were read
    heap,      \* the nodes of the heap: links, times, and whether an assertion failed
    root,      \* the root of the heap, or NoNode
    written,   \* of each flow: how many of its packets were written
    lastTime   \* the time of the packet written last (history)

fetchVars == <<flow, preload, fetching, taken, heap, root, written, lastTime>>

NoNode == 0
Flows == 1..Len(flow)

Ascending(times) == \A i \in 1..(Len(times) - 1) : times[i] <= times[i + 1]
Flow == {f \in UNION {[1..k -> 1..MaxTime] : k \in 1..MaxPackets} : Ascending(f)}

\* The heaps there can be of the flows.
Heap == [child : [Flows -> {NoNode} \cup Flows], sibling : [Flows -> {NoNode} \cup Flows],
         ts : [Flows -> Nat], asserted : BOOLEAN]

FetchInit ==
    /\ flow \in UNION {[1..k -> Flow] : k \in 0..MaxFlows}
    /\ preload \in BOOLEAN
    /\ fetching = "flows" /\ taken = 0
    /\ heap = [child |-> [f \in Flows |-> NoNode], sibling |-> [f \in Flows |-> NoNode],
               ts |-> [f \in Flows |-> flow[f][1]], asserted |-> TRUE]
    /\ root = NoNode
    /\ written = [f \in Flows |-> 0]
    /\ lastTime = 0

-----------------------------------------------------------------------------
\* The heap operations return the heap and its root.

\* The earlier of two roots becomes the root, the other its first child.
fh_merge(h, fh1, fh2) ==
    IF fh1 = NoNode THEN [heap |-> h, root |-> fh2]
    ELSE LET top == IF h.ts[fh1] < h.ts[fh2] THEN fh1 ELSE fh2
             sub == IF top = fh1 THEN fh2 ELSE fh1
         IN  [heap |-> [h EXCEPT !.sibling[sub] = h.child[top], !.child[top] = sub,
                                 !.asserted = @ /\ h.sibling[fh1] = NoNode
                                                /\ h.sibling[fh2] = NoNode],
              root |-> top]

Detach(h, fh) == [h EXCEPT !.sibling[fh] = NoNode]

\* Mutant of fh_merge_pairs: the sibling is taken for the last one.
fh_merge_last(h, fh) ==
    IF h.sibling[fh] = NoNode THEN [heap |-> h, root |-> fh]
    ELSE fh_merge(Detach(h, fh), fh, h.sibling[fh])

\* The calls that fh_merge_pairs makes of itself, at most k of them.
MergePairs[k \in Nat] ==
    [x \in Heap \X Flows |->
        LET h == x[1]
            fh == x[2]
            sibling == h.sibling[fh]
            pair == fh_merge(Detach(Detach(h, fh), sibling), fh, sibling)
            others == MergePairs[k - 1][<<pair.heap, h.sibling[sibling]>>]
        IN  IF k = 0 \/ sibling = NoNode THEN [heap |-> h, root |-> fh]
            ELSE IF h.sibling[sibling] = NoNode THEN fh_merge(Detach(h, fh), fh, sibling)
            ELSE fh_merge(others.heap, pair.root, others.root)]

\* The heaps of a list of siblings become one: pairs of them are merged, and the
\* results from the end of the list to its beginning.
fh_merge_pairs(h, fh) == MergePairs[Len(flow)][<<h, fh>>]

\* The root leaves the heap.
fh_del_min(h, fh) ==
    IF h.child[fh] = NoNode THEN [heap |-> h, root |-> NoNode]
    ELSE fh_merge_pairs([h EXCEPT !.child[fh] = NoNode], h.child[fh])

-----------------------------------------------------------------------------
\* The record of a flow is read and goes to the heap with the time of its first packet.
TakeFlow ==
    /\ fetching = "flows" /\ taken < Len(flow)
    /\ taken' = taken + 1
    /\ LET m == fh_merge(heap, root, taken') IN heap' = m.heap /\ root' = m.root
    /\ UNCHANGED <<flow, preload, fetching, written, lastTime>>

FlowsTaken ==
    /\ fetching = "flows" /\ taken = Len(flow)
    /\ fetching' = "packets"
    /\ UNCHANGED <<flow, preload, taken, heap, root, written, lastTime>>

\* A flow cannot be loaded, or its first packet is not the one that was expected:
\* the slot may have been used again.  Or a packet goes beyond the flow, or cannot
\* be written.  What was written stays.
FetchFails ==
    /\ \/ fetching = "flows" /\ preload /\ taken > 0
       \/ fetching = "packets" /\ root # NoNode
    /\ fetching' = "failed"
    /\ UNCHANGED <<flow, preload, taken, heap, root, written, lastTime>>

\* The next packet of the root is written.  If the flow has more the node goes
\* back to the heap with the time of its next packet.
WritePacket ==
    /\ fetching = "packets" /\ root # NoNode
    /\ LET next == root
           left == fh_del_min(heap, next)
           n == written[next] + 1
           m == fh_merge([left.heap EXCEPT !.ts[next] = flow[next][n + 1]], left.root, next)
       IN  /\ written' = [written EXCEPT ![next] = n]
           /\ lastTime' = flow[next][n]
           /\ IF n = Len(flow[next])
                THEN heap' = left.heap /\ root' = left.root
                ELSE heap' = m.heap /\ root' = m.root
    /\ UNCHANGED <<flow, preload, fetching, taken>>

Fetched ==
    /\ fetching = "packets" /\ root = NoNode
    /\ fetching' = "done"
    /\ UNCHANGED <<flow, preload, taken, heap, root, written, lastTime>>

FetchNext == TakeFlow \/ FlowsTaken \/ FetchFails \/ WritePacket \/ Fetched

FetchSpec == FetchInit /\ [][FetchNext]_fetchVars

-----------------------------------------------------------------------------
FetchTypeOK ==
    /\ fetching \in {"flows", "packets", "done", "failed"}
    /\ taken \in 0..Len(flow) /\ root \in {NoNode} \cup Flows
    /\ \A f \in Flows : written[f] \in 0..Len(flow[f])

\* Packets are written in the order of their times, whatever the order of the
\* flows and however the heap was rearranged: none that is still to come is older
\* than the last one ("Write the packets to file, in time order", pcap_fetch).  All
\* are written: no flow drops out of the heap while its list of siblings is taken
\* apart, and the assertion of fh_merge holds (fh_merge, fh_merge_pairs, fh_del_min).
PacketsMerged ==
    /\ \A f \in Flows : written[f] < Len(flow[f]) => flow[f][written[f] + 1] >= lastTime
    /\ heap.asserted
    /\ fetching = "done" => \A f \in Flows : written[f] = Len(flow[f])
=============================================================================
