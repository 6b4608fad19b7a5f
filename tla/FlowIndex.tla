----------------------------- MODULE FlowIndex -----------------------------
(***************************************************************************)
(* The index of a chain of buckets: an indexer thread puts each packet     *)
(* into a tree of flows, and each new flow into a tree for each of its     *)
(* addresses and ports; an output thread writes the trees to files.        *)
(* Nodes have no link to their parents, so the trees are splayed and       *)
(* walked with links that are turned round on the way down.                *)
(*                                                                         *)
(* A packet is its number in the chain, and a node of a tree the packet    *)
(* it was made for.  A flow is a node of the tree of flows.                *)
(***************************************************************************)
EXTENDS Naturals

LOCAL INSTANCE Sequences
LOCAL INSTANCE SequencesExt

CONSTANTS
    PacketKey,   \* 5-tuples: srcport, dstport, src and dst as <<version, address>>, proto
    MaxChain     \* bound on the packets of a chain

ASSUME IndexAssumption == MaxChain \in Nat

VARIABLES
    chainStage,  \* what is done with the chain
    chain,       \* the 5-tuples of the packets that were indexed
    trees,       \* the index_set of the chain, <<>> when it is gone
    records,     \* its counters: flows in each index
    timeorder,   \* its list of flows in the order of their first packets
    fcap,        \* the capture file: of each flow its packets
    subs,        \* the sub-index files: records of key and flow
    freed        \* the nodes that were freed, of each tree

chainVars == <<chainStage, chain, trees, records, timeorder, fcap, subs, freed>>

KeyType == {"FLOW", "SRCv4", "SRCv6", "DSTv4", "DSTv6", "SRCPORT", "DSTPORT"}
SubType == KeyType \ {"FLOW"}

Nil == 0    \* NULL; packets are numbered from 1
Opposite(side) == IF side = "left" THEN "right" ELSE "left"

EmptyTree ==
    [root |-> Nil,
     link |-> [side \in {"left", "right"} |-> [p \in 1..MaxChain |-> Nil]],
     ll |-> [p \in 1..MaxChain |-> <<>>]]

ChainInit ==
    /\ chainStage = "index" /\ chain = <<>>
    /\ trees = [tt \in KeyType |-> EmptyTree] /\ records = [tt \in KeyType |-> 0]
    /\ timeorder = <<>> /\ fcap = <<>> /\ subs = <<>> /\ freed = <<>>

-----------------------------------------------------------------------------
\* What gen_cmp compares, the most significant part first.
KeyFields(k, tt) ==
    CASE tt = "FLOW" -> <<k.srcport, k.dstport>> \o k.src \o k.dst \o <<k.proto>>
      [] tt \in {"SRCv4", "SRCv6"} -> k.src
      [] tt \in {"DSTv4", "DSTv6"} -> k.dst
      [] tt = "SRCPORT" -> <<k.srcport>>
      [] tt = "DSTPORT" -> <<k.dstport>>

LexLess(a, b) == \E i \in DOMAIN a : a[i] < b[i] /\ \A j \in 1..(i - 1) : a[j] = b[j]

\* On which side of node p1 is the key of p2; "here" if it is the same.
gen_cmp(pkts, p2, p1, tt) ==
    LET a == KeyFields(pkts[p2], tt)
        b == KeyFields(pkts[p1], tt)
    IN  IF a = b THEN "here" ELSE IF LexLess(a, b) THEN "left" ELSE "right"

RECURSIVE FindPlace(_, _, _, _, _, _)
\* The way down to the node for rec, which is made if it is not there.  The link
\* that is followed becomes the link to the parent.
FindPlace(t, pkts, rec, curr, parent, tt) ==
    LET side == gen_cmp(pkts, rec, curr, tt) IN
    IF curr = Nil THEN [tree |-> t, curr |-> rec, parent |-> parent]
    ELSE IF side = "here" THEN [tree |-> t, curr |-> curr, parent |-> parent]
    ELSE FindPlace([t EXCEPT !.link[side][curr] = parent],
                   pkts, rec, t.link[side][curr], curr, tt)

\* The rotations: curr is below p on side s, and p below gp on side g.
Zig(t, curr, p, s) ==
    LET o == Opposite(s) IN
    [t EXCEPT !.link[s][p] = t.link[o][curr], !.link[o][curr] = p]

ZigZig(t, curr, p, gp, s) ==
    LET o == Opposite(s) IN
    [t EXCEPT !.link[s][gp] = t.link[o][p], !.link[o][p] = gp,
              !.link[s][p] = t.link[o][curr], !.link[o][curr] = p]

\* Mutant of ZigZag: the subtree between p and curr is not handed over to p.
ZigZagLoses(t, curr, p, gp, g, s) ==
    [t EXCEPT !.link[s][p] = Nil, !.link[g][gp] = t.link[s][curr],
              !.link[g][curr] = p, !.link[s][curr] = gp]

ZigZag(t, curr, p, gp, g, s) ==
    [t EXCEPT !.link[s][p] = t.link[g][curr], !.link[g][gp] = t.link[s][curr],
              !.link[g][curr] = p, !.link[s][curr] = gp]

RECURSIVE Splay(_, _, _, _, _)
\* The way back up, two levels at a time: the links to the parents are read, and
\* turned round again before the rotation.
Splay(t, pkts, curr, p, tt) ==
    IF p = Nil THEN [t EXCEPT !.root = curr]
    ELSE LET s == gen_cmp(pkts, curr, p, tt)
             gp == t.link[s][p]
             t1 == [t EXCEPT !.link[s][p] = curr]
         IN  IF gp = Nil THEN Splay(Zig(t1, curr, p, s), pkts, curr, Nil, tt)
             ELSE LET g == gen_cmp(pkts, p, gp, tt)
                      next_parent == t.link[g][gp]
                      t2 == [t1 EXCEPT !.link[g][gp] = p]
                  IN  Splay(IF g = s THEN ZigZig(t2, curr, p, gp, s)
                                     ELSE ZigZag(t2, curr, p, gp, g, s),
                            pkts, curr, next_parent, tt)

\* The node of rec becomes the root, with item in its list: of a flow its packets
\* but for the first, elsewhere flows.
splay_tr_insert(t, pkts, rec, item, tt) ==
    LET at == FindPlace(t, pkts, rec, t.root, Nil, tt)
        listed == IF tt = "FLOW" /\ at.curr = rec THEN at.tree
                  ELSE [at.tree EXCEPT !.ll[at.curr] = Append(@, item)]
    IN  Splay(listed, pkts, at.curr, at.parent, tt)

\* The indexes of a flow.  What is not IP has ports, of number 0, but no addresses.
IndexesOf(k) ==
    {"FLOW", "SRCPORT", "DSTPORT"}
        \cup {tt \in {"SRCv4", "SRCv6"} : k.src[1] = (IF tt = "SRCv4" THEN 4 ELSE 6)}
        \cup {tt \in {"DSTv4", "DSTv6"} : k.dst[1] = (IF tt = "DSTv4" THEN 4 ELSE 6)}

\* One packet.  Its flow, which is the root now, is new if it has no list.
IndexPacket(k) ==
    /\ chainStage = "index" /\ Len(chain) < MaxChain
    /\ chain' = Append(chain, k)
    /\ LET rec == Len(chain')
           flows == splay_tr_insert(trees["FLOW"], chain', rec, rec, "FLOW")
           flow_node == flows.root
           added == IF flows.ll[flow_node] = <<>> THEN IndexesOf(k) ELSE {}
       IN  /\ trees' = [tt \in KeyType |->
                           IF tt = "FLOW" THEN flows
                           ELSE IF tt \in added
                             THEN splay_tr_insert(trees[tt], chain', rec, flow_node, tt)
                           ELSE trees[tt]]
           /\ records' = [tt \in KeyType |-> records[tt] + (IF tt \in added THEN 1 ELSE 0)]
           /\ timeorder' = IF added = {} THEN timeorder ELSE Append(timeorder, flow_node)
    /\ UNCHANGED <<chainStage, fcap, subs, freed>>

\* The thread hands the chain over; a chain has a packet.
Indexed ==
    /\ chainStage = "index" /\ chain # <<>>
    /\ chainStage' = "flows"
    /\ UNCHANGED <<chain, trees, records, timeorder, fcap, subs, freed>>

-----------------------------------------------------------------------------
RECURSIVE WalkTree(_, _, _, _, _)
\* The nodes of a tree in the order in which they are output and in which they are
\* left for good.  The left link of a node becomes the link to its parent; prior is
\* the node from which the walk came up, Nil if it came down.
WalkTree(t, curr, prior, parent, done) ==
    LET left == t.link.left[curr]
        right == t.link.right[curr]
        leave(d) == IF prior = Nil THEN d ELSE [d EXCEPT !.gone = Append(@, prior)]
        here == IF prior = Nil THEN [t EXCEPT !.link.left[curr] = parent] ELSE t
        shown == [leave(done) EXCEPT !.nodes = Append(@, curr)]
    IN  IF curr = Nil THEN leave(done)
        ELSE IF prior = Nil /\ left # Nil THEN WalkTree(here, left, Nil, curr, done)
        ELSE IF prior # Nil /\ prior = right THEN WalkTree(t, left, curr, parent, leave(done))
        ELSE IF right # Nil THEN WalkTree(here, right, Nil, curr, shown)
        ELSE WalkTree(here, here.link.left[curr], curr, parent, shown)

Walked(t) == WalkTree(t, t.root, Nil, Nil, [nodes |-> <<>>, gone |-> <<>>])

\* The flows and their packets, in the order of the keys.  The nodes stay.
WriteFlowIndex ==
    /\ chainStage = "flows"
    /\ chainStage' = "subs"
    /\ LET t == trees["FLOW"]
           flows == Walked(t).nodes
       IN  fcap' = [i \in DOMAIN flows |-> <<flows[i]>> \o t.ll[flows[i]]]
    /\ UNCHANGED <<chain, trees, records, timeorder, subs, freed>>

\* flow_index_offset: the place of a flow in the flow index.
OffsetOf(f) == SelectInSeq(fcap, LAMBDA pkts : pkts[1] = f)

RECURSIVE merge_flow_lists(_, _)
merge_flow_lists(h1, h2) ==
    IF h1 = <<>> THEN h2
    ELSE IF h2 = <<>> THEN h1
    ELSE IF Head(h1) < Head(h2) THEN <<Head(h1)>> \o merge_flow_lists(Tail(h1), h2)
    ELSE <<Head(h2)>> \o merge_flow_lists(h1, Tail(h2))

RECURSIVE StoreList(_, _, _)
\* A list of 2^order items is merged with those that are stored, as a bit is added
\* to a number.
StoreList(stored, order, list) ==
    IF stored[order] = <<>> THEN [stored EXCEPT ![order] = list]
    ELSE StoreList([stored EXCEPT ![order] = <<>>], order + 1,
                   merge_flow_lists(stored[order], list))

merge_sort_offsets(list) ==
    LET stored == FoldLeft(LAMBDA s, item : StoreList(s, 1, <<item>>),
                           [order \in 1..(MaxChain + 1) |-> <<>>], list)
    IN  FoldLeft(LAMBDA all, s : merge_flow_lists(s, all), <<>>, stored)

\* The records of a node: a flow's key and offset.
NodeRecords(t, node, tt) ==
    LET offsets == merge_sort_offsets([i \in DOMAIN t.ll[node] |-> OffsetOf(t.ll[node][i])])
    IN  [i \in DOMAIN offsets |-> <<KeyFields(chain[node], tt), offsets[i]>>]

\* The other indexes, the nodes of which are freed, and then those of the flows.
WriteSubIndexes ==
    /\ chainStage = "subs"
    /\ chainStage' = "written"
    /\ UNCHANGED fcap
    /\ LET walk == [tt \in SubType |-> Walked(trees[tt])] IN
       /\ subs' = [tt \in SubType |-> FlattenSeq([i \in DOMAIN walk[tt].nodes |->
                                  NodeRecords(trees[tt], walk[tt].nodes[i], tt)])]
       /\ freed' = [tt \in KeyType |-> IF tt = "FLOW" THEN timeorder ELSE walk[tt].gone]
    /\ trees' = <<>> /\ timeorder' = <<>>
    /\ UNCHANGED <<chain, records>>

\* A file cannot be opened, or a record or a packet not be written, and the chain is
\* given up.  A header or preview that cannot be written is not noticed; files that are
\* short of it are left out here.
IndexFails ==
    /\ chainStage \in {"flows", "subs"}
    /\ chainStage' = "failed"
    /\ chain' = <<>> /\ trees' = <<>> /\ records' = <<>> /\ timeorder' = <<>> /\ fcap' = <<>>
    /\ UNCHANGED <<subs, freed>>

ChainNext ==
    \/ \E k \in PacketKey : IndexPacket(k)
    \/ Indexed \/ WriteFlowIndex \/ WriteSubIndexes \/ IndexFails

-----------------------------------------------------------------------------
ChainTypeOK ==
    /\ chainStage \in {"index", "flows", "subs", "written", "failed"}
    /\ Len(chain) <= MaxChain
    /\ trees # <<>> => \A tt \in KeyType : trees[tt].root \in 0..Len(chain)

FlowsOf(tt) == {i \in DOMAIN fcap : tt \in IndexesOf(chain[fcap[i][1]])}

\* The files are what a search relies on, in whatever order packets arrive: every
\* packet is in the capture file once, with the packets of its flow, which are in the
\* order of their arrival, and flows are in the order of their keys; every
\* sub-index has a record for each flow with such a key, in the order of keys and
\* offsets, as many as its header says; and every node of a tree is freed once
\* (splay_tr_insert, write_index, merge_sort_offsets).
IndexFilesExact ==
    chainStage = "written" =>
        /\ \A i \in DOMAIN fcap :
              /\ \A j \in 1..(i - 1) :
                    LexLess(KeyFields(chain[fcap[j][1]], "FLOW"), KeyFields(chain[fcap[i][1]], "FLOW"))
              /\ fcap[i] = SelectSeq([p \in DOMAIN chain |-> p], LAMBDA p : chain[p] = chain[fcap[i][1]])
        /\ {chain[p] : p \in DOMAIN chain} = {chain[fcap[i][1]] : i \in DOMAIN fcap}
        /\ \A tt \in SubType :
              /\ subs[tt] = SetToSortSeq({<<KeyFields(chain[fcap[i][1]], tt), i>> : i \in FlowsOf(tt)},
                                LAMBDA a, b : LexLess(Append(a[1], a[2]), Append(b[1], b[2])))
              /\ Len(subs[tt]) = records[tt]
        /\ \A tt \in KeyType :
              /\ IsInjective(freed[tt])
              /\ {KeyFields(chain[p], tt) : p \in ToSet(freed[tt])}
                    = {KeyFields(chain[fcap[i][1]], tt) : i \in FlowsOf(tt)}
=============================================================================
