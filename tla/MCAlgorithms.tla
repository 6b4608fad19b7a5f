---------------------------- MODULE MCAlgorithms ----------------------------
(***************************************************************************)
(* Instances of what one thread computes by itself: the place of packets   *)
(* in buckets, the index of a chain, the tree of a query, a lookup in a    *)
(* sub-index, an operation on the results of an index, the merge of        *)
(* packets; and of the task that runs a search on a capture node.  A       *)
(* behaviour is one of the seven; the others have nothing to do.           *)
(***************************************************************************)
EXTENDS Bucketize, FlowIndex, Query, SubIndex, SetOps, PacketFetch, NodeSearch

FiveTuple(sport, dport, from, to, pr) ==
    [srcport |-> sport, dstport |-> dport, src |-> from, dst |-> to, proto |-> pr]

\* Flows that differ in a protocol, a port or an address; one of IPv6, one not of IP.
SomeKeys ==
    {FiveTuple(1, 1, <<4, 1>>, <<4, 2>>, 6), FiveTuple(1, 1, <<4, 1>>, <<4, 2>>, 17),
     FiveTuple(1, 2, <<4, 2>>, <<4, 1>>, 6), FiveTuple(1, 1, <<6, 1>>, <<6, 2>>, 6),
     FiveTuple(0, 0, <<0, 0>>, <<0, 0>>, 0)}

NoPackets ==
    /\ ready = 0 /\ head = FALSE /\ next_pkt = 0 /\ last_pkt = 0 /\ end = 0 /\ longest = 0
    /\ chainSize = 0 /\ statDropped = 0 /\ since = 0 /\ wraps = 0 /\ flooded = FALSE
    /\ dropped = 0 /\ lost = 0 /\ told = 0 /\ sysTold = 0
    /\ kernel = 0 /\ last_sys = 0 /\ kernelTotal = 0 /\ ended = TRUE

NoChain ==
    /\ chainStage = "failed" /\ chain = <<>> /\ trees = <<>> /\ records = <<>>
    /\ timeorder = <<>> /\ fcap = <<>> /\ subs = <<>> /\ freed = <<>>

NoQuery ==
    /\ stage = "refused" /\ tokens = 0 /\ atoms = 0 /\ levels = <<>>
    /\ asked = None /\ tree = None /\ clause = 1

NoLookup ==
    /\ n = 1 /\ preview = <<>> /\ less = 0 /\ equal = 0 /\ upto = 0
    /\ pc = "off" /\ index = 1 /\ depth = 1 /\ nIdx = 0 /\ nDepth = 1
    /\ last = -1 /\ out = {} /\ status = "none" /\ garbage = FALSE /\ walked = {}

NoSetOp ==
    /\ given = <<>> /\ regular = 0 /\ phase = "done" /\ opened = 0
    /\ rest = [o \in Oset |-> {}] /\ sl = os_slist_init /\ last_item = 0 /\ union = <<>>
    /\ inv = {} /\ curr_set = 1 /\ curr_item = 0 /\ matches = 0 /\ inter = <<>>

NoFetch ==
    /\ flow = <<>> /\ preload = FALSE /\ fetching = "done" /\ taken = 0
    /\ heap = [child |-> <<>>, sibling |-> <<>>, ts |-> <<>>, asserted |-> TRUE]
    /\ root = NoNode /\ written = <<>> /\ lastTime = 0

NoTask ==
    /\ step = "nothing" /\ count = 0 /\ packets = FALSE
    /\ next = 1 /\ doing = [t \in Thread |-> 0] /\ abort = FALSE /\ results = {}
    /\ cutOff = {} /\ gaveUp = {}
    /\ merged = 0 /\ temps = <<>> /\ final = <<>>

Init ==
    \/ PlaceInit /\ NoChain /\ NoQuery /\ NoLookup /\ NoSetOp /\ NoFetch /\ NoTask
    \/ NoPackets /\ ChainInit /\ NoQuery /\ NoLookup /\ NoSetOp /\ NoFetch /\ NoTask
    \/ NoPackets /\ NoChain /\ QueryInit /\ NoLookup /\ NoSetOp /\ NoFetch /\ NoTask
    \/ NoPackets /\ NoChain /\ NoQuery /\ SubInit /\ NoSetOp /\ NoFetch /\ NoTask
    \/ NoPackets /\ NoChain /\ NoQuery /\ NoLookup /\ SetInit /\ NoFetch /\ NoTask
    \/ NoPackets /\ NoChain /\ NoQuery /\ NoLookup /\ NoSetOp /\ FetchInit /\ NoTask
    \/ NoPackets /\ NoChain /\ NoQuery /\ NoLookup /\ NoSetOp /\ NoFetch /\ NodeInit

Next ==
    \/ PlaceNext /\ UNCHANGED <<chainVars, queryVars, subVars, setVars, fetchVars, nodeVars>>
    \/ ChainNext /\ UNCHANGED <<placeVars, queryVars, subVars, setVars, fetchVars, nodeVars>>
    \/ QueryNext /\ UNCHANGED <<placeVars, chainVars, subVars, setVars, fetchVars, nodeVars>>
    \/ SubNext /\ UNCHANGED <<placeVars, chainVars, queryVars, setVars, fetchVars, nodeVars>>
    \/ SetNext /\ UNCHANGED <<placeVars, chainVars, queryVars, subVars, fetchVars, nodeVars>>
    \/ FetchNext /\ UNCHANGED <<placeVars, chainVars, queryVars, subVars, setVars, nodeVars>>
    \/ NodeNext /\ UNCHANGED <<placeVars, chainVars, queryVars, subVars, setVars, fetchVars>>

Spec == Init /\ [][Next]_<<placeVars, chainVars, queryVars, subVars, setVars, fetchVars, nodeVars>>

TypeOK ==
    /\ PlaceTypeOK /\ ChainTypeOK /\ QueryTypeOK /\ SubTypeOK
    /\ SetTypeOK /\ FetchTypeOK /\ NodeTypeOK
=============================================================================
