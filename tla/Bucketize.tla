----------------------------- MODULE Bucketize -----------------------------
(***************************************************************************)
(* One capture thread of the indexer with its data: where packets go in a  *)
(* bucket, when a chain is sent, and which drops are reported.  Sizes and  *)
(* offsets are numbers; an offset counts from the start of a bucket, which *)
(* is aligned.  A packet is its captured length.                           *)
(*                                                                         *)
(* libpcap_bucketize is one step.  Other threads only take buckets from    *)
(* and give buckets to the ready queue; the wait for a bucket in the       *)
(* middle of a chain, and what can go wrong in it, is in module Pipeline.  *)
(***************************************************************************)
EXTENDS Integers

CONSTANTS
    MinLen, MaxLen,  \* the captured lengths of packets
    Mtu,             \* conf->mtu
    Rec,             \* sizeof(struct packet_record)
    PktHdr,          \* sizeof(struct pcap_pkthdr32)
    FileHdr,         \* sizeof(struct pcap_file_header)
    Word,            \* sizeof(long)
    First,           \* sizeof(struct bucket): where a bucket's data starts
    BktEnd,          \* the size of a bucket
    OutFile,         \* conf->outfile_size
    Wide,            \* 2^64, the range of size_t
    Max32,           \* UINT32_MAX
    MaxReady,        \* the most buckets that are ready at a time
    MaxKernelDrops,  \* bound on the packets the kernel drops
    MaxLostPkts      \* bound on the packets dropped for want of a bucket

ASSUME SizeAssumption ==
    /\ MinLen \in Nat /\ MaxLen \in Nat /\ MinLen <= MaxLen /\ MaxLen <= Mtu
    /\ Mtu \in Nat /\ Rec \in Nat \ {0} /\ PktHdr \in Nat /\ FileHdr \in Nat
    /\ Word \in Nat \ {0} /\ First \in Nat /\ BktEnd \in Nat /\ OutFile \in Nat
    /\ Wide \in Nat /\ Max32 \in Nat
    /\ MaxReady \in Nat /\ MaxKernelDrops \in Nat /\ MaxLostPkts \in Nat
    /\ First + Mtu + Rec <= BktEnd /\ BktEnd < Wide
    /\ PktHdr + Mtu <= OutFile
    /\ FileHdr < PktHdr + MinLen

VARIABLES
    ready,        \* how many buckets the ready queue has
    head,         \* head_bkt is not NULL
    next_pkt,     \* next_pkt of current_bkt
    last_pkt,     \* last_pkt of current_bkt
    end,          \* where the data of its last packet ends
    longest,      \* the longest packet in current_bkt (history)
    chainSize,    \* head_bkt->stats->chain_size
    statDropped,  \* head_bkt->stats->dropped
    dropped,      \* cap_state->dropped_pkts
    kernel,       \* lp_stats.ps_drop, a 32 bit counter
    last_sys,     \* libpcap_last_sys_dropped
    ended,        \* the capture thread has ended
    lost,         \* all packets dropped for want of a bucket
    kernelTotal,  \* all packets the kernel dropped
    since,        \* those it dropped since the last chain was sent
    wraps,        \* how often a chain was sent with a counter below that of the last one
    flooded,      \* the kernel dropped more than UINT32_MAX between two chains
    told,         \* the sum of stats->dropped over the chains that were sent
    sysTold       \* the sum of stats->sys_dropped over the chains that were sent

place == <<next_pkt, last_pkt, end, longest, chainSize>>
bucket == <<head, place, statDropped>>
reports == <<last_sys, told, sysTold, since, wraps, flooded>>
counters == <<dropped, lost, reports>>
placeVars == <<ready, bucket, counters, kernel, kernelTotal, ended>>

PlaceInit ==
    /\ ready \in 0..MaxReady
    /\ head = FALSE /\ next_pkt = 0 /\ last_pkt = 0 /\ end = 0 /\ longest = 0
    /\ chainSize = 0 /\ statDropped = 0
    /\ since = 0 /\ wraps = 0 /\ flooded = FALSE
    /\ dropped = 0 /\ lost = 0 /\ told = 0 /\ sysTold = 0
    /\ kernel \in 0..Max32 /\ last_sys = kernel /\ kernelTotal = 0
    /\ ended = FALSE

-----------------------------------------------------------------------------

\* A negative difference of pointers, compared with a size_t.
ToUnsigned(x) == IF x < 0 THEN x + Wide ELSE x

\* next_pkt: the place after a packet of length len at p.  The padding up to the
\* next word is added to a pointer to packet records.
NextPkt(p, len) ==
    LET past == p + (Rec - 1) + len
        off  == past % Word
    IN  IF off = 0 THEN past ELSE past + (Word - off) * Rec

\* The next packet could overfill the output file.
FileFull == chainSize + PktHdr + Mtu > OutFile

\* Faulty form: the bucket is full once the place for a packet is past its end.
BucketFullAtEnd == next_pkt >= BktEnd

\* The current bucket might not take the next packet.
BucketFull == Mtu + Rec > ToUnsigned(BktEnd - next_pkt)

\* The packet goes to p, in a bucket whose packets have at most length most, and in a
\* chain of which size bytes were used.
Store(p, len, most, size) ==
    /\ last_pkt' = p
    /\ longest' = IF len > most THEN len ELSE most
    /\ end' = p + (Rec - 1) + len
    /\ next_pkt' = NextPkt(p, len)
    /\ chainSize' = size + PktHdr + len

\* Faulty form: the counter is taken as it is.
SysDroppedRaw == kernel - last_sys

\* What send_bucket reports of a libpcap interface's counter.
SysDropped == IF kernel < last_sys THEN (Max32 - last_sys) + kernel ELSE kernel - last_sys

\* The history of the reports.
CountReport ==
    /\ since' = 0
    /\ wraps' = IF kernel < last_sys THEN wraps + 1 ELSE wraps
    /\ flooded' = (flooded \/ since > Max32)

\* Faulty form: the counter is not remembered for the next chain.
SendForgets ==
    /\ told' = told + dropped
    /\ sysTold' = sysTold + SysDropped
    /\ CountReport
    /\ UNCHANGED last_sys

\* send_bucket.
Send ==
    /\ told' = told + dropped
    /\ sysTold' = sysTold + SysDropped
    /\ CountReport
    /\ last_sys' = kernel

\* Faulty form: the size of the chain is not looked at.
NewChainOnlyFirst == ~head

\* get_pkt_bucket starts a new chain.
NewChain == ~head \/ FileFull

\* libpcap_bucketize for a packet that needs a new chain: the old one, if any, is
\* sent, and a bucket is taken if one is ready.
PacketNewChain(len) ==
    /\ NewChain
    /\ IF head THEN Send ELSE UNCHANGED reports
    /\ \/ /\ ready = 0
          /\ lost < MaxLostPkts
          /\ head' = FALSE
          /\ dropped' = dropped + 1 /\ lost' = lost + 1
          /\ UNCHANGED <<ready, place, statDropped>>
       \/ /\ ready > 0
          /\ ready' = ready - 1
          /\ head' = TRUE
          /\ statDropped' = dropped /\ dropped' = 0
          /\ Store(First, len, 0, 0)
          /\ UNCHANGED lost
    /\ UNCHANGED <<kernel, kernelTotal, ended>>

\* The packet needs one more bucket in the chain.
PacketNewBucket(len) ==
    /\ ~NewChain /\ BucketFull
    /\ ready > 0
    /\ ready' = ready - 1
    /\ Store(First, len, 0, chainSize)
    /\ UNCHANGED <<head, statDropped, counters, kernel, kernelTotal, ended>>

\* The packet goes to the current bucket.
PacketSameBucket(len) ==
    /\ ~NewChain /\ ~BucketFull
    /\ Store(next_pkt, len, longest, chainSize)
    /\ UNCHANGED <<ready, head, statDropped, counters, kernel, kernelTotal, ended>>

Packet(len) ==
    /\ ~ended
    /\ PacketNewChain(len) \/ PacketNewBucket(len) \/ PacketSameBucket(len)

\* The thread ends: what is left is sent.
EndCapture ==
    /\ ~ended /\ ended' = TRUE
    /\ IF head THEN Send /\ head' = FALSE ELSE UNCHANGED <<reports, head>>
    /\ UNCHANGED <<ready, place, statDropped, dropped, lost, kernel, kernelTotal>>

\* Other threads put a bucket back, or take one; after the end it does not matter.
ReadyChange ==
    /\ ~ended
    /\ ready' \in {ready - 1, ready + 1} \cap 0..MaxReady
    /\ UNCHANGED <<bucket, counters, kernel, kernelTotal, ended>>

\* The kernel drops a packet, and counts it in 32 bits.
KernelDrop ==
    /\ ~ended /\ kernelTotal < MaxKernelDrops
    /\ kernelTotal' = kernelTotal + 1
    /\ kernel' = IF kernel = Max32 THEN 0 ELSE kernel + 1
    /\ since' = since + 1
    /\ UNCHANGED <<ready, bucket, dropped, lost, last_sys, told, sysTold, wraps, flooded, ended>>

PlaceNext ==
    \/ \E len \in MinLen..MaxLen : Packet(len)
    \/ EndCapture \/ ReadyChange \/ KernelDrop

PlaceSpec == PlaceInit /\ [][PlaceNext]_placeVars

-----------------------------------------------------------------------------

\* The variables have their types.
PlaceTypeOK ==
    /\ ready \in Nat /\ head \in BOOLEAN /\ ended \in BOOLEAN
    /\ next_pkt \in Nat /\ last_pkt \in Nat /\ end \in Nat /\ longest \in 0..MaxLen
    /\ since \in Nat /\ wraps \in Nat /\ flooded \in BOOLEAN /\ chainSize \in Nat /\ statDropped \in Nat
    /\ dropped \in Nat /\ lost \in Nat /\ told \in Nat /\ sysTold \in Nat
    /\ kernel \in 0..Max32 /\ last_sys \in 0..Max32 /\ kernelTotal \in Nat

\* Which packets are written past the end of their bucket.  A packet that begins in
\* its bucket has room for conf->mtu there, as bucketize.c:173-174 has it.  But packets
\* also begin past the end, since the space that is left is then taken for a large
\* one; and it comes to that only in a bucket with a packet so near the MTU that the
\* padding of next_pkt, which is counted in packet records, does not fit
\* (get_pkt_bucket, BKT_SPACE_LEFT, network.c:15-21).
InBucket ==
    head => /\ end > BktEnd <=> last_pkt > BktEnd
            /\ next_pkt > BktEnd => longest + (Word - 1) * Rec > Mtu + 1

\* Wherever the flow writer puts a packet of the chain in the FCAP file, its
\* offset is below outfile_size, which decides about 32 bit offsets
\* (output.c:240, 358).
OffsetsFit == head => FileHdr + chainSize - (PktHdr + MinLen) < OutFile

\* What the chains report of drops.  "so we can watch for that to get accurate stats":
\* of the kernel's drops exactly one is missing for each time that the 32 bit counter
\* was found to have wrapped, and more only if it went all the way round between two
\* chains.  "Record packets dropped from times when we couldn't get a bucket": none of
\* them is ever reported, as the number is overwritten before the chain is sent
\* (send_bucket, get_pkt_bucket; bucketize.c:41-43, 75, 83-96).
DropsReported ==
    /\ told = 0
    /\ sysTold + since + wraps <= kernelTotal
    /\ sysTold + since + wraps = kernelTotal <=> ~ flooded
=============================================================================
