-------------------------- MODULE BucketizeProofs --------------------------
(***************************************************************************)
(* Promises of the capture thread's arithmetic, for all sizes: which       *)
(* packets are written past the end of their bucket, that the offsets of a *)
(* chain stay below the output file's size, and which drops are reported.  *)
(***************************************************************************)
EXTENDS Bucketize, TLAPS

\* A packet has room for an MTU and a record, or begins past the end: get_pkt_bucket
\* compares an unsigned number (bucketize.c:50).
HasRoom(p) == p + Mtu + Rec <= BktEnd \/ p > BktEnd

\* The bucket holds a packet whose padding may not fit.
NearMtu == longest + (Word - 1) * Rec > Mtu + 1

RoomInv ==
    /\ head \in BOOLEAN /\ next_pkt \in Nat /\ end \in Nat /\ longest \in 0..MaxLen
    /\ head => /\ end > BktEnd <=> last_pkt > BktEnd
               /\ next_pkt > BktEnd => NearMtu

\* The packets of a chain never outgrow the output file.
SizeInv ==
    /\ head \in BOOLEAN /\ chainSize \in Nat
    /\ head => chainSize <= OutFile

\* The padding next_pkt adds is less than a word's worth of packet records
\* (network.c:18-20).
LEMMA PaddingBounded ==
    ASSUME NEW off \in Nat, off # 0, off < Word
    PROVE  (Word - off) * Rec \in Nat /\ (Word - off) * Rec <= (Word - 1) * Rec
<1>1. Word \in Nat /\ Rec \in Nat
  BY SizeAssumption
<1>2. Word - off \in Nat /\ Word - 1 \in Nat /\ off - 1 \in Nat
  BY <1>1
<1>3. (Word - 1) * Rec = (Word - off) * Rec + (off - 1) * Rec
  BY <1>1, <1>2
<1>4. (off - 1) * Rec \in Nat /\ (Word - off) * Rec \in Nat
  BY <1>1, <1>2
<1> QED
  BY <1>3, <1>4

\* The place after a packet is no further than the packet, its record and the
\* largest padding (network.c:15-21).
LEMMA NextPktBounded ==
    ASSUME NEW p \in Nat, NEW len \in MinLen..MaxLen
    PROVE  /\ NextPkt(p, len) \in Nat
           /\ NextPkt(p, len) <= p + (Rec - 1) + len + (Word - 1) * Rec
<1> DEFINE past == p + (Rec - 1) + len
           off == past % Word
<1>1. Word \in Nat \ {0} /\ Rec \in Nat \ {0} /\ len \in Nat
  BY SizeAssumption
<1>2. past \in Nat
  BY <1>1
<1>3. off \in Nat /\ off < Word
  BY <1>1, <1>2
<1>4. (Word - 1) * Rec \in Nat
  BY <1>1
<1>5. CASE off = 0
  <2>1. NextPkt(p, len) = past
    BY <1>5 DEF NextPkt
  <2> QED
    BY <2>1, <1>2, <1>4
<1>6. CASE off # 0
  <2>1. NextPkt(p, len) = past + (Word - off) * Rec
    BY <1>6 DEF NextPkt
  <2>2. (Word - off) * Rec \in Nat /\ (Word - off) * Rec <= (Word - 1) * Rec
    BY <1>3, <1>6, PaddingBounded
  <2> HIDE DEF past, off
  <2>3. past + (Word - off) * Rec \in Nat
    BY <2>2, <1>2
  <2>4. past + (Word - off) * Rec <= past + (Word - 1) * Rec
    BY <2>2, <1>2, <1>4
  <2> USE DEF past
  <2> QED
    BY <2>1, <2>3, <2>4
<1> QED
  BY <1>5, <1>6

\* A sum that is above a bound stays above it when a part of it grows.
LEMMA SumGrows ==
    ASSUME NEW a \in Nat, NEW b \in Nat, NEW c \in Nat, NEW m \in Nat, a >= b, b + c > m
    PROVE  a + c > m
  OBVIOUS

\* A packet that is stored where there is room for an MTU ends in the bucket, and the
\* place after it is there too unless the packet is near the MTU; one that is stored
\* past the end, in a bucket with such a packet, leaves it at that (bucketize.c:125-150).
LEMMA StoreKeepsRoom ==
    ASSUME NEW p \in Nat, NEW len \in MinLen..MaxLen, NEW most \in 0..MaxLen, NEW size,
           HasRoom(p), p > BktEnd => most + (Word - 1) * Rec > Mtu + 1,
           Store(p, len, most, size)
    PROVE  /\ next_pkt' \in Nat /\ end' \in Nat /\ longest' \in 0..MaxLen
           /\ end' > BktEnd <=> last_pkt' > BktEnd
           /\ next_pkt' > BktEnd => NearMtu'
<1> DEFINE pad == (Word - 1) * Rec
<1>1. /\ Word \in Nat \ {0} /\ Rec \in Nat \ {0} /\ len \in Nat /\ MaxLen \in Nat /\ most \in Nat
      /\ len <= MaxLen /\ most <= MaxLen /\ Mtu \in Nat /\ BktEnd \in Nat /\ MaxLen <= Mtu
  BY SizeAssumption
<1>2. pad \in Nat
  BY <1>1
<1>3. /\ next_pkt' = NextPkt(p, len) /\ end' = p + (Rec - 1) + len /\ last_pkt' = p
      /\ longest' = IF len > most THEN len ELSE most
  BY DEF Store
<1>4. next_pkt' \in Nat /\ next_pkt' <= p + (Rec - 1) + len + pad
  BY <1>3, NextPktBounded
<1>5. /\ p > BktEnd => most + pad > Mtu + 1
      /\ NearMtu' <=> longest' + pad > Mtu + 1
  BY DEF NearMtu
<1> HIDE DEF pad
<1>6. longest' \in 0..MaxLen /\ longest' >= len /\ longest' >= most
  BY <1>1, <1>3
<1>7. /\ longest' \in Nat /\ longest' >= len /\ longest' >= most
      /\ len \in Nat /\ most \in Nat /\ Mtu + 1 \in Nat
  BY <1>1, <1>6
<1>8. CASE p + Mtu + Rec <= BktEnd
  <2>1. end' <= BktEnd /\ last_pkt' <= BktEnd /\ end' \in Nat
    BY <1>1, <1>3, <1>8
  <2>2. next_pkt' > BktEnd => len + pad > Mtu + 1
    BY <1>1, <1>2, <1>4, <1>8
  <2>3. next_pkt' > BktEnd => longest' + pad > Mtu + 1
    BY <1>2, <1>7, <2>2, SumGrows
  <2>4. next_pkt' > BktEnd => NearMtu'
    BY <2>3 DEF NearMtu, pad
  <2>5. end' > BktEnd <=> last_pkt' > BktEnd
    BY <1>1, <1>3, <2>1
  <2> QED
    BY <1>4, <1>6, <2>1, <2>4, <2>5, Zenon
<1>9. CASE p > BktEnd
  <2>1. end' > BktEnd /\ last_pkt' > BktEnd /\ end' \in Nat
    BY <1>1, <1>3, <1>9
  <2>2. longest' + pad > Mtu + 1
    BY <1>2, <1>5, <1>9, <1>7, SumGrows
  <2>3. next_pkt' > BktEnd => NearMtu'
    BY <2>2 DEF NearMtu, pad
  <2> QED
    BY <1>4, <1>6, <2>1, <2>3, Zenon
<1> QED
  BY <1>8, <1>9 DEF HasRoom

\* Every step keeps it: a packet goes to the start of a bucket or to a place where
\* get_pkt_bucket found an MTU and a record left, which it also finds past the end.
LEMMA RoomKept ==
    ASSUME RoomInv, [PlaceNext]_placeVars
    PROVE  RoomInv'
<1> USE DEF RoomInv
<1>0. /\ First \in Nat /\ BktEnd \in Nat /\ Mtu \in Nat /\ Rec \in Nat /\ First + Mtu + Rec <= BktEnd
      /\ MaxLen \in Nat
  BY SizeAssumption
<1>9. HasRoom(First) /\ ~(First > BktEnd) /\ 0 \in 0..MaxLen
  BY <1>0 DEF HasRoom
<1>1. ASSUME NEW len \in MinLen..MaxLen, Packet(len)
      PROVE  RoomInv'
  <2>1. CASE PacketNewChain(len)
    <3>1. CASE head' = FALSE /\ UNCHANGED place
      <4>1. ~head' /\ head' \in BOOLEAN
        BY <3>1, Zenon
      <4> QED
        BY <3>1, <4>1 DEF place
    <3>2. CASE head' = TRUE /\ Store(First, len, 0, 0)
      BY <3>2, <1>0, <1>9, StoreKeepsRoom
    <3> QED
      BY <2>1, <3>1, <3>2 DEF PacketNewChain
  <2>2. CASE PacketNewBucket(len)
    <3>1. Store(First, len, 0, chainSize) /\ head' = head
      BY <2>2 DEF PacketNewBucket
    <3> QED
      BY <3>1, <1>0, <1>9, StoreKeepsRoom
  <2>3. CASE PacketSameBucket(len)
    <3>1. Store(next_pkt, len, longest, chainSize) /\ head' = head /\ head /\ ~BucketFull
      BY <2>3 DEF PacketSameBucket, NewChain
    <3>2. HasRoom(next_pkt)
      BY <3>1, <1>0 DEF BucketFull, ToUnsigned, HasRoom
    <3>3. next_pkt > BktEnd => longest + (Word - 1) * Rec > Mtu + 1
      BY <3>1 DEF NearMtu
    <3> QED
      BY <3>1, <3>2, <3>3, StoreKeepsRoom
  <2> QED
    BY <1>1, <2>1, <2>2, <2>3 DEF Packet
<1>2. CASE EndCapture
  <2>1. UNCHANGED place /\ head' \in BOOLEAN /\ (head' => head)
    <3>1. CASE head
      BY <1>2, <3>1, Zenon DEF EndCapture
    <3>2. CASE ~head
      BY <1>2, <3>2 DEF EndCapture
    <3> QED
      BY <3>1, <3>2
  <2> QED
    BY <2>1 DEF place, NearMtu
<1>3. CASE ReadyChange \/ KernelDrop \/ UNCHANGED placeVars
  BY <1>3 DEF ReadyChange, KernelDrop, placeVars, bucket, place, NearMtu
<1> QED
  BY <1>1, <1>2, <1>3 DEF PlaceNext

\* Packets are written past the end of a bucket only after a packet in it that is so
\* near the MTU that its padding did not fit, and then they begin there: whatever the
\* sizes are, with packets up to the MTU (bucketize.c:48-50, network.c:15-21).
THEOREM PacketsInBucket == PlaceSpec => []InBucket
<1>1. ASSUME PlaceInit PROVE RoomInv
  <2>1. ~head /\ head \in BOOLEAN
    BY <1>1, Zenon DEF PlaceInit
  <2>2. next_pkt = 0 /\ end = 0 /\ longest = 0
    BY <1>1 DEF PlaceInit
  <2> QED
    BY <2>1, <2>2, SizeAssumption DEF RoomInv
<1>2. RoomInv /\ [PlaceNext]_placeVars => RoomInv'
  BY RoomKept
<1>3. RoomInv => InBucket
  BY DEF RoomInv, NearMtu, InBucket
<1> QED
  BY <1>1, <1>2, <1>3, PTL DEF PlaceSpec

\* Every step keeps a chain within the output file: a packet is added only when
\* get_pkt_bucket found room for a header and an MTU (bucketize.c:15-18).
LEMMA SizeKept ==
    ASSUME SizeInv, [PlaceNext]_placeVars
    PROVE  SizeInv'
<1> USE DEF SizeInv
<1>0. /\ PktHdr \in Nat /\ Mtu \in Nat /\ OutFile \in Nat /\ PktHdr + Mtu <= OutFile
      /\ \A len \in MinLen..MaxLen : len \in Nat /\ len <= Mtu
  BY SizeAssumption
<1>1. ASSUME NEW len \in MinLen..MaxLen, Packet(len)
      PROVE  SizeInv'
  <2>1. CASE PacketNewChain(len)
    <3>1. CASE head' = FALSE /\ UNCHANGED place
      BY <3>1 DEF place
    <3>2. CASE head' = TRUE /\ Store(First, len, 0, 0)
      <4>1. chainSize' = 0 + PktHdr + len
        BY <3>2 DEF Store
      <4> QED
        BY <3>2, <4>1, <1>0
    <3> QED
      BY <2>1, <3>1, <3>2 DEF PacketNewChain
  <2>2. CASE PacketNewBucket(len)
    BY <2>2, <1>0 DEF PacketNewBucket, Store, NewChain, FileFull
  <2>3. CASE PacketSameBucket(len)
    BY <2>3, <1>0 DEF PacketSameBucket, Store, NewChain, FileFull
  <2> QED
    BY <1>1, <2>1, <2>2, <2>3 DEF Packet
<1>2. CASE EndCapture
  BY <1>2 DEF EndCapture, Send, place
<1>3. CASE ReadyChange
  BY <1>3 DEF ReadyChange, bucket, place
<1>4. CASE KernelDrop
  BY <1>4 DEF KernelDrop, bucket, place
<1>5. CASE UNCHANGED placeVars
  BY <1>5 DEF placeVars, bucket, place
<1> QED
  BY <1>1, <1>2, <1>3, <1>4, <1>5 DEF PlaceNext

\* The offset of every packet of a chain is below outfile_size, so that 32 bits are
\* enough exactly when output.c:240 and 358 say so.
THEOREM OffsetsBounded == PlaceSpec => []OffsetsFit
<1>1. ASSUME PlaceInit PROVE SizeInv
  <2>1. ~head /\ head \in BOOLEAN
    BY <1>1, Zenon DEF PlaceInit
  <2>2. chainSize = 0
    BY <1>1 DEF PlaceInit
  <2> QED
    BY <2>1, <2>2 DEF SizeInv
<1>2. SizeInv /\ [PlaceNext]_placeVars => SizeInv'
  BY SizeKept
<1>3. SizeInv => OffsetsFit
  BY SizeAssumption DEF SizeInv, OffsetsFit
<1> QED
  BY <1>1, <1>2, <1>3, PTL DEF PlaceSpec

-----------------------------------------------------------------------------
(***************************************************************************)
(* The accounting of drops.                                                *)
(***************************************************************************)
\* While a chain is open no packet was dropped since it was begun.  send_bucket, which
\* overwrites the number that get_pkt_bucket put there (bucketize.c:41-43, 75), so
\* always reports none.
LostInv ==
    /\ head \in BOOLEAN /\ dropped \in Nat /\ lost \in Nat /\ told = 0
    /\ head => dropped = 0
    /\ dropped <= lost

\* Until the counter has gone all the way round it shows the drops since the last chain.
KernelInv ==
    /\ kernel \in 0..Max32 /\ last_sys \in 0..Max32 /\ kernelTotal \in Nat /\ sysTold \in Nat
    /\ since \in Nat /\ wraps \in Nat /\ flooded \in BOOLEAN
    /\ since <= Max32 =>
         kernel = IF last_sys + since <= Max32 THEN last_sys + since
                  ELSE last_sys + since - (Max32 + 1)
    /\ sysTold + since + wraps <= kernelTotal
    /\ sysTold + since + wraps = kernelTotal <=> ~ flooded

LEMMA LostKept == ASSUME LostInv, [PlaceNext]_placeVars PROVE LostInv'
<1> USE DEF LostInv
<1>1. ASSUME NEW len \in MinLen..MaxLen, Packet(len)
      PROVE  LostInv'
  <2>1. CASE PacketNewChain(len)
    <3>1. told' = 0
      <4>1. CASE head
        <5>1. Send /\ dropped = 0
          BY <2>1, <4>1 DEF PacketNewChain
        <5> QED
          BY <5>1 DEF Send
      <4>2. CASE ~head
        BY <2>1, <4>2 DEF PacketNewChain, reports
      <4> QED
        BY <4>1, <4>2
    <3>2. CASE head' = FALSE /\ dropped' = dropped + 1 /\ lost' = lost + 1
      <4>1. ~head' /\ head' \in BOOLEAN
        BY <3>2, Zenon
      <4> QED
        BY <3>1, <3>2, <4>1
    <3>3. CASE head' = TRUE /\ dropped' = 0 /\ lost' = lost
      BY <3>1, <3>3
    <3> QED
      BY <2>1, <3>2, <3>3 DEF PacketNewChain
  <2>2. CASE PacketNewBucket(len) \/ PacketSameBucket(len)
    BY <2>2 DEF PacketNewBucket, PacketSameBucket, counters, reports
  <2> QED
    BY <1>1, <2>1, <2>2 DEF Packet
<1>2. CASE EndCapture
  <2>1. lost' = lost /\ dropped' = dropped
    BY <1>2 DEF EndCapture
  <2>2. CASE head
    <3>1. Send /\ dropped = 0
      BY <1>2, <2>2 DEF EndCapture
    <3>2. ~head' /\ head' \in BOOLEAN
      BY <1>2, <2>2, Zenon DEF EndCapture
    <3> QED
      BY <2>1, <3>1, <3>2 DEF Send
  <2>3. CASE ~head
    BY <1>2, <2>1, <2>3 DEF EndCapture, reports
  <2> QED
    BY <2>2, <2>3
<1>3. CASE ReadyChange \/ KernelDrop
  BY <1>3 DEF ReadyChange, KernelDrop, bucket, counters, reports
<1>4. CASE UNCHANGED placeVars
  BY <1>4 DEF placeVars, bucket, counters, reports
<1> QED
  BY <1>1, <1>2, <1>3, <1>4 DEF PlaceNext

\* A report: what it leaves out is one drop if the counter wrapped, and more if it went
\* all the way round.
LEMMA SendKeeps ==
    ASSUME KernelInv, Send, UNCHANGED <<kernel, kernelTotal>>
    PROVE  KernelInv'
<1> DEFINE wrap == IF kernel < last_sys THEN 1 ELSE 0
<1>0. Max32 \in Nat
  BY SizeAssumption
<1>1. /\ kernel \in 0..Max32 /\ last_sys \in 0..Max32 /\ kernelTotal \in Nat /\ sysTold \in Nat
      /\ since \in Nat /\ wraps \in Nat /\ flooded \in BOOLEAN
  BY DEF KernelInv
<1>2. /\ kernel' = kernel /\ kernelTotal' = kernelTotal /\ last_sys' = kernel /\ since' = 0
      /\ wraps' = wraps + wrap /\ sysTold' = sysTold + SysDropped
  BY <1>1 DEF Send, CountReport
<1>3. flooded' \in BOOLEAN /\ (flooded' <=> flooded \/ since > Max32)
  BY <1>1, Zenon DEF Send, CountReport
<1>4. SysDropped \in Nat /\ wrap \in Nat /\ SysDropped + wrap <= Max32
  BY <1>0, <1>1 DEF SysDropped
<1>5. since <= Max32 => SysDropped + wrap = since
  BY <1>0, <1>1 DEF SysDropped, KernelInv
<1> HIDE DEF wrap
<1>6. sysTold + since + wraps <= kernelTotal /\ (sysTold + since + wraps = kernelTotal <=> ~ flooded)
  BY DEF KernelInv
<1>7. CASE since <= Max32
  <2>1. sysTold' + since' + wraps' = sysTold + since + wraps
    BY <1>1, <1>2, <1>4, <1>5, <1>7
  <2>2. flooded' <=> flooded
    BY <1>0, <1>1, <1>3, <1>7
  <2> QED
    BY <1>0, <1>1, <1>2, <1>3, <1>4, <1>6, <2>1, <2>2 DEF KernelInv
<1>8. CASE since > Max32
  <2>1. sysTold' + since' + wraps' < sysTold + since + wraps
    BY <1>0, <1>1, <1>2, <1>4, <1>8
  <2>2. flooded'
    BY <1>3, <1>8
  <2>3. sysTold' + since' + wraps' < kernelTotal'
    BY <1>1, <1>2, <1>4, <1>6, <2>1
  <2> QED
    BY <1>0, <1>1, <1>2, <1>3, <1>4, <2>2, <2>3 DEF KernelInv
<1> QED
  BY <1>0, <1>1, <1>7, <1>8

LEMMA KernelDropKeeps == ASSUME KernelInv, KernelDrop PROVE KernelInv'
<1>0. Max32 \in Nat
  BY SizeAssumption
<1>1. /\ kernel \in 0..Max32 /\ last_sys \in 0..Max32 /\ kernelTotal \in Nat /\ sysTold \in Nat
      /\ since \in Nat /\ wraps \in Nat /\ flooded \in BOOLEAN
  BY DEF KernelInv
<1>2. /\ kernelTotal' = kernelTotal + 1 /\ kernel' = IF kernel = Max32 THEN 0 ELSE kernel + 1
      /\ since' = since + 1 /\ UNCHANGED <<last_sys, sysTold, wraps, flooded>>
  BY DEF KernelDrop
<1>3. since' <= Max32 =>
        kernel' = IF last_sys' + since' <= Max32 THEN last_sys' + since'
                  ELSE last_sys' + since' - (Max32 + 1)
  BY <1>0, <1>1, <1>2 DEF KernelInv
<1>4. sysTold' + since' + wraps' = (sysTold + since + wraps) + 1
  BY <1>1, <1>2
<1>5. kernel' \in 0..Max32
  BY <1>0, <1>1, <1>2
<1>6. sysTold + since + wraps <= kernelTotal /\ (sysTold + since + wraps = kernelTotal <=> ~ flooded)
  BY DEF KernelInv
<1>7. /\ sysTold' + since' + wraps' <= kernelTotal'
      /\ sysTold' + since' + wraps' = kernelTotal' <=> ~ flooded'
  BY <1>1, <1>2, <1>4, <1>6
<1> QED
  BY <1>1, <1>2, <1>3, <1>5, <1>7 DEF KernelInv

LEMMA KernelKept == ASSUME KernelInv, [PlaceNext]_placeVars PROVE KernelInv'
<1>1. CASE UNCHANGED <<kernel, kernelTotal, reports>>
  BY <1>1 DEF KernelInv, reports
<1>2. ASSUME NEW len \in MinLen..MaxLen, Packet(len)
      PROVE  KernelInv'
  <2>1. CASE PacketNewChain(len)
    BY <1>1, <2>1, SendKeeps DEF PacketNewChain
  <2>2. CASE PacketNewBucket(len) \/ PacketSameBucket(len)
    BY <1>1, <2>2 DEF PacketNewBucket, PacketSameBucket, counters, reports
  <2> QED
    BY <1>2, <2>1, <2>2 DEF Packet
<1>3. CASE EndCapture
  BY <1>1, <1>3, SendKeeps DEF EndCapture
<1>4. CASE ReadyChange
  BY <1>1, <1>4 DEF ReadyChange, counters, reports
<1>5. CASE KernelDrop
  BY <1>5, KernelDropKeeps
<1>6. CASE UNCHANGED placeVars
  BY <1>1, <1>6 DEF placeVars, counters, reports
<1> QED
  BY <1>2, <1>3, <1>4, <1>5, <1>6 DEF PlaceNext

\* Of the kernel's drops exactly one is missing for each reported wrap of its counter,
\* and more only if the counter went all the way round between two chains; of the drops
\* for want of a bucket all are missing.  For any width of the counter, whenever chains
\* are sent and wherever the counter began (bucketize.c:75, 83-96).
THEOREM DropsAccounted == PlaceSpec => []DropsReported
<1>1. ASSUME PlaceInit PROVE LostInv /\ KernelInv
  <2>1. ~head /\ head \in BOOLEAN /\ ~flooded /\ flooded \in BOOLEAN
    BY <1>1, Zenon DEF PlaceInit
  <2>2. /\ dropped = 0 /\ lost = 0 /\ told = 0 /\ sysTold = 0 /\ since = 0 /\ wraps = 0
        /\ kernel \in 0..Max32 /\ last_sys = kernel /\ kernelTotal = 0
    BY <1>1 DEF PlaceInit
  <2> QED
    BY <2>1, <2>2, SizeAssumption DEF LostInv, KernelInv
<1>2. LostInv /\ KernelInv /\ [PlaceNext]_placeVars => (LostInv /\ KernelInv)'
  BY LostKept, KernelKept
<1>3. LostInv /\ KernelInv => DropsReported
  BY DEF LostInv, KernelInv, DropsReported
<1> QED
  BY <1>1, <1>2, <1>3, PTL DEF PlaceSpec
=============================================================================
