------------------------------ MODULE SubIndex ------------------------------
(***************************************************************************)
(* The lookup of a key, or of a range of keys, in a sub-index file.        *)
(*                                                                         *)
(* The file holds records sorted by key.  They are searched as a binary    *)
(* tree whose nodes are the positions 1 .. 2^depth - 1; the positions      *)
(* beyond the last record are virtual nodes.  The keys of the top levels   *)
(* are repeated in a preview list beside the header, as many as fit into a *)
(* disk block.  write_index writes both, search_subindex walks first the   *)
(* preview and then the records; nothing but the arithmetic on both sides  *)
(* makes them agree.                                                       *)
(*                                                                         *)
(* Of the keys only their order against the wanted ones matters: the       *)
(* first `less' records have a smaller key than the start of the range,    *)
(* the next `equal' ones have that key, and the keys of the first `upto'   *)
(* are not beyond the end of the range.  The preview list holds record     *)
(* positions in the place of their keys.                                   *)
(***************************************************************************)
EXTENDS Integers, Sequences, Powers

CONSTANTS
    KeysPerBlock,   \* DISK_BLOCK / key_size
    HeaderKeys,     \* the size of the header, in keys
    BufferRecords,  \* MAX_TREE_BUFFER, in records
    Records         \* the sizes of index files to look at

ASSUME SubIndexAssumption ==
    /\ KeysPerBlock \in Nat \ {0} /\ HeaderKeys \in 0..KeysPerBlock
    /\ BufferRecords \in Nat \ {0}
    /\ Records \subseteq Nat

VARIABLES
    n,         \* header.records
    preview,   \* the preview list; header.preview is its length
    less, equal, upto,
    pc,
    index, depth,    \* tree_pos: a position of the tree and its depth
    nIdx, nDepth,    \* the same in the preview tree
    last,            \* last_match_index
    out,             \* the records whose offsets were output
    status,          \* what search_subindex returns
    garbage,         \* a key was compared that was not read from the file (history)
    walked           \* the records at which search_index read one at a time (history)

file == <<n, preview, less, equal, upto>>
subVars == <<file, pc, index, depth, nIdx, nDepth, last, out, status, garbage, walked>>

\* The tree was walked record by record.
slow == walked # {}

-----------------------------------------------------------------------------
\* What write_index writes.

\* The depth of a tree of so many nodes.
TreeDepth(nodes) ==
    CHOOSE d \in 1..(nodes + 1) : Pow2[d] - 1 >= nodes /\ (d = 1 \/ Pow2[d - 1] - 1 < nodes)

\* The loop of node_depth, which goes down from a node of height h to the k-th one
\* of its subtree: the height of that one, or -1.
NodeHeight[h \in Nat] ==
    [k \in Nat |-> IF Pow2[h] = k THEN h
                   ELSE IF h = 0 THEN -1
                   ELSE NodeHeight[h - 1][IF Pow2[h] < k THEN k - Pow2[h] ELSE k]]

\* node_depth: the depth of a node, found by going down from the root.
node_depth(num, nodes) ==
    LET height == NodeHeight[TreeDepth(nodes) - 1][num]
    IN  IF height = -1 THEN 0 ELSE TreeDepth(nodes) - height

\* Mutant of preview_depth: log2 is rounded up.
preview_depth_up(nodes) ==
    IF nodes < KeysPerBlock THEN 0
    ELSE CHOOSE d \in 1..(KeysPerBlock + 1) :
            Pow2[d - 1] <= KeysPerBlock /\ KeysPerBlock < Pow2[d]

\* preview_depth: how many levels of the tree are repeated in the preview.
preview_depth(nodes) ==
    IF nodes < KeysPerBlock THEN 0
    ELSE CHOOSE d \in 0..KeysPerBlock : Pow2[d] <= KeysPerBlock /\ KeysPerBlock < Pow2[d + 1]

\* idx_write_node: the preview list when i records of an index were written.
Listed[i \in Nat] ==
    [nodes \in Nat |-> IF i = 0 THEN <<>>
                       ELSE IF node_depth(i, nodes) <= preview_depth(nodes)
                              THEN Append(Listed[i - 1][nodes], i)
                              ELSE Listed[i - 1][nodes]]

\* The preview list as far as it fits behind the header.
PreviewList(nodes) ==
    LET all == Listed[nodes][nodes]
        room == KeysPerBlock - HeaderKeys
    IN  IF Len(all) > room THEN SubSeq(all, 1, room) ELSE all

-----------------------------------------------------------------------------
\* search_subindex.

Goto(l) == pc' = l

\* kt_key_cmp of the start of the range and the key of a record.
Cmp(i) == IF i <= less THEN 1 ELSE IF i <= less + equal THEN 0 ELSE -1

Depth == TreeDepth(n)

\* The depth of the preview tree, as the reader computes it.
PreviewDepth == CHOOSE d \in 0..KeysPerBlock :
                    Pow2[d + 1] - 1 >= KeysPerBlock /\ (d = 0 \/ Pow2[d] - 1 < KeysPerBlock)

\* Mutant of Down: the step is that of the level above.
DownTwice(i, d, of, cmp) ==
    IF d >= of THEN i
    ELSE IF cmp = 1 THEN i + Pow2[of - d] ELSE i - Pow2[of - d]

\* pos_update_left and pos_update_right, for a node at depth d of a tree of depth
\* of.  Below the lowest level the shift count is -1, which the processor takes for
\* 63; 2^63 times a record size, which is even, is 0, so that the record in hand
\* stays the same.
Down(i, d, of, cmp) ==
    IF d >= of THEN i
    ELSE IF cmp = 1 THEN i + Pow2[of - d - 1] ELSE i - Pow2[of - d - 1]

\* A lookup in a file of some size.
SubInit ==
    /\ n \in Records
    /\ preview = PreviewList(n)
    /\ less \in 0..n
    /\ equal \in 0..(n - less)
    /\ upto \in {less + equal, less + equal + 1, n} \cap 0..n
    /\ pc = IF preview # <<>> THEN "preview" ELSE "index"
    /\ index = Pow2[TreeDepth(n) - 1] /\ depth = 1
    /\ nIdx = IF preview # <<>> THEN Pow2[PreviewDepth - 1] ELSE 0
    /\ nDepth = 1
    /\ last = -1
    /\ out = {} /\ status = "none"
    /\ garbage = FALSE /\ walked = {}

\* search_preview, one turn of its loop at a node the list has.
PreviewNode ==
    /\ pc = "preview"
    /\ nDepth <= PreviewDepth
    /\ nIdx <= Len(preview)
    /\ LET cmp == Cmp(preview[nIdx]) IN
          /\ last' = IF cmp = 0 THEN index ELSE last
          /\ index' = Down(index, depth, Depth, cmp)
          /\ nIdx' = Down(nIdx, nDepth, PreviewDepth, cmp)
    /\ depth' = depth + 1
    /\ nDepth' = nDepth + 1
    /\ UNCHANGED <<file, pc, out, status, garbage, walked>>

\* A virtual node: the position in the tree moves left, the one in the preview
\* does not.  Below the lowest level the position is far beyond the end and stays
\* there, and the loop does not end.
PreviewVirtual ==
    /\ pc = "preview"
    /\ nDepth <= PreviewDepth
    /\ nIdx > Len(preview)
    /\ index > n
    /\ IF depth < Depth
         THEN index' = Down(index, depth, Depth, -1) /\ depth' = depth + 1 /\ pc' = pc
         ELSE Goto("hung") /\ UNCHANGED <<index, depth>>
    /\ UNCHANGED <<file, nIdx, nDepth, last, out, status, garbage, walked>>

\* The end of the list, or of the preview tree.
PreviewEnds ==
    /\ pc = "preview"
    /\ nDepth > PreviewDepth \/ (nIdx > Len(preview) /\ index <= n)
    /\ Goto("index")
    /\ UNCHANGED <<file, index, depth, nIdx, nDepth, last, out, status, garbage, walked>>

Return(what) == status' = what /\ Goto("done")

\* How many records the tree under the current node has room for.
SubtreeRecords == Pow2[Depth - depth + 1] - 1

\* search_index: while the subtree is too large for the buffer, one node is read
\* at a time.  The file position is that of the record behind the node.
SlowVirtual ==
    /\ pc = "index"
    /\ SubtreeRecords > BufferRecords
    /\ index > n
    /\ index' = Down(index, depth, Depth, -1)
    /\ depth' = depth + 1
    /\ UNCHANGED <<file, pc, nIdx, nDepth, last, out, status, garbage, walked>>

SlowNode ==
    /\ pc = "index"
    /\ SubtreeRecords > BufferRecords
    /\ index <= n
    /\ walked' = walked \cup {index}
    /\ IF index + 1 > n
         THEN Return("EIO") /\ UNCHANGED <<index, depth, last>>
         ELSE LET cmp == Cmp(index + 1) IN
              /\ last' = IF cmp = 1 THEN last ELSE index
              /\ index' = Down(index, depth, Depth, cmp)
              /\ depth' = depth + 1
              /\ UNCHANGED <<pc, status>>
    /\ UNCHANGED <<file, nIdx, nDepth, out, garbage>>

\* The subtree fits: its records are read into the buffer.  What the buffer has
\* room for and the file has not is not initialised.
ReadSubtree ==
    /\ pc = "index"
    /\ SubtreeRecords <= BufferRecords
    /\ LET first == index - ((SubtreeRecords + 1) \div 2 - 1) IN
          IF first > n + 1 THEN Return("EIO") ELSE Goto("buffer") /\ UNCHANGED status
    /\ UNCHANGED <<file, index, depth, nIdx, nDepth, last, out, garbage, walked>>

\* What a comparison with a record of the buffer may give.
BufferCmp(i) == IF i > n THEN {-1, 0, 1} ELSE {Cmp(i)}

\* One turn of the last loop: at a virtual node it goes left and then compares
\* with what it finds there, virtual or not.
BufferNode ==
    /\ pc = "buffer"
    /\ depth < Depth
    /\ LET i == IF index > n THEN Down(index, depth, Depth, -1) ELSE index
           d == IF index > n THEN depth + 1 ELSE depth
       IN  \E cmp \in BufferCmp(i) :
              /\ last' = IF cmp = 0 THEN i ELSE last
              /\ index' = Down(i, d, Depth, cmp)
              /\ depth' = d + 1
              /\ garbage' = (garbage \/ i > n)
    /\ UNCHANGED <<file, pc, nIdx, nDepth, out, status, walked>>

\* Mutant of BottomNode: the item at the bottom is not looked at.
SkipBottom ==
    /\ pc = "buffer"
    /\ depth >= Depth
    /\ Goto("found")
    /\ UNCHANGED <<file, index, depth, nIdx, nDepth, last, out, status, garbage, walked>>

\* The item at the bottom of the tree.
BottomNode ==
    /\ pc = "buffer"
    /\ depth >= Depth
    /\ \E cmp \in BufferCmp(index) : last' = IF cmp = 0 THEN index ELSE last
    /\ garbage' = (garbage \/ index > n)
    /\ Goto("found")
    /\ UNCHANGED <<file, index, depth, nIdx, nDepth, out, status, walked>>

\* Mutant of OutputMatches: the last record is never reached.
OutputAllButLast ==
    /\ pc = "found"
    /\ IF last = -1 THEN Return("ok") /\ out' = out
       ELSE IF last > n THEN Return("EIO") /\ out' = out
       ELSE IF last > upto THEN Return("ok") /\ out' = out
       ELSE IF upto >= n - 1 THEN Return("EIO") /\ out' = out
       ELSE Return("ok") /\ out' = last..upto
    /\ UNCHANGED <<file, index, depth, nIdx, nDepth, last, garbage, walked>>

\* output_matches: the records from the match on, until a key is beyond the range.
\* After each record the key of the next one is read, and there is none behind
\* the last record.
OutputMatches ==
    /\ pc = "found"
    /\ IF last = -1 THEN Return("ok") /\ out' = out
       ELSE IF last > n THEN Return("EIO") /\ out' = out
       ELSE IF last > upto THEN Return("ok") /\ out' = out
       ELSE IF upto = n THEN Return("EIO") /\ out' = out
       ELSE Return("ok") /\ out' = last..upto
    /\ UNCHANGED <<file, index, depth, nIdx, nDepth, last, garbage, walked>>

SubNext ==
    \/ PreviewNode \/ PreviewVirtual \/ PreviewEnds
    \/ SlowVirtual \/ SlowNode \/ ReadSubtree \/ BufferNode \/ BottomNode
    \/ OutputMatches

SubSpec == SubInit /\ [][SubNext]_subVars

-----------------------------------------------------------------------------
SubTypeOK ==
    /\ pc \in {"off", "preview", "hung", "index", "buffer", "found", "done"}
    /\ depth \in 1..(Depth + 1) /\ index \in 1..(Pow2[Depth] - 1)
    /\ nDepth \in 1..(PreviewDepth + 1) /\ nIdx \in 0..(Pow2[PreviewDepth] - 1)
    /\ last \in {-1} \cup 1..(Pow2[Depth] - 1)
    /\ out \subseteq 1..n /\ status \in {"none", "ok", "EIO"}
    /\ garbage \in BOOLEAN /\ walked \subseteq 1..n

\* The preview node the reader is at is the one the writer put there for the
\* tree position the reader is at, for every size of the file (node_depth,
\* preview_depth and idx_write_node against search_preview).
PreviewAgrees ==
    pc = "preview" /\ nDepth <= PreviewDepth /\ nIdx <= Len(preview) =>
        preview[nIdx] = index

\* Memory that was not filled is compared with only when the range starts near the
\* end of the index: behind its start less than a quarter of the records that the
\* buffer has room for are left.
UnreadOnlyNearEnd == garbage => 4 * (n - less) < BufferRecords + 1

\* The start of the range is a key of the index: its records and those of the rest of
\* the range are output, and no others, but for one case.  The record before them is
\* taken for the first one exactly when the walk that reads one record at a time
\* comes by it, since that compares with the key of the record behind.
PresentExact ==
    pc = "done" /\ status = "ok" /\ equal > 0 /\ ~ garbage =>
        out = (IF less \in walked THEN less ELSE less + 1)..upto

\* The start of the range is no key of the index: nothing is output, whatever else is
\* in the range, unless the walk that reads one record at a time came by a record that
\* has the place of the start behind it; then it is the lowest such record.
AbsentExact ==
    pc = "done" /\ status = "ok" /\ equal = 0 /\ ~ garbage =>
        out = {i \in 1..upto : \E w \in walked : less <= w /\ w <= i}

\* What a lookup outputs.  By the comments the position that is found is "the first
\* instance of the lowest valued key >= start", whether or not the key is there.  It
\* is in an index of at most half as many records as the buffer has room for, if the
\* key is there; the other cases are told exactly.  Only after a comparison with a key
\* that was not read, which happens only near the end of the index, nothing is said
\* (search_preview, search_index, output_matches; subindex.c:168-171, 468-469).
LookupComplete ==
    /\ PresentExact /\ AbsentExact
    /\ slow => 2 * n > BufferRecords
    /\ UnreadOnlyNearEnd

\* A lookup that does not end, or that fails although it neither walked record by
\* record nor compared with memory it did not fill, is one whose range reaches to
\* the end of the index: no record is beyond it (search_preview, search_index,
\* output_matches).
FailsOnlyAtEnd ==
    pc = "hung" \/ (status = "EIO" /\ ~ slow /\ ~ garbage) => upto = n
=============================================================================
