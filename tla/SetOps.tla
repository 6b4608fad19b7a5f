------------------------------- MODULE SetOps -------------------------------
(***************************************************************************)
(* The set operations of a search on the result files of an index: OR, the *)
(* union over a skip list (or_results, os_slist_union), and AND, the       *)
(* intersection of regular sets without the union of the inverted ones     *)
(* (and_results).  A result file is an ordered set of offsets.             *)
(*                                                                         *)
(* Not modelled: the buffers between an ordered set and its file, and the  *)
(* errors of reading and writing, which end the operation.                 *)
(***************************************************************************)
EXTENDS SkipList, Sequences

CONSTANTS MaxItem    \* bound on the offsets

ASSUME SetAssumption == MaxItem \in Nat

VARIABLES
    given,      \* the input sets
    regular,    \* how many of them are regular in an AND, 0 for an OR
    phase,      \* what the operation does
    opened,     \* how many input sets were opened
    rest,       \* what each ordered set still has
    sl,         \* the skip list
    last_item,  \* the item of the union that is to be output
    union,      \* the output of the union
    inv,        \* next_inv_item and the items of inv_set after it
    curr_set,   \* the regular set whose turn it is
    curr_item,  \* the item that is looked for in all regular sets
    matches,    \* match_count
    inter       \* the output of the AND

slistVars == <<sl, last_item, union>>
andVars == <<inv, curr_set, curr_item, matches, inter>>
setVars == <<given, regular, phase, opened, rest, slistVars, andVars>>

Inputs == 1..Len(given)

\* What an output of the operation holds for those who read it.
Items(s) == {s[i] : i \in 1..Len(s)}

\* An AND has at least one regular set (the usage text of the search process).
SetInit ==
    /\ given \in UNION {[1..k -> SUBSET (1..MaxItem)] : k \in 1..MaxOsets}
    /\ regular \in 0..Len(given)
    /\ phase = "open" /\ opened = 0
    /\ rest = [o \in Oset |-> IF o \in Inputs THEN given[o] ELSE {}]
    /\ sl = os_slist_init /\ last_item = 0 /\ union = <<>>
    /\ inv = {} /\ curr_set = 1 /\ curr_item = 0 /\ matches = 0 /\ inter = <<>>

-----------------------------------------------------------------------------
\* The next input file is opened: the regular sets of an AND form a loop, the
\* others go to the skip list.
OpenSet ==
    /\ phase = "open" /\ opened < Len(given)
    /\ opened' = opened + 1
    /\ sl' = IF opened' <= regular THEN sl ELSE os_slist_add(sl, rest, opened')
    /\ UNCHANGED <<given, regular, phase, rest, last_item, union, andVars>>

\* An AND has no inverted sets, or one, which is taken as it is; otherwise, and
\* in an OR, the union comes first.
Opened ==
    /\ phase = "open" /\ opened = Len(given)
    /\ IF regular > 0 /\ sl.size <= 1
         THEN /\ phase' = "and"
              /\ inv' = IF sl.size = 1 THEN rest[FirstOf(sl)] ELSE {}
              /\ sl' = IF sl.size = 1 THEN os_slist_remove(os_slist_pop(sl)) ELSE sl
         ELSE phase' = "first" /\ UNCHANGED <<sl, inv>>
    /\ UNCHANGED <<given, regular, opened, rest, last_item, union,
                   curr_set, curr_item, matches, inter>>

\* The first ordered set loses its first item and is inserted again.
TakeFirst ==
    LET o == FirstOf(sl) IN
    /\ rest' = [rest EXCEPT ![o] = @ \ {Least(@)}]
    /\ sl' = os_slist_reinsert(os_slist_pop(sl), rest', o)

UnionFirst ==
    /\ phase = "first" /\ FirstOf(sl) # Null
    /\ phase' = "union"
    /\ last_item' = Least(rest[FirstOf(sl)])
    /\ TakeFirst
    /\ UNCHANGED <<given, regular, opened, union, andVars>>

\* The loop: an item is output when the next one differs.
UnionNext ==
    /\ phase = "union" /\ FirstOf(sl) # Null
    /\ last_item' = Least(rest[FirstOf(sl)])
    /\ union' = IF last_item' # last_item THEN Append(union, last_item) ELSE union
    /\ TakeFirst
    /\ UNCHANGED <<given, regular, phase, opened, andVars>>

\* The list is empty, maybe from the start, and the last item is output.
UnionEnd ==
    /\ phase \in {"first", "union"} /\ FirstOf(sl) = Null
    /\ union' = IF phase = "union" THEN Append(union, last_item) ELSE union
    /\ phase' = IF regular = 0 THEN "done" ELSE "and"
    /\ inv' = IF regular = 0 THEN inv ELSE Items(union')
    /\ UNCHANGED <<given, regular, opened, rest, sl, last_item,
                   curr_set, curr_item, matches, inter>>

-----------------------------------------------------------------------------
\* All regular sets have the item: it is output unless it is inverted.
Match ==
    /\ phase = "and" /\ matches = regular
    /\ inv' = {i \in inv : i >= curr_item}
    /\ inter' = IF inv' # {} /\ Least(inv') = curr_item THEN inter
                ELSE Append(inter, curr_item)
    /\ matches' = 0
    /\ UNCHANGED <<given, regular, phase, opened, rest, slistVars, curr_set, curr_item>>

\* Mutant of Advance: a larger item does not start the count again.
AdvanceCounts ==
    /\ phase = "and" /\ matches < regular
    /\ LET left == {i \in rest[curr_set] : i >= curr_item} IN
          IF left = {}
            THEN /\ phase' = "done"
                 /\ rest' = [rest EXCEPT ![curr_set] = {}]
                 /\ UNCHANGED <<curr_set, curr_item, matches>>
            ELSE /\ rest' = [rest EXCEPT ![curr_set] = left \ {Least(left)}]
                 /\ curr_item' = Least(left)
                 /\ matches' = matches + 1
                 /\ curr_set' = (curr_set % regular) + 1
                 /\ phase' = phase
    /\ UNCHANGED <<given, regular, opened, slistVars, inv, inter>>

\* The current set is read up to an item that is not smaller than the one that is
\* looked for.  A larger one is looked for from now on; a set without any ends it.
Advance ==
    /\ phase = "and" /\ matches < regular
    /\ LET left == {i \in rest[curr_set] : i >= curr_item} IN
          IF left = {}
            THEN /\ phase' = "done"
                 /\ rest' = [rest EXCEPT ![curr_set] = {}]
                 /\ UNCHANGED <<curr_set, curr_item, matches>>
            ELSE /\ rest' = [rest EXCEPT ![curr_set] = left \ {Least(left)}]
                 /\ curr_item' = Least(left)
                 /\ matches' = IF Least(left) > curr_item THEN 1 ELSE matches + 1
                 /\ curr_set' = (curr_set % regular) + 1
                 /\ phase' = phase
    /\ UNCHANGED <<given, regular, opened, slistVars, inv, inter>>

SetNext == OpenSet \/ Opened \/ UnionFirst \/ UnionNext \/ UnionEnd \/ Match \/ Advance

SetSpec == SetInit /\ [][SetNext]_setVars

-----------------------------------------------------------------------------
SetTypeOK ==
    /\ phase \in {"open", "first", "union", "and", "done"}
    /\ sl \in SkipLists
    /\ matches \in 0..regular /\ curr_item \in 0..MaxItem

\* The ordered sets the list has to hold: those that were added and have items.
InList ==
    IF phase = "and" THEN {}
    ELSE {o \in Oset : regular < o /\ o <= opened /\ rest[o] # {}}

\* The skip list is sound whenever an operation on it is over: its lowest level
\* holds exactly the ordered sets that have items, in the order of their next
\* items, and every level in use those of them that have it.  So no link that will
\* be followed leads to an ordered set that was freed, though the number of levels
\* shrinks while links above it stay as they were (os_slist_pop,
\* os_slist_reinsert, os_slist_remove).
SkipListSound ==
    phase \in {"open", "first", "union", "and"} =>
        Holds(sl, InList, rest) /\ sl.size = Cardinality(InList)

Sorted(s) == \A i, j \in 1..Len(s) : i < j => s[i] < s[j]

\* Every output is ascending, so it can be read as an ordered set.  An OR outputs the
\* items of all its sets and an AND those that all regular sets and no inverted one
\* have, whichever sets are empty, equal or overlap (or_results, and_results,
\* os_slist_union).
ResultExact ==
    /\ Sorted(union) /\ Sorted(inter)
    /\ phase = "done" =>
          IF regular = 0
            THEN Items(union) = UNION {given[i] : i \in Inputs}
            ELSE Items(inter) = {x \in 1..MaxItem :
                    /\ \A i \in 1..regular : x \in given[i]
                    /\ \A i \in (regular + 1)..Len(given) : x \notin given[i]}
=============================================================================
