------------------------------ MODULE SkipList ------------------------------
(***************************************************************************)
(* The skip list of ordered_set.c, as operators on a record.  It keeps     *)
(* ordered sets, sorted by their next item, while their union is taken.    *)
(* How many levels an ordered set gets depends on a counter, not on luck,  *)
(* and the number of levels in use shrinks as ordered sets run empty.      *)
(*                                                                         *)
(* rest is the items each ordered set still has.  They are read in         *)
(* ascending order.  An ordered set without any is cleaned up: its memory  *)
(* is freed.                                                               *)
(***************************************************************************)
EXTENDS Integers, FiniteSets, Powers

CONSTANTS
    MaxOsets,   \* bound on the ordered sets
    MaxLevels   \* MAX_SKIP_LIST_LEVELS

ASSUME SkipListAssumption ==
    MaxOsets \in Nat /\ MaxLevels \in Nat \ {0} /\ MaxOsets < Pow2[MaxLevels]

Oset == 1..MaxOsets
Null == 0
ListHead == -1
Level == 0..(MaxLevels - 1)

\* A skip list.  The links of the ordered sets are kept with it.
SkipLists ==
    [skip : [Oset \cup {ListHead} -> [Level -> Oset \cup {Null}]],
     skip_levels : [Oset -> 0..MaxLevels],
     items_inserted : Nat, size : 0..MaxOsets, max_level : 0..MaxLevels]

os_slist_init ==
    [skip |-> [o \in Oset \cup {ListHead} |-> [l \in Level |-> Null]],
     skip_levels |-> [o \in Oset |-> 0],
     items_inserted |-> 0, size |-> 0, max_level |-> 0]

\* ord_set_peek: the next item of an ordered set that is not empty.
Least(items) == CHOOSE i \in items : \A j \in items : i <= j

\* The levels for a list of that size: the number of its binary digits.
LevelsFor(size) == CHOOSE m \in 0..MaxLevels : size < Pow2[m] /\ \A k \in 0..(m - 1) : size >= Pow2[k]

Resize(sl, size) == [sl EXCEPT !.size = size, !.max_level = LevelsFor(size)]

\* Called when an ordered set is gone for good.
os_slist_remove(sl) == Resize(sl, sl.size - 1)

\* The first ordered set of the list, which os_slist_pop returns.
FirstOf(sl) == sl.skip[ListHead][0]

\* Mutant of os_slist_pop: links of the head on the levels above stay.
os_slist_pop_bottom(sl) == [sl EXCEPT !.skip[ListHead][0] = sl.skip[FirstOf(sl)][0]]

\* What it leaves: on each level, from the bottom up to the first that starts with
\* another ordered set, the head is linked to the successor.
os_slist_pop(sl) ==
    LET o == FirstOf(sl)
        starts(l) == l < sl.max_level /\ l < sl.skip_levels[o] /\ sl.skip[ListHead][l] = o
    IN  [sl EXCEPT !.skip[ListHead] =
            [l \in Level |-> IF \A k \in 0..l : starts(k) THEN sl.skip[o][l] ELSE @[l]]]

\* o is linked in behind prior.
LinkIn(sl, prior, o, lvl) ==
    [sl EXCEPT !.skip[prior][lvl] = o, !.skip[o][lvl] = sl.skip[prior][lvl]]

\* The search for the place of o, from prior on level lvl downwards, with the links
\* that are set on the way, for at most k turns of the loop.  o goes behind all that
\* start with the same item.
Descend[k \in Nat] ==
    [x \in [sl : SkipLists, rest : [Oset -> SUBSET Nat], o : Oset,
            lvl : {-1} \cup Level, prior : Oset \cup {ListHead}] |->
        LET next == x.sl.skip[x.prior][x.lvl] IN
        IF k = 0 \/ x.lvl < 0 THEN x.sl
        ELSE IF next # Null /\ x.rest[next] = {}
          THEN x.sl     \* "Found an empty ordered set": o is not inserted
        ELSE IF next # Null /\ Least(x.rest[x.o]) >= Least(x.rest[next])
          THEN Descend[k - 1][[x EXCEPT !.prior = next]]
        ELSE Descend[k - 1][[x EXCEPT !.lvl = @ - 1,
                                      !.sl = IF x.sl.skip_levels[x.o] > x.lvl
                                               THEN LinkIn(@, x.prior, x.o, x.lvl) ELSE @]]]

\* An ordered set is put in its place, unless it has run empty.
os_slist_reinsert(sl, rest, o) ==
    LET levels == Cardinality({l \in 0..(sl.max_level - 1) : sl.items_inserted % Pow2[l] = 0})
        new == [sl EXCEPT !.skip_levels[o] = levels,
                          !.skip[o] = [l \in Level |-> IF l < levels THEN Null ELSE @[l]],
                          !.items_inserted = @ + 1]
    IN  IF rest[o] = {} THEN os_slist_remove(new)
        ELSE Descend[MaxLevels + MaxOsets][[sl |-> new, rest |-> rest, o |-> o,
                                            lvl |-> new.max_level - 1, prior |-> ListHead]]

os_slist_add(sl, rest, o) == os_slist_reinsert(Resize(sl, sl.size + 1), rest, o)

-----------------------------------------------------------------------------
\* The ordered sets of L that are on a level.
OnLevel(sl, L, lvl) == {o \in L : sl.skip_levels[o] > lvl}

\* With pos for the places of the ordered sets of L: on that level, the link of o
\* leads to the next one, or to none.
LinkedTo(sl, L, pos, lvl, o) ==
    LET at == IF o = ListHead THEN 0 ELSE pos[o]
        next == sl.skip[o][lvl]
    IN  IF next = Null THEN \A x \in OnLevel(sl, L, lvl) : pos[x] <= at
        ELSE /\ next \in OnLevel(sl, L, lvl) /\ at < pos[next]
             /\ \A x \in OnLevel(sl, L, lvl) : pos[x] <= at \/ pos[next] <= pos[x]

LevelLinked(sl, L, pos, lvl) ==
    \A o \in OnLevel(sl, L, lvl) \cup {ListHead} : LinkedTo(sl, L, pos, lvl, o)

\* pos gives the places of the ordered sets of L, in the order of their next items.
InOrder(L, rest, pos) ==
    \A x, y \in L : x # y => pos[x] # pos[y] /\ (pos[x] < pos[y] => Least(rest[x]) <= Least(rest[y]))

\* The list holds the ordered sets of L: in the order of their next items on the
\* lowest level, and on every level in use those that have it.
Holds(sl, L, rest) ==
    /\ \A o \in L : rest[o] # {} /\ sl.skip_levels[o] > 0
    /\ \E pos \in [L -> 1..Cardinality(L)] :
          /\ InOrder(L, rest, pos)
          /\ \A lvl \in {0} \cup 0..(sl.max_level - 1) : LevelLinked(sl, L, pos, lvl)
=============================================================================
