-------------------------- MODULE OrderedSetProofs --------------------------
(***************************************************************************)
(* Proofs about the ordered sets of ordered_set.c: the files they are      *)
(* kept in (ResultFile), for any searches and any number of deaths, and    *)
(* the operations on them (SkipList, SetOps), for any number of sets,      *)
(* items and levels.                                                       *)
(***************************************************************************)
EXTENDS ResultFile, SetOps, SubIndexProofs, FiniteSetTheorems

-----------------------------------------------------------------------------
(***************************************************************************)
(* The files.                                                              *)
(***************************************************************************)
Labels == {"look", "tmp", "unlink", "create", "exists", "write", "rename", "open", "access",
           "watch", "again", "poll", "reopen", "read", "failed", "dead"}

Types ==
    /\ at \in [Search -> Labels]
    /\ tmp \in Search \cup {NoFile} /\ final \in Search \cup {NoFile}
    /\ robbed \in BOOLEAN /\ crashes \in Nat

\* A search that makes the file owns the temporary one, and there is no other owner
\* than a search that died or failed.
OwnerOK ==
    /\ \A p \in Search : at[p] \in {"write", "rename"} => tmp = p
    /\ tmp # NoFile => at[tmp] \in {"write", "rename", "dead", "failed"}

\* What is renamed has all its items, unless a write failed.
Unwritten == {"look", "tmp", "unlink", "create", "exists", "write"}
ItemsOK ==
    /\ \A p \in Search : at[p] \in Unwritten => p \notin complete /\ p \notin broken
    /\ \A p \in Search : at[p] = "rename" => (p \in complete <=> p \notin broken)
    /\ final # NoFile => (final \in complete <=> final \notin broken)

ReadyInv == Types /\ (~robbed => OwnerOK /\ ItemsOK)

-----------------------------------------------------------------------------
\* Every step of a search keeps the types.
LEMMA TypesKept == ASSUME Types, [Next]_vars PROVE Types'
<1> USE ResultAssumption DEF Types, Labels, Goes, files
<1>1. ASSUME NEW p \in Search, Look(p) \/ LookTmp(p) \/ Exists(p) PROVE Types'
  BY <1>1 DEF Look, LookTmp, Exists
<1>2. ASSUME NEW p \in Search, Unlink(p) PROVE Types'
  <2>1. robbed' \in BOOLEAN
    BY <1>2, Zenon DEF Unlink
  <2> QED
    BY <1>2, <2>1 DEF Unlink
<1>3. ASSUME NEW p \in Search, Create(p) \/ Write(p) \/ WriteFails(p) \/ Rename(p) PROVE Types'
  BY <1>3 DEF Create, Write, WriteFails, Rename
<1>4. ASSUME NEW p \in Search,
             Open(p) \/ AccessTmp(p) \/ AddWatch(p) \/ AccessAgain(p) \/ Poll(p) \/ Reopen(p) \/ Crash(p)
      PROVE  Types'
  BY <1>4 DEF Open, AccessTmp, AddWatch, AccessAgain, Poll, Reopen, Crash
<1>5. CASE UNCHANGED vars
  BY <1>5 DEF vars
<1> QED
  BY <1>1, <1>2, <1>3, <1>4, <1>5 DEF Next, Step

\* A step that touches no file: a search that makes the file goes on doing so, or dies.
LEMMA LookingKeeps ==
  ASSUME Types, OwnerOK, ItemsOK, NEW p \in Search, NEW l,
         Goes(p, l), UNCHANGED <<tmp, final, complete, broken>>,
         \/ at[p] \notin {"write", "rename", "dead", "failed"} /\ l \notin {"write", "rename"}
         \/ at[p] \in {"write", "rename"} /\ l = "dead",
         l \in Unwritten => at[p] \in Unwritten
  PROVE  OwnerOK' /\ ItemsOK'
<1> USE DEF Types, Goes
<1>1. \A q \in Search : at'[q] \in {"write", "rename"} => at[q] = at'[q]
  OBVIOUS
<1>2. tmp # NoFile => at'[tmp] \in {"write", "rename", "dead", "failed"}
  BY DEF OwnerOK
<1>3. \A q \in Search : at'[q] \in Unwritten => at[q] \in Unwritten
  OBVIOUS
<1> QED
  BY <1>1, <1>2, <1>3 DEF OwnerOK, ItemsOK

\* Without the call of ord_set_cleanup after EEXIST, every step keeps files whole and
\* owned; or it takes a live writer's file, which robbed remembers.
LEMMA ReadyKept == ASSUME ~CleansUp, ReadyInv, [Next]_vars PROVE ReadyInv'
<1> USE DEF files
<1>1. Types /\ Types'
  BY TypesKept DEF ReadyInv
<1>2. SUFFICES ASSUME ~robbed' PROVE OwnerOK' /\ ItemsOK'
  BY <1>1 DEF ReadyInv
<1>3. ~robbed
  BY <1>2 DEF Next, Step, Look, LookTmp, Unlink, Create, Exists, Write, WriteFails, Rename, Open,
              AccessTmp, AddWatch, AccessAgain, Poll, Reopen, Crash, vars
<1>4. OwnerOK /\ ItemsOK
  BY <1>3 DEF ReadyInv
<1>5. NoFile \notin Search
  BY ResultAssumption
<1>6. ASSUME NEW p \in Search, Look(p) \/ LookTmp(p) \/ Exists(p) PROVE OwnerOK' /\ ItemsOK'
  <2>1. \E l \in {"tmp", "exists", "create", "unlink", "open"} : Goes(p, l)
    BY <1>6 DEF Look, LookTmp, Exists
  <2>2. at[p] \in Unwritten \ {"write"} /\ UNCHANGED <<tmp, final, complete, broken>>
    BY <1>6 DEF Look, LookTmp, Exists, Unwritten
  <2> QED
    BY <1>1, <1>4, <2>1, <2>2, LookingKeeps DEF Unwritten
<1>7. ASSUME NEW p \in Search, Unlink(p) PROVE OwnerOK' /\ ItemsOK'
  <2>1. /\ at[p] = "unlink" /\ at' = [at EXCEPT ![p] = "create"] /\ tmp' = NoFile
        /\ UNCHANGED <<final, complete, broken>> /\ (tmp = NoFile \/ Abandoned(tmp))
    BY <1>2, <1>7 DEF Unlink, Goes
  <2>2. \A q \in Search : at[q] \notin {"write", "rename"}
    BY <1>4, <1>5, <2>1 DEF OwnerOK, Abandoned
  <2>3. /\ \A q \in Search : at'[q] \notin {"write", "rename"}
        /\ \A q \in Search : at'[q] \in Unwritten => at[q] \in Unwritten
    BY <1>1, <2>1, <2>2 DEF Types, Unwritten
  <2> QED
    BY <1>4, <2>1, <2>3 DEF OwnerOK, ItemsOK
<1>8. ASSUME NEW p \in Search, Create(p) PROVE OwnerOK' /\ ItemsOK'
  <2>1. CASE tmp = NoFile
    <3>1. /\ at[p] = "create" /\ tmp' = p /\ at' = [at EXCEPT ![p] = "write"]
          /\ UNCHANGED <<final, complete, broken>>
      BY <1>8, <2>1 DEF Create, Goes
    <3>2. \A q \in Search : at[q] \notin {"write", "rename"}
      BY <1>4, <1>5, <2>1 DEF OwnerOK
    <3> QED
      BY <1>1, <1>4, <3>1, <3>2 DEF OwnerOK, ItemsOK, Types, Unwritten
  <2>2. CASE tmp # NoFile
    BY <1>1, <1>4, <1>8, <2>2, LookingKeeps DEF Create, Unwritten
  <2> QED
    BY <2>1, <2>2
<1>9. ASSUME NEW p \in Search, Write(p) \/ WriteFails(p) PROVE OwnerOK' /\ ItemsOK'
  <2>1. /\ at[p] = "write" /\ tmp = p /\ p # NoFile /\ UNCHANGED <<tmp, final>>
        /\ p \notin complete /\ p \notin broken
    BY <1>4, <1>5, <1>9 DEF Write, WriteFails, OwnerOK, ItemsOK, Unwritten
  <2>2. \/ complete' = complete \cup {p} /\ broken' = broken
        \/ complete' = complete /\ broken' = broken \cup {p}
    BY <1>9 DEF Write, WriteFails
  <2>3. PICK l \in {"rename", "failed"} : at' = [at EXCEPT ![p] = l]
    BY <1>9 DEF Write, WriteFails, Goes
  <2>4. \A q \in Search \ {p} : at'[q] = at[q] /\ at[q] \notin {"write", "rename"}
    BY <1>1, <1>4, <2>1, <2>3 DEF Types, OwnerOK
  <2>5. OwnerOK'
    BY <1>1, <2>1, <2>3, <2>4 DEF OwnerOK, Types
  <2>6. final = p => (p \in complete' <=> p \notin broken')
    BY <2>1, <2>2
  <2>7. ItemsOK'
    BY <1>1, <1>4, <2>1, <2>2, <2>3, <2>4, <2>6 DEF ItemsOK, Types, Unwritten
  <2> QED
    BY <2>5, <2>7
<1>10. ASSUME NEW p \in Search, Rename(p) PROVE OwnerOK' /\ ItemsOK'
  <2>1. tmp = p /\ (p \in complete <=> p \notin broken) /\ p # NoFile
    BY <1>4, <1>5, <1>10 DEF Rename, OwnerOK, ItemsOK
  <2>2. final' = p /\ tmp' = NoFile /\ UNCHANGED <<complete, broken>>
    BY <1>10, <2>1 DEF Rename
  <2>3. PICK l \in {"open", "failed"} : at' = [at EXCEPT ![p] = l]
    BY <1>10 DEF Rename, Goes
  <2>4. /\ \A q \in Search : at'[q] \notin {"write", "rename"}
        /\ \A q \in Search : at'[q] \in Unwritten => at[q] \in Unwritten
    BY <1>1, <1>4, <2>1, <2>3 DEF Types, OwnerOK, Unwritten
  <2> QED
    BY <1>4, <2>1, <2>2, <2>4 DEF OwnerOK, ItemsOK
<1>11. ASSUME NEW p \in Search,
              Open(p) \/ AccessTmp(p) \/ AddWatch(p) \/ AccessAgain(p) \/ Poll(p) \/ Reopen(p)
       PROVE  OwnerOK' /\ ItemsOK'
  <2>1. \E l \in {"access", "read", "failed", "watch", "again", "poll", "reopen"} : Goes(p, l)
    BY <1>11 DEF Open, AccessTmp, AddWatch, AccessAgain, Poll, Reopen
  <2>2. at[p] \notin {"write", "rename", "dead", "failed"} /\ UNCHANGED <<tmp, final, complete, broken>>
    BY <1>11 DEF Open, AccessTmp, AddWatch, AccessAgain, Poll, Reopen
  <2> QED
    BY <1>1, <1>4, <2>1, <2>2, LookingKeeps DEF Unwritten
<1>12. ASSUME NEW p \in Search, Crash(p) PROVE OwnerOK' /\ ItemsOK'
  BY <1>1, <1>4, <1>12, LookingKeeps DEF Crash, Unwritten
<1>13. CASE UNCHANGED vars
  BY <1>4, <1>13 DEF vars, OwnerOK, ItemsOK
<1> QED
  BY <1>6, <1>7, <1>8, <1>9, <1>10, <1>11, <1>12, <1>13 DEF Next, Step

\* At the start there are no files.
LEMMA ReadyInit == ASSUME Init PROVE ReadyInv /\ ~robbed
<1>1. robbed \in BOOLEAN /\ ~robbed
  BY Zenon DEF Init
<1> QED
  BY <1>1 DEF Init, ReadyInv, Types, Labels, OwnerOK, ItemsOK

\* In a step that does not clean up after EEXIST, a result file that can be found has all
\* its items exactly unless one of its own writes failed, however many searches make it
\* at a time, die or fail, as long as none takes the file of a live writer for an
\* abandoned one (ordered_set.c:168-187, 432-460).
THEOREM ReadyAtomically == ASSUME ~CleansUp PROVE Spec => []CompleteUnlessFailed
<1>1. Init => ReadyInv
  BY ReadyInit
<1>2. ReadyInv /\ [Next]_vars => ReadyInv'
  BY ReadyKept
<1>3. ReadyInv => CompleteUnlessFailed
  BY DEF ReadyInv, ItemsOK, CompleteUnlessFailed
<1> QED
  BY <1>1, <1>2, <1>3, PTL DEF Spec

-----------------------------------------------------------------------------
\* Nobody is dead, no write failed, nobody takes a file for abandoned.
PeaceInv ==
    /\ ReadyInv /\ ~robbed /\ broken = {}
    /\ tmp # NoFile => at[tmp] \in {"write", "rename"}
    /\ \A p \in Search : at[p] \notin {"dead", "unlink"}

\* When no search dies, no write fails and no writer pauses for longer than the
\* time-outs, no search ever removes a temporary file, and what is found under the final
\* name is complete without exception (ordered_set.c:96-131, 168-187).
THEOREM ReadyWithoutFaults ==
    ASSUME ~CleansUp, ~Pauses, MaxCrashes = 0, MaxErrors = 0
    PROVE  Spec => [](~robbed /\ (final # NoFile => final \in complete))
<1>1. Init => PeaceInv
  BY ReadyInit DEF Init, PeaceInv
<1>2. ASSUME PeaceInv, [Next]_vars PROVE PeaceInv'
  <2> USE DEF files, Goes
  <2>1. ReadyInv' /\ Types /\ OwnerOK
    BY <1>2, ReadyKept DEF PeaceInv, ReadyInv
  <2>0. NoFile \notin Search
    BY ResultAssumption
  <2>2. ASSUME NEW p \in Search, LookTmp(p) PROVE PeaceInv'
    <3>1. ~Idle(tmp) \/ tmp = NoFile
      BY <1>2, <2>1 DEF Idle, Abandoned, PeaceInv, Types
    <3> QED
      BY <1>2, <2>1, <2>2, <3>1 DEF LookTmp, PeaceInv, Types
  <2>3. ASSUME NEW p \in Search, Look(p) \/ Create(p) \/ Exists(p) \/ Write(p) \/ Rename(p)
        PROVE  PeaceInv'
    <3>1. CASE Look(p) \/ Exists(p) \/ Write(p)
      BY <1>2, <2>1, <3>1 DEF Look, Exists, Write, PeaceInv, Types
    <3>2. CASE Create(p)
      BY <1>2, <2>0, <2>1, <3>2 DEF Create, PeaceInv, Types
    <3>3. CASE Rename(p)
      BY <1>2, <2>0, <2>1, <3>3 DEF Rename, PeaceInv, Types, OwnerOK
    <3> QED
      BY <2>3, <3>1, <3>2, <3>3
  <2>4. ASSUME NEW p \in Search,
               Open(p) \/ AccessTmp(p) \/ AddWatch(p) \/ AccessAgain(p) \/ Poll(p) \/ Reopen(p)
        PROVE  PeaceInv'
    BY <1>2, <2>1, <2>4 DEF Open, AccessTmp, AddWatch, AccessAgain, Poll, Reopen, PeaceInv, Types
  <2>5. \A p \in Search : ~Unlink(p) /\ ~Crash(p) /\ ~WriteFails(p)
    <3>1. Cardinality(broken) = 0
      BY <1>2, FS_EmptySet DEF PeaceInv
    <3> QED
      BY <1>2, <2>1, <3>1 DEF Unlink, Crash, WriteFails, PeaceInv, Types
  <2>6. CASE UNCHANGED vars
    BY <1>2, <2>1, <2>6 DEF vars, PeaceInv
  <2> QED
    BY <1>2, <2>2, <2>3, <2>4, <2>5, <2>6 DEF Next, Step
<1>3. PeaceInv => ~robbed /\ (final # NoFile => final \in complete)
  BY DEF PeaceInv, ReadyInv, ItemsOK
<1> QED
  BY <1>1, <1>2, <1>3, PTL DEF Spec

-----------------------------------------------------------------------------
(***************************************************************************)
(* The skip list.                                                          *)
(***************************************************************************)

\* The least item of a set of items.
LEMMA LeastFacts ==
    ASSUME NEW T, T \subseteq Nat, T # {}
    PROVE  Least(T) \in T /\ \A j \in T : Least(T) <= j
BY NatMin, Zenon DEF Least

\* The ordered sets, the head and the levels are told apart.
LEMMA OsetFacts ==
    /\ MaxOsets \in Nat /\ MaxLevels \in Nat \ {0}
    /\ \A o \in Oset : o \in Nat \ {0} /\ o # ListHead /\ o # Null
    /\ ListHead # Null /\ Level \subseteq Nat
    /\ 0 \in Level
    /\ IsFiniteSet(Oset) /\ Cardinality(Oset) = MaxOsets
<1>1. MaxOsets \in Nat /\ MaxLevels \in Nat \ {0}
  BY SkipListAssumption
<1>2. \A o \in Oset : o \in Nat \ {0} /\ o # ListHead /\ o # Null
  BY <1>1 DEF Oset, ListHead, Null
<1>3. ListHead # Null /\ Level \subseteq Nat /\ 0 \in Level
  BY <1>1 DEF Level, ListHead, Null
<1>4. IsFiniteSet(Oset) /\ Cardinality(Oset) = MaxOsets
  BY <1>1, FS_Interval DEF Oset
<1> QED BY <1>1, <1>2, <1>3, <1>4

\* How many ordered sets there can be.
LEMMA SomeOsets ==
    ASSUME NEW L \in SUBSET Oset
    PROVE  IsFiniteSet(L) /\ Cardinality(L) \in Nat /\ Cardinality(L) <= MaxOsets
<1>1. IsFiniteSet(L) /\ Cardinality(L) <= MaxOsets
  BY OsetFacts, FS_Subset
<1> QED BY <1>1, FS_CardinalityType

\* The number of levels for a size: enough, and not more than needed.
LEMMA LevelsForFacts ==
    ASSUME NEW m \in 0..MaxOsets
    PROVE  /\ LevelsFor(m) \in 0..MaxLevels
           /\ m < Pow2[LevelsFor(m)]
           /\ \A k \in 0..(LevelsFor(m) - 1) : m >= Pow2[k]
<1> DEFINE T == {k \in Nat : m < Pow2[k]}
<1>0. m \in Nat /\ MaxOsets \in Nat /\ MaxLevels \in Nat /\ MaxOsets < Pow2[MaxLevels]
  BY SkipListAssumption
<1>1. \A k \in Nat : Pow2[k] \in Nat
  BY Pow2Rec
<1>2. MaxLevels \in T
  BY <1>0, <1>1
<1>3. PICK x \in T : \A y \in T : x <= y
  <2> HIDE DEF T
  <2> QED BY <1>2, NatMin DEF T
<1>4. x \in 0..MaxLevels /\ m < Pow2[x]
  BY <1>0, <1>2, <1>3
<1>5. \A k \in 0..(x - 1) : m >= Pow2[k]
  <2> SUFFICES ASSUME NEW k \in 0..(x - 1) PROVE ~ (m < Pow2[k])
    BY <1>0, <1>1, <1>4
  <2>1. k \in Nat /\ ~ (x <= k)
    BY <1>4
  <2> QED BY <2>1, <1>3
<1> QED BY <1>4, <1>5, Zenon DEF LevelsFor

\* A longer list has no fewer levels.
LEMMA LevelsForMono ==
    ASSUME NEW m \in 0..MaxOsets, NEW k \in 0..MaxOsets, m <= k
    PROVE  LevelsFor(m) <= LevelsFor(k)
<1>1. /\ LevelsFor(m) \in Nat /\ LevelsFor(k) \in Nat /\ k < Pow2[LevelsFor(k)]
      /\ \A i \in 0..(LevelsFor(m) - 1) : m >= Pow2[i]
  BY LevelsForFacts, OsetFacts
<1>2. Pow2[LevelsFor(k)] \in Nat /\ m \in Nat /\ k \in Nat
  BY <1>1, Pow2Rec, OsetFacts
<1> SUFFICES ASSUME LevelsFor(k) < LevelsFor(m) PROVE FALSE
  BY <1>1
<1>3. LevelsFor(k) \in 0..(LevelsFor(m) - 1)
  BY <1>1
<1> QED BY <1>1, <1>2, <1>3

\* A list that is not empty has a level.
LEMMA LevelsForOne ==
    ASSUME NEW m \in 0..MaxOsets, m >= 1
    PROVE  LevelsFor(m) >= 1
<1>1. LevelsFor(m) \in Nat /\ m < Pow2[LevelsFor(m)]
  BY LevelsForFacts, OsetFacts
<1>2. Pow2[0] = 1
  BY Pow2Rec
<1>3. LevelsFor(m) # 0
  BY <1>1, <1>2
<1> QED BY <1>1, <1>3

-----------------------------------------------------------------------------
\* A level and its links.

\* The place of an ordered set, or of the head.
At(p, x) == IF x = ListHead THEN 0 ELSE p[x]

\* Places of ordered sets: they differ, and are behind the head.
Places(L, p) ==
    /\ L \subseteq Oset
    /\ p \in [L -> Nat \ {0}]
    /\ \A x, y \in L : x # y => p[x] # p[y]

\* The places once o is put in behind the first c places.
Between(L, p, o, c) == [x \in L \cup {o} |-> IF x = o THEN 2 * c + 1 ELSE 2 * p[x]]

\* A list with the same links from a level has the same ordered sets linked there.
LEMMA LevelFrame ==
    ASSUME NEW s, NEW q, NEW L, NEW p, NEW l,
           \A x \in L : q.skip_levels[x] = s.skip_levels[x],
           \A x \in L \cup {ListHead} : q.skip[x][l] = s.skip[x][l],
           LevelLinked(s, L, p, l)
    PROVE  LevelLinked(q, L, p, l)
<1>1. OnLevel(q, L, l) = OnLevel(s, L, l)
  BY DEF OnLevel
<1>2. \A x \in OnLevel(q, L, l) \cup {ListHead} : q.skip[x][l] = s.skip[x][l]
  BY DEF OnLevel
<1> QED BY <1>1, <1>2 DEF LevelLinked, LinkedTo

\* Only the order of the places matters.
LEMMA LevelMapped ==
    ASSUME NEW s, NEW L \in SUBSET Oset, NEW p, NEW b, NEW l,
           \A x \in L : p[x] \in Nat \ {0} /\ b[x] \in Nat \ {0},
           \A x, y \in L : p[x] <= p[y] <=> b[x] <= b[y],
           LevelLinked(s, L, p, l)
    PROVE  LevelLinked(s, L, b, l)
<1>1. OnLevel(s, L, l) \subseteq L /\ \A x \in L : x # ListHead
  BY OsetFacts DEF OnLevel
<1> SUFFICES ASSUME NEW x \in OnLevel(s, L, l) \cup {ListHead}
             PROVE  LinkedTo(s, L, b, l, x)
  BY DEF LevelLinked
<1>2. LinkedTo(s, L, p, l, x)
  BY DEF LevelLinked
<1>3. x = ListHead \/ (x \in L /\ x # ListHead)
  BY <1>1
<1>4. \A z \in L : p[z] <= At(p, x) <=> b[z] <= At(b, x)
  BY <1>3 DEF At
<1> DEFINE y == s.skip[x][l]
<1>5. CASE y = Null
  <2>1. \A z \in OnLevel(s, L, l) : p[z] <= At(p, x)
    BY <1>2, <1>5 DEF LinkedTo, At
  <2>2. \A z \in OnLevel(s, L, l) : b[z] <= At(b, x)
    BY <2>1, <1>1, <1>4
  <2> QED BY <2>2, <1>5 DEF LinkedTo, At
<1>6. CASE y # Null
  <2>1. /\ y \in OnLevel(s, L, l) /\ At(p, x) < p[y]
        /\ \A z \in OnLevel(s, L, l) : p[z] <= At(p, x) \/ p[y] <= p[z]
    BY <1>2, <1>6 DEF LinkedTo, At
  <2>2. /\ At(p, x) \in Nat /\ At(b, x) \in Nat /\ p[y] \in Nat /\ b[y] \in Nat /\ y \in L
    BY <1>1, <1>3, <2>1 DEF At
  <2>3. At(b, x) < b[y]
    BY <2>1, <2>2, <1>4
  <2>4. \A z \in OnLevel(s, L, l) : b[z] <= At(b, x) \/ b[y] <= b[z]
    BY <2>1, <2>2, <1>1, <1>4
  <2> QED BY <2>1, <2>3, <2>4, <1>6 DEF LinkedTo, At
<1> QED BY <1>5, <1>6

\* There is room between any two places.
LEMMA BetweenFacts ==
    ASSUME NEW L, NEW p, Places(L, p), NEW o \in Oset \ L, NEW c \in Nat
    PROVE  /\ Places(L \cup {o}, Between(L, p, o, c))
           /\ Between(L, p, o, c)[o] = 2 * c + 1
           /\ \A x \in L : Between(L, p, o, c)[x] = 2 * p[x] /\ p[x] \in Nat \ {0} /\ x # o
<1>1. Between(L, p, o, c)[o] = 2 * c + 1
  BY DEF Between
<1>2. \A x \in L : Between(L, p, o, c)[x] = 2 * p[x] /\ p[x] \in Nat \ {0} /\ x # o
  BY DEF Between, Places
<1>3. Between(L, p, o, c) \in [L \cup {o} -> Nat \ {0}]
  <2>1. \A x \in L \cup {o} : Between(L, p, o, c)[x] \in Nat \ {0}
    BY <1>1, <1>2
  <2> QED BY <2>1 DEF Between
<1>4. \A x, y \in L \cup {o} : x # y => Between(L, p, o, c)[x] # Between(L, p, o, c)[y]
  <2>1. \A x \in L : 2 * p[x] # 2 * c + 1
    BY <1>2
  <2>2. \A x, y \in L : x # y => 2 * p[x] # 2 * p[y]
    BY <1>2 DEF Places
  <2> QED BY <1>1, <1>2, <2>1, <2>2
<1> QED BY <1>1, <1>2, <1>3, <1>4 DEF Places

\* o has not got the level: nothing changes there.
LEMMA LevelWithout ==
    ASSUME NEW s, NEW L, NEW p, Places(L, p), NEW o \in Oset \ L, NEW c \in Nat,
           NEW l, ~ (s.skip_levels[o] > l), LevelLinked(s, L, p, l)
    PROVE  LevelLinked(s, L \cup {o}, Between(L, p, o, c), l)
<1> DEFINE b == Between(L, p, o, c)
<1>1. OnLevel(s, L \cup {o}, l) = OnLevel(s, L, l)
  BY DEF OnLevel
<1>2. \A x \in L : b[x] = 2 * p[x] /\ p[x] \in Nat \ {0} /\ x # o
  BY BetweenFacts, Zenon
<1> HIDE DEF b
<1>3. \A x \in L : b[x] \in Nat \ {0}
  BY <1>2
<1>4. \A x, y \in L : p[x] <= p[y] <=> b[x] <= b[y]
  BY <1>2
<1>5. L \in SUBSET Oset
  BY DEF Places
<1>6. LevelLinked(s, L, b, l)
  BY <1>2, <1>3, <1>4, <1>5, LevelMapped
<1> QED BY <1>1, <1>6 DEF LevelLinked, LinkedTo, b

\* g is s with o linked in behind a.
LinkedIn(g, s, a, o, l) ==
    /\ g \in SkipLists
    /\ g.skip_levels = s.skip_levels /\ g.items_inserted = s.items_inserted
    /\ g.size = s.size /\ g.max_level = s.max_level
    /\ \A x \in Oset \cup {ListHead} : \A k \in Level :
          g.skip[x][k] = IF k # l THEN s.skip[x][k]
                         ELSE IF x = o THEN s.skip[a][l] ELSE IF x = a THEN o ELSE s.skip[x][k]

\* What LinkIn changes.
LEMMA LinkInFacts ==
    ASSUME NEW s \in SkipLists, NEW a \in Oset \cup {ListHead}, NEW o \in Oset, NEW l \in Level
    PROVE  LinkedIn(LinkIn(s, a, o, l), s, a, o, l)
<1> DEFINE g == [[s.skip EXCEPT ![a][l] = o] EXCEPT ![o][l] = s.skip[a][l]]
<1>1. s.skip \in [Oset \cup {ListHead} -> [Level -> Oset \cup {Null}]]
  BY DEF SkipLists
<1>2. [s.skip EXCEPT ![a][l] = o] \in [Oset \cup {ListHead} -> [Level -> Oset \cup {Null}]]
  BY <1>1
<1>3. g \in [Oset \cup {ListHead} -> [Level -> Oset \cup {Null}]]
  BY <1>1, <1>2
<1>4. \A x \in Oset \cup {ListHead} : \A k \in Level :
          g[x][k] = IF k # l THEN s.skip[x][k]
                    ELSE IF x = o THEN s.skip[a][l] ELSE IF x = a THEN o ELSE s.skip[x][k]
  BY <1>1
<1>5. LinkIn(s, a, o, l) = [s EXCEPT !.skip = g]
  BY DEF LinkIn, SkipLists
<1> HIDE DEF g
<1>6. /\ LinkIn(s, a, o, l) \in SkipLists /\ LinkIn(s, a, o, l).skip = g
      /\ LinkIn(s, a, o, l).skip_levels = s.skip_levels
      /\ LinkIn(s, a, o, l).items_inserted = s.items_inserted
      /\ LinkIn(s, a, o, l).size = s.size
      /\ LinkIn(s, a, o, l).max_level = s.max_level
  BY <1>3, <1>5 DEF SkipLists
<1> QED BY <1>4, <1>6 DEF LinkedIn

\* o has got the level and is linked in behind its last ordered set that is not
\* behind the place of o.
LEMMA LevelLinkIn ==
    ASSUME NEW s \in SkipLists, NEW L, NEW p, Places(L, p), NEW o \in Oset \ L, NEW c \in Nat,
           NEW l \in Level, s.skip_levels[o] > l, LevelLinked(s, L, p, l),
           NEW a \in OnLevel(s, L, l) \cup {ListHead}, At(p, a) <= c,
           s.skip[a][l] = Null \/ p[s.skip[a][l]] > c
    PROVE  LevelLinked(LinkIn(s, a, o, l), L \cup {o}, Between(L, p, o, c), l)
<1> DEFINE b == Between(L, p, o, c)
           q == LinkIn(s, a, o, l)
           y == s.skip[a][l]
           M == OnLevel(s, L, l)
<1>1. M \subseteq L /\ OnLevel(q, L \cup {o}, l) = M \cup {o} /\ L \subseteq Oset
  <2>1. L \subseteq Oset /\ a \in Oset \cup {ListHead}
    BY DEF OnLevel, Places
  <2>2. LinkedIn(q, s, a, o, l)
    BY <2>1, LinkInFacts
  <2>3. q.skip_levels = s.skip_levels
    BY <2>2 DEF LinkedIn
  <2> QED BY <2>1, <2>3 DEF OnLevel
<1>2. \A x \in L : b[x] = 2 * p[x] /\ p[x] \in Nat \ {0} /\ x # o /\ x # ListHead
  <2>1. \A x \in L : b[x] = 2 * p[x] /\ p[x] \in Nat \ {0} /\ x # o
    BY BetweenFacts, Zenon
  <2> QED BY <1>1, <2>1, OsetFacts
<1>3. b[o] = 2 * c + 1 /\ o # ListHead /\ o # Null
  <2>1. b[o] = 2 * c + 1
    BY DEF Between
  <2> QED BY <2>1, OsetFacts
<1>4. q.skip[o][l] = y /\ q.skip[a][l] = o /\ \A x \in M \cup {ListHead} : x # a => q.skip[x][l] = s.skip[x][l]
  <2>1. a \in Oset \cup {ListHead} /\ a # o /\ ListHead # o /\ \A x \in M : x # o
    BY <1>1, <1>2, <1>3
  <2>2. \A x \in Oset \cup {ListHead} : \A k \in Level :
           q.skip[x][k] = IF k # l THEN s.skip[x][k]
                          ELSE IF x = o THEN s.skip[a][l] ELSE IF x = a THEN o ELSE s.skip[x][k]
    <3>1. LinkedIn(q, s, a, o, l)
      BY <2>1, LinkInFacts
    <3> QED BY <3>1 DEF LinkedIn
  <2> QED BY <1>1, <2>1, <2>2
<1>5. At(p, a) \in Nat /\ (a \in M \/ a = ListHead)
  BY <1>1, <1>2 DEF At
<1>6. LinkedTo(s, L, p, l, a)
  BY DEF LevelLinked
<1>7. y = Null => \A z \in M : p[z] <= At(p, a)
  BY <1>6 DEF LinkedTo, At
<1>8. y # Null => y \in M /\ \A z \in M : p[z] <= At(p, a) \/ p[y] <= p[z]
  BY <1>6 DEF LinkedTo, At
<1>9. \A z \in M : p[z] <= At(p, a) \/ c < p[z]
  BY <1>1, <1>2, <1>5, <1>7, <1>8
<1> HIDE DEF b, q, M, y
<1> SUFFICES ASSUME NEW x \in M \cup {o, ListHead} PROVE LinkedTo(q, L \cup {o}, b, l, x)
  BY <1>1 DEF LevelLinked, b, q
<1>10. CASE x = o
  <2>1. CASE y = Null
    <3>1. \A z \in M \cup {o} : b[z] <= b[o]
      BY <1>1, <1>2, <1>3, <1>5, <1>7, <2>1
    <3> QED BY <3>1, <2>1, <1>1, <1>3, <1>4, <1>10 DEF LinkedTo
  <2>2. CASE y # Null
    <3>1. y \in M /\ p[y] > c /\ p[y] \in Nat
      BY <2>2, <1>1, <1>2, <1>8 DEF y
    <3>2. b[o] < b[y] /\ \A z \in M \cup {o} : b[z] <= b[o] \/ b[y] <= b[z]
      BY <3>1, <2>2, <1>1, <1>2, <1>3, <1>5, <1>8
    <3> QED BY <3>1, <3>2, <2>2, <1>1, <1>3, <1>4, <1>10 DEF LinkedTo
  <2> QED BY <2>1, <2>2
<1>11. CASE x = a
  <2>1. At(b, a) = 2 * At(p, a)
    BY <1>1, <1>2, <1>5 DEF At
  <2>2. At(b, a) < b[o] /\ \A z \in M \cup {o} : b[z] <= At(b, a) \/ b[o] <= b[z]
    BY <2>1, <1>1, <1>2, <1>3, <1>5, <1>9
  <2> QED BY <2>2, <1>1, <1>3, <1>4, <1>11 DEF LinkedTo, At
<1>12. CASE x # o /\ x # a
  <2>1. x \in M \cup {ListHead} /\ q.skip[x][l] = s.skip[x][l] /\ LinkedTo(s, L, p, l, x)
    BY <1>4, <1>12 DEF LevelLinked, M
  <2> DEFINE v == s.skip[x][l]
  <2>2. At(p, x) \in Nat /\ At(b, x) = 2 * At(p, x) /\ (x \in M => At(p, x) = p[x])
          /\ (x = ListHead => At(p, x) = 0)
    BY <2>1, <1>1, <1>2 DEF At
  <2>3. x \in M => c < p[x] \/ (p[x] < At(p, a) /\ a \in M)
    <3> SUFFICES ASSUME x \in M, p[x] <= At(p, a) PROVE p[x] < At(p, a) /\ a \in M
      BY <1>9
    <3>1. a \in M /\ a # ListHead
      BY <1>1, <1>2, <1>5 DEF At
    <3>2. p[x] # p[a]
      BY <3>1, <1>1, <1>12 DEF Places
    <3> QED BY <3>1, <3>2, <1>1, <1>2 DEF At
  <2>4. a \in M => At(p, a) = p[a] /\ p[a] \in Nat \ {0} /\ p[a] <= c
    BY <1>1, <1>2 DEF At
  <2>5. CASE v = Null
    <3>1. \A z \in M : p[z] <= At(p, x)
      BY <2>1, <2>5 DEF LinkedTo, At, M
    <3>2. x \in M /\ c < p[x]
      BY <3>1, <2>1, <2>2, <2>3, <2>4, <1>1, <1>2, <1>5, <1>12
    <3>3. \A z \in M \cup {o} : b[z] <= At(b, x)
      BY <3>1, <3>2, <2>2, <1>1, <1>2, <1>3
    <3> QED BY <3>3, <2>1, <2>5, <1>1 DEF LinkedTo, At
  <2>6. CASE v # Null
    <3>1. /\ v \in M /\ At(p, x) < p[v] /\ p[v] \in Nat
          /\ \A z \in M : p[z] <= At(p, x) \/ p[v] <= p[z]
      BY <2>1, <2>6, <1>1, <1>2 DEF LinkedTo, At, M
    <3>2. At(b, x) < b[v] /\ \A z \in M : b[z] <= At(b, x) \/ b[v] <= b[z]
      BY <3>1, <2>2, <1>1, <1>2
    <3>3. b[o] <= At(b, x) \/ b[v] <= b[o]
      <4>1. CASE x \in M /\ c < p[x]
        BY <4>1, <2>2, <1>1, <1>2, <1>3
      <4>2. CASE ~ (x \in M /\ c < p[x])
        <5>1. a \in M /\ ~ (p[a] <= At(p, x))
          BY <4>2, <2>1, <2>2, <2>3, <2>4, <1>1, <1>2, <1>5, <1>12
        <5>2. p[v] <= p[a]
          BY <5>1, <3>1
        <5> QED BY <5>1, <5>2, <3>1, <2>4, <1>1, <1>2, <1>3
      <4> QED BY <4>1, <4>2
    <3> QED BY <3>1, <3>2, <3>3, <2>1, <2>6, <1>1 DEF LinkedTo, At
  <2> QED BY <2>5, <2>6
<1> QED BY <1>10, <1>11, <1>12

-----------------------------------------------------------------------------
\* The search for the place of an ordered set.

DescendArgs ==
    [sl : SkipLists, rest : [Oset -> SUBSET Nat], o : Oset,
     lvl : {-1} \cup Level, prior : Oset \cup {ListHead}]

\* One turn, with F for the turns that follow.
DescendOf(k, F, x) ==
    LET y == x.sl.skip[x.prior][x.lvl] IN
    IF k = 0 \/ x.lvl < 0 THEN x.sl
    ELSE IF y # Null /\ x.rest[y] = {} THEN x.sl
    ELSE IF y # Null /\ Least(x.rest[x.o]) >= Least(x.rest[y])
      THEN F[[x EXCEPT !.prior = y]]
    ELSE F[[x EXCEPT !.lvl = @ - 1,
                     !.sl = IF x.sl.skip_levels[x.o] > x.lvl
                              THEN LinkIn(@, x.prior, x.o, x.lvl) ELSE @]]

\* The arguments of the next turn.
LEMMA DescendTypes ==
    ASSUME NEW x \in DescendArgs, ~ (x.lvl < 0)
    PROVE  /\ x.lvl \in Level /\ x.sl.skip[x.prior][x.lvl] \in Oset \cup {Null}
           /\ x.sl.skip[x.prior][x.lvl] # Null =>
                 [x EXCEPT !.prior = x.sl.skip[x.prior][x.lvl]] \in DescendArgs
           /\ [x EXCEPT !.lvl = @ - 1,
                        !.sl = IF x.sl.skip_levels[x.o] > x.lvl
                                 THEN LinkIn(@, x.prior, x.o, x.lvl) ELSE @] \in DescendArgs
<1>0. /\ x.sl \in SkipLists /\ x.o \in Oset /\ x.prior \in Oset \cup {ListHead}
      /\ x.lvl \in {-1} \cup Level
  BY DEF DescendArgs
<1>1. x.lvl \in Level /\ x.lvl - 1 \in {-1} \cup Level
  BY <1>0, OsetFacts DEF Level
<1>2. x.sl.skip[x.prior][x.lvl] \in Oset \cup {Null}
  <2>1. x.sl.skip \in [Oset \cup {ListHead} -> [Level -> Oset \cup {Null}]]
    BY <1>0 DEF SkipLists
  <2> QED BY <1>0, <1>1, <2>1
<1>3. x.sl.skip[x.prior][x.lvl] # Null => [x EXCEPT !.prior = x.sl.skip[x.prior][x.lvl]] \in DescendArgs
  BY <1>2 DEF DescendArgs
<1>4. LinkIn(x.sl, x.prior, x.o, x.lvl) \in SkipLists
  BY <1>0, <1>1, LinkInFacts DEF LinkedIn
<1>5. [x EXCEPT !.lvl = @ - 1,
                !.sl = IF x.sl.skip_levels[x.o] > x.lvl
                         THEN LinkIn(@, x.prior, x.o, x.lvl) ELSE @] \in DescendArgs
  BY <1>0, <1>1, <1>4 DEF DescendArgs
<1> QED BY <1>1, <1>2, <1>3, <1>5

\* Descend is what its definition says.
LEMMA DescendRec ==
    \A k \in Nat : \A x \in DescendArgs : Descend[k][x] = DescendOf(k, Descend[k - 1], x)
<1> DEFINE Row(k, F) == [x \in DescendArgs |-> DescendOf(k, F, x)]
           Def(f) == f = [k \in Nat |-> Row(k, f[k - 1])]
           S == [DescendArgs -> SkipLists]
<1>0. \A k \in Nat : \A F \in S : Row(k, F) \in S
  <2> SUFFICES ASSUME NEW k \in Nat, NEW F \in S, NEW x \in DescendArgs
               PROVE  DescendOf(k, F, x) \in SkipLists
    OBVIOUS
  <2>1. x.sl \in SkipLists
    BY DEF DescendArgs
  <2> QED BY <2>1, DescendTypes DEF DescendOf
<1>a. \A F : Row(0, F) = Row(0, 0)
  BY DEF DescendOf
<1>b. Row(0, 0) \in S
  BY DEF DescendOf, DescendArgs
<1>1. \E f : Def(f)
  <2> DEFINE g == [x \in Nat \X S |-> Row(x[1], x[2])]
  <2> HIDE DEF Row
  <2>1. g \in [Nat \X S -> S] /\ \A k \in Nat : \A F \in S : g[<<k, F>>] = Row(k, F)
    BY <1>0
  <2> HIDE DEF g, S
  <2>2. PICK f \in [Nat -> S] : f[0] = Row(0, 0) /\ \A k \in Nat : f[k + 1] = g[<<k + 1, f[k]>>]
    <3>1. Recursion(S, Row(0, 0), g)
      BY <2>1, <1>b, RecursionExists
    <3> QED BY <3>1 DEF Recursion
  <2>3. ASSUME NEW k \in Nat PROVE f[k] = Row(k, f[k - 1])
    <3>1. CASE k = 0
      BY <3>1, <2>2, <1>a
    <3>2. CASE k # 0
      <4>1. k - 1 \in Nat /\ (k - 1) + 1 = k
        BY <3>2
      <4>2. f[k] = g[<<k, f[k - 1]>>] /\ f[k - 1] \in S
        BY <4>1, <2>2
      <4> QED BY <4>2, <2>1
    <3> QED BY <3>1, <3>2
  <2>4. f = [k \in Nat |-> Row(k, f[k - 1])]
    BY <2>2, <2>3
  <2> QED BY <2>4
<1>2. Descend = CHOOSE f : Def(f)
  BY DEF Descend, DescendOf, DescendArgs
<1> HIDE DEF Def
<1>3. Def(Descend)
  BY <1>1, <1>2, Zenon
<1>4. \A k \in Nat : Descend[k] = Row(k, Descend[k - 1])
  <2> HIDE DEF Row
  <2>1. Descend = [k \in Nat |-> Row(k, Descend[k - 1])]
    BY <1>3 DEF Def
  <2> QED BY <2>1, Zenon
<1>5. \A k, F : \A x \in DescendArgs : Row(k, F)[x] = DescendOf(k, F, x)
  OBVIOUS
<1> HIDE DEF Row
<1> QED BY <1>4, <1>5, Zenon

\* The search for the place of o in the list base has come down to level l: above it,
\* o is linked in, and all the rest is as it was.
Searching(s, base, L, p, o, c, l) ==
    /\ s \in SkipLists
    /\ s.skip_levels = base.skip_levels /\ s.items_inserted = base.items_inserted
    /\ s.size = base.size /\ s.max_level = base.max_level
    /\ \A k \in 0..(base.max_level - 1) :
          IF k <= l THEN LevelLinked(s, L, p, k)
          ELSE LevelLinked(s, L \cup {o}, Between(L, p, o, c), k)
    /\ \A k \in Level : k >= base.max_level => s.skip[ListHead][k] = base.skip[ListHead][k]

\* One level down.
LEMMA SearchingDown ==
    ASSUME NEW base \in SkipLists, NEW L, NEW p, Places(L, p), NEW o \in Oset \ L, NEW c \in Nat,
           NEW l \in Level, l < base.max_level,
           NEW s, Searching(s, base, L, p, o, c, l),
           NEW a \in OnLevel(base, L, l) \cup {ListHead}, At(p, a) <= c,
           s.skip[a][l] = Null \/ p[s.skip[a][l]] > c
    PROVE  Searching(IF s.skip_levels[o] > l THEN LinkIn(s, a, o, l) ELSE s, base, L, p, o, c, l - 1)
<1>0. /\ s \in SkipLists /\ s.skip_levels = base.skip_levels /\ s.max_level = base.max_level
      /\ base.max_level \in 0..MaxLevels /\ MaxLevels \in Nat /\ l \in Nat /\ L \subseteq Oset
      /\ a \in Oset \cup {ListHead} /\ OnLevel(s, L, l) = OnLevel(base, L, l)
  BY OsetFacts DEF Searching, SkipLists, OnLevel, Places
<1>1. l \in 0..(base.max_level - 1) /\ LevelLinked(s, L, p, l)
  BY <1>0 DEF Searching
<1>2. CASE s.skip_levels[o] > l
  <2> DEFINE q == LinkIn(s, a, o, l)
  <2>0. LinkedIn(q, s, a, o, l)
    BY <1>0, LinkInFacts
  <2>1. /\ q \in SkipLists /\ q.skip_levels = s.skip_levels /\ q.items_inserted = s.items_inserted
        /\ q.size = s.size /\ q.max_level = s.max_level
    BY <2>0 DEF LinkedIn
  <2>2. \A x \in Oset \cup {ListHead} : \A k \in Level : k # l => q.skip[x][k] = s.skip[x][k]
    BY <2>0 DEF LinkedIn
  <2>3. LevelLinked(q, L \cup {o}, Between(L, p, o, c), l)
    BY <1>0, <1>1, <1>2, LevelLinkIn
  <2> HIDE DEF q
  <2>4. ASSUME NEW k \in 0..(base.max_level - 1)
        PROVE  IF k <= l - 1 THEN LevelLinked(q, L, p, k)
               ELSE LevelLinked(q, L \cup {o}, Between(L, p, o, c), k)
    <3>1. k \in Level /\ k \in Nat
      BY <1>0 DEF Level
    <3>2. CASE k < l
      <4>1. LevelLinked(s, L, p, k)
        BY <3>1, <3>2, <1>0 DEF Searching
      <4>2. \A x \in L \cup {ListHead} : q.skip[x][k] = s.skip[x][k]
        BY <3>1, <3>2, <2>2, <1>0
      <4>3. LevelLinked(q, L, p, k)
        BY <4>1, <4>2, <2>1, LevelFrame
      <4> QED BY <4>3, <3>1, <3>2, <1>0
    <3>3. CASE k = l
      BY <3>3, <2>3, <1>0
    <3>4. CASE k > l
      <4>1. LevelLinked(s, L \cup {o}, Between(L, p, o, c), k)
        <5>1. ~ (k <= l)
          BY <3>1, <3>4, <1>0
        <5> QED BY <5>1 DEF Searching
      <4>2. \A x \in L \cup {o} \cup {ListHead} : q.skip[x][k] = s.skip[x][k]
        BY <3>1, <3>4, <2>2, <1>0
      <4>3. LevelLinked(q, L \cup {o}, Between(L, p, o, c), k)
        BY <4>1, <4>2, <2>1, LevelFrame
      <4> QED BY <4>3, <3>1, <3>4, <1>0
    <3> QED BY <3>1, <3>2, <3>3, <3>4, <1>0
  <2>5. \A k \in Level : k >= base.max_level => q.skip[ListHead][k] = base.skip[ListHead][k]
    <3> SUFFICES ASSUME NEW k \in Level, k >= base.max_level
                 PROVE  q.skip[ListHead][k] = base.skip[ListHead][k]
      OBVIOUS
    <3>1. k \in Nat /\ base.max_level \in Nat
      <4>1. k \in Nat
        BY OsetFacts
      <4> QED BY <4>1, <1>0
    <3>2. k # l
      BY <3>1, <1>0
    <3>3. s.skip[ListHead][k] = base.skip[ListHead][k]
      BY DEF Searching
    <3> QED BY <2>2, <3>2, <3>3
  <2>6. Searching(q, base, L, p, o, c, l - 1)
    BY <2>1, <2>4, <2>5 DEF Searching
  <2> QED BY <2>6, <1>2 DEF q
<1>3. CASE ~ (s.skip_levels[o] > l)
  <2>1. LevelLinked(s, L \cup {o}, Between(L, p, o, c), l)
    BY <1>1, <1>3, LevelWithout
  <2>2. ASSUME NEW k \in 0..(base.max_level - 1)
        PROVE  IF k <= l - 1 THEN LevelLinked(s, L, p, k)
               ELSE LevelLinked(s, L \cup {o}, Between(L, p, o, c), k)
    BY <2>1, <1>0 DEF Searching
  <2>3. Searching(s, base, L, p, o, c, l - 1)
    BY <2>2 DEF Searching
  <2> QED BY <2>3, <1>3
<1> QED BY <1>2, <1>3

\* The search, from any place on its way: it ends with o linked in on all its levels.
\* Each turn goes one level down or to a later place, so there are turns enough.
LEMMA DescendFacts ==
    ASSUME NEW base \in SkipLists, NEW L, NEW p, Places(L, p), NEW o \in Oset \ L, NEW c \in Nat,
           NEW r \in [Oset -> SUBSET Nat],
           \A x \in L : r[x] # {} /\ (Least(r[o]) >= Least(r[x]) <=> p[x] <= c)
    PROVE  \A k \in Nat : \A s : \A l \in {-1} \cup Level : \A a \in L \cup {ListHead} :
              /\ Searching(s, base, L, p, o, c, l) /\ l < base.max_level
              /\ a \in L => base.skip_levels[a] > l
              /\ At(p, a) <= c /\ k >= (l + 1) + (c - At(p, a))
              => Searching(Descend[k][[sl |-> s, rest |-> r, o |-> o, lvl |-> l, prior |-> a]],
                           base, L, p, o, c, -1)
<1> DEFINE Arg(s, l, a) == [sl |-> s, rest |-> r, o |-> o, lvl |-> l, prior |-> a]
           Before(k, s, l, a) ==
              /\ Searching(s, base, L, p, o, c, l) /\ l < base.max_level
              /\ a \in L => base.skip_levels[a] > l
              /\ At(p, a) <= c /\ k >= (l + 1) + (c - At(p, a))
           P == {k \in Nat : \A s : \A l \in {-1} \cup Level : \A a \in L \cup {ListHead} :
                    Before(k, s, l, a) => Searching(Descend[k][Arg(s, l, a)], base, L, p, o, c, -1)}
<1>0. L \subseteq Oset /\ \A x \in L : p[x] \in Nat \ {0} /\ x # ListHead
  BY OsetFacts DEF Places
<1>1. ASSUME NEW k \in Nat, k = 0 \/ k - 1 \in P PROVE k \in P
  <2> SUFFICES ASSUME NEW s, NEW l \in {-1} \cup Level, NEW a \in L \cup {ListHead}, Before(k, s, l, a)
               PROVE  Searching(Descend[k][Arg(s, l, a)], base, L, p, o, c, -1)
    OBVIOUS
  <2> DEFINE y == s.skip[a][l]
             x == Arg(s, l, a)
  <2>0. s \in SkipLists /\ At(p, a) \in Nat /\ l \in Int
    <3>1. s \in SkipLists
      BY DEF Searching
    <3>2. At(p, a) \in Nat
      BY <1>0 DEF At
    <3>3. l \in Int
      BY OsetFacts DEF Level
    <3> QED BY <3>1, <3>2, <3>3
  <2>1. x \in DescendArgs
    BY <2>0, <1>0 DEF DescendArgs
  <2>2. Descend[k][x] = DescendOf(k, Descend[k - 1], x)
    BY <2>1, DescendRec
  <2>3. CASE l < 0
    <3>1. l = -1
      BY <2>3, OsetFacts DEF Level
    <3>2. Descend[k][x] = s
      BY <2>2, <2>3 DEF DescendOf
    <3> QED BY <3>1, <3>2
  <2>4. CASE ~ (l < 0)
    <3>1. l \in Level /\ k # 0 /\ k - 1 \in P
      BY <2>4, <2>0, <1>1
    <3>2. y \in Oset \cup {Null}
      BY <2>1, <2>4, DescendTypes
    <3>3. /\ LinkedTo(s, L, p, l, a) /\ OnLevel(s, L, l) = OnLevel(base, L, l)
          /\ a \in OnLevel(base, L, l) \cup {ListHead}
      <4>1. l \in 0..(base.max_level - 1)
        BY <3>1, <2>4, OsetFacts DEF SkipLists
      <4>2. LevelLinked(s, L, p, l) /\ s.skip_levels = base.skip_levels
        BY <4>1, <2>0 DEF Searching
      <4>3. a \in OnLevel(base, L, l) \cup {ListHead}
        BY DEF OnLevel
      <4>4. OnLevel(s, L, l) = OnLevel(base, L, l)
        BY <4>2 DEF OnLevel
      <4> QED BY <4>2, <4>3, <4>4 DEF LevelLinked
    <3>4. y # Null => /\ y \in L /\ At(p, a) < p[y] /\ base.skip_levels[y] > l /\ r[y] # {}
                      /\ (Least(r[o]) >= Least(r[y]) <=> p[y] <= c)
      BY <3>3 DEF LinkedTo, At, OnLevel
    <3>5. CASE y # Null /\ Least(r[o]) >= Least(r[y])
      <4>1. Descend[k][x] = Descend[k - 1][[x EXCEPT !.prior = y]]
        BY <2>2, <2>4, <3>1, <3>4, <3>5 DEF DescendOf
      <4>2. [x EXCEPT !.prior = y] = Arg(s, l, y)
        OBVIOUS
      <4>3. At(p, y) = p[y] /\ p[y] \in Nat /\ y \in L
        BY <3>4, <3>5, <1>0 DEF At
      <4>4. Before(k - 1, s, l, y)
        BY <4>3, <3>1, <3>4, <3>5, <2>0
      <4>5. Searching(Descend[k - 1][Arg(s, l, y)], base, L, p, o, c, -1)
        BY <3>1, <4>3, <4>4
      <4> QED BY <4>1, <4>2, <4>5
    <3>6. CASE ~ (y # Null /\ Least(r[o]) >= Least(r[y]))
      <4> DEFINE q == IF s.skip_levels[o] > l THEN LinkIn(s, a, o, l) ELSE s
      <4>1. [x EXCEPT !.lvl = @ - 1,
                      !.sl = IF x.sl.skip_levels[x.o] > x.lvl
                               THEN LinkIn(@, x.prior, x.o, x.lvl) ELSE @] = Arg(q, l - 1, a)
        <5>1. x.sl = s /\ x.o = o /\ x.lvl = l /\ x.prior = a
          OBVIOUS
        <5>2. [x EXCEPT !.lvl = l - 1, !.sl = q] = Arg(q, l - 1, a)
          <6> HIDE DEF q
          <6>1. [x EXCEPT !.lvl = l - 1] = Arg(s, l - 1, a)
            OBVIOUS
          <6>2. [Arg(s, l - 1, a) EXCEPT !.sl = q] = Arg(q, l - 1, a)
            OBVIOUS
          <6> QED BY ONLY <6>1, <6>2
        <5> HIDE DEF x
        <5> QED BY <5>1, <5>2, Zenon
      <4>2. Descend[k][x] = Descend[k - 1][Arg(q, l - 1, a)]
        BY <2>2, <2>4, <3>1, <3>4, <3>6, <4>1 DEF DescendOf
      <4>3. y = Null \/ p[y] > c
        BY <3>4, <3>6, <1>0
      <4>4. Searching(q, base, L, p, o, c, l - 1)
        BY <3>1, <3>3, <4>3, SearchingDown
      <4>5. l - 1 \in {-1} \cup Level /\ base.max_level \in Nat
        BY <3>1, OsetFacts DEF Level, SkipLists
      <4>6. a \in L => base.skip_levels[a] \in Nat
        BY <1>0, OsetFacts DEF SkipLists
      <4>7. Before(k - 1, q, l - 1, a)
        <5> HIDE DEF q
        <5> QED BY <4>4, <4>5, <4>6, <3>1, <2>0
      <4>8. Searching(Descend[k - 1][Arg(q, l - 1, a)], base, L, p, o, c, -1)
        <5> HIDE DEF q
        <5> QED BY <3>1, <4>5, <4>7
      <4> QED BY <4>2, <4>8
    <3> QED BY <3>5, <3>6
  <2> QED BY <2>3, <2>4
<1>2. \A k \in Nat : k \in P
  <2> HIDE DEF P
  <2>1. 0 \in P
    BY <1>1
  <2>2. ASSUME NEW k \in Nat, k \in P PROVE k + 1 \in P
    <3>1. k + 1 \in Nat /\ (k + 1) - 1 = k
      OBVIOUS
    <3> QED BY <3>1, <2>2, <1>1
  <2> QED BY <2>1, <2>2, NatInd
<1> QED BY <1>2

-----------------------------------------------------------------------------
\* The operations on a list that holds its ordered sets.

LevelsInUse(s) == {0} \cup 0..(s.max_level - 1)

\* Places with gaps are as good as those without: how many ordered sets come up to
\* one's place is a place too.
LEMMA HoldsFrom ==
    ASSUME NEW s, NEW L, NEW r, NEW p, Places(L, p), InOrder(L, r, p),
           \A x \in L : r[x] # {} /\ s.skip_levels[x] > 0,
           \A l \in LevelsInUse(s) : LevelLinked(s, L, p, l)
    PROVE  Holds(s, L, r)
<1> DEFINE U(x) == {y \in L : p[y] <= p[x]}
           b == [x \in L |-> Cardinality(U(x))]
<1>0. L \in SUBSET Oset /\ \A x \in L : p[x] \in Nat \ {0}
  BY DEF Places
<1>1. IsFiniteSet(L) /\ Cardinality(L) \in Nat
  BY <1>0, SomeOsets
<1>2. ASSUME NEW x \in L
      PROVE  IsFiniteSet(U(x)) /\ b[x] \in Nat \ {0} /\ b[x] <= Cardinality(L)
  <2>1. U(x) \subseteq L /\ x \in U(x)
    BY <1>0
  <2>2. IsFiniteSet(U(x)) /\ Cardinality(U(x)) <= Cardinality(L)
    BY <2>1, <1>1, FS_Subset
  <2>3. Cardinality(U(x)) \in Nat /\ Cardinality(U(x)) # 0
    BY <2>1, <2>2, FS_CardinalityType, FS_EmptySet
  <2> QED BY <2>2, <2>3
<1>3. ASSUME NEW x \in L, NEW y \in L, p[x] <= p[y] PROVE b[x] <= b[y]
  <2>1. U(x) \in SUBSET U(y)
    BY <1>0, <1>3
  <2> QED BY <2>1, <1>2, FS_Subset
<1>4. ASSUME NEW x \in L, NEW y \in L, p[x] < p[y] PROVE b[x] < b[y]
  <2>1. U(x) \in SUBSET U(y) /\ y \in U(y) /\ y \notin U(x)
    BY <1>0, <1>4
  <2>2. Cardinality(U(x)) <= Cardinality(U(y)) /\ Cardinality(U(x)) # Cardinality(U(y))
    BY <2>1, <1>2, FS_Subset
  <2> QED BY <2>2, <1>2
<1> HIDE DEF b, U
<1>5. \A x, y \in L : p[x] <= p[y] <=> b[x] <= b[y]
  BY <1>0, <1>2, <1>3, <1>4
<1>6. b \in [L -> 1..Cardinality(L)]
  <2>1. \A x \in L : b[x] \in 1..Cardinality(L)
    BY <1>1, <1>2
  <2> QED BY <2>1 DEF b
<1>7. InOrder(L, r, b)
  <2> SUFFICES ASSUME NEW x \in L, NEW y \in L, x # y
               PROVE  b[x] # b[y] /\ (b[x] < b[y] => Least(r[x]) <= Least(r[y]))
    BY DEF InOrder
  <2>1. p[x] # p[y] /\ (p[x] < p[y] => Least(r[x]) <= Least(r[y]))
    BY DEF InOrder
  <2>2. b[x] # b[y] /\ (b[x] < b[y] => p[x] < p[y])
    BY <2>1, <1>0, <1>2, <1>5
  <2> QED BY <2>1, <2>2
<1>8. \A l \in LevelsInUse(s) : LevelLinked(s, L, b, l)
  BY <1>0, <1>2, <1>5, LevelMapped
<1> QED BY <1>6, <1>7, <1>8 DEF Holds, LevelsInUse

\* And there are places without gaps.
LEMMA HoldsPlaces ==
    ASSUME NEW s, NEW L \in SUBSET Oset, NEW r, Holds(s, L, r)
    PROVE  /\ \A x \in L : r[x] # {} /\ s.skip_levels[x] > 0
           /\ \E p : /\ Places(L, p) /\ InOrder(L, r, p)
                     /\ \A x \in L : p[x] <= Cardinality(L)
                     /\ \A l \in LevelsInUse(s) : LevelLinked(s, L, p, l)
<1>1. PICK p \in [L -> 1..Cardinality(L)] :
          /\ InOrder(L, r, p)
          /\ \A l \in LevelsInUse(s) : LevelLinked(s, L, p, l)
  BY DEF Holds, LevelsInUse
<1>2. Cardinality(L) \in Nat
  BY SomeOsets
<1>3. Places(L, p) /\ \A x \in L : p[x] <= Cardinality(L)
  BY <1>1, <1>2 DEF Places, InOrder
<1> QED BY <1>1, <1>3 DEF Holds

\* What matters for a list to hold its ordered sets.
LEMMA HoldsFrame ==
    ASSUME NEW s, NEW q, NEW L \in SUBSET Oset, NEW r, NEW w, Holds(s, L, r),
           \A x \in L : w[x] = r[x] /\ q.skip_levels[x] = s.skip_levels[x],
           LevelsInUse(q) \subseteq LevelsInUse(s),
           \A x \in L \cup {ListHead} : \A l \in LevelsInUse(q) : q.skip[x][l] = s.skip[x][l]
    PROVE  Holds(q, L, w)
<1>1. PICK p : /\ Places(L, p) /\ InOrder(L, r, p)
               /\ \A l \in LevelsInUse(s) : LevelLinked(s, L, p, l)
  BY HoldsPlaces
<1>2. InOrder(L, w, p)
  BY <1>1 DEF InOrder
<1>3. \A l \in LevelsInUse(q) : LevelLinked(q, L, p, l)
  <2> SUFFICES ASSUME NEW l \in LevelsInUse(q) PROVE LevelLinked(q, L, p, l)
    OBVIOUS
  <2>1. LevelLinked(s, L, p, l)
    BY <1>1
  <2> QED BY <2>1, LevelFrame
<1>4. \A x \in L : w[x] # {} /\ q.skip_levels[x] > 0
  BY DEF Holds
<1> QED BY <1>1, <1>2, <1>3, <1>4, HoldsFrom

\* The size and the levels of a list.
LEMMA ResizeFacts ==
    ASSUME NEW s \in SkipLists, NEW m \in 0..MaxOsets
    PROVE  /\ Resize(s, m) \in SkipLists
           /\ Resize(s, m).size = m /\ Resize(s, m).max_level = LevelsFor(m)
           /\ Resize(s, m).skip = s.skip /\ Resize(s, m).skip_levels = s.skip_levels
           /\ Resize(s, m).items_inserted = s.items_inserted
<1>1. LevelsFor(m) \in 0..MaxLevels
  BY LevelsForFacts
<1> QED BY <1>1 DEF Resize, SkipLists

\* The list shrinks: links on the levels that are given up do not matter.
LEMMA RemoveHolds ==
    ASSUME NEW s \in SkipLists, NEW L \in SUBSET Oset, NEW r, Holds(s, L, r),
           s.size >= 1, s.max_level = LevelsFor(s.size)
    PROVE  /\ os_slist_remove(s) \in SkipLists /\ Holds(os_slist_remove(s), L, r)
           /\ os_slist_remove(s).size = s.size - 1
           /\ os_slist_remove(s).max_level = LevelsFor(s.size - 1)
           /\ os_slist_remove(s).skip = s.skip /\ os_slist_remove(s).skip_levels = s.skip_levels
           /\ os_slist_remove(s).items_inserted = s.items_inserted
<1>1. s.size \in 0..MaxOsets /\ s.size - 1 \in 0..MaxOsets
  BY OsetFacts DEF SkipLists
<1> DEFINE q == os_slist_remove(s)
<1>2. /\ q \in SkipLists /\ q.size = s.size - 1 /\ q.max_level = LevelsFor(s.size - 1)
      /\ q.skip = s.skip /\ q.skip_levels = s.skip_levels /\ q.items_inserted = s.items_inserted
  BY <1>1, ResizeFacts DEF os_slist_remove
<1>3. LevelsInUse(q) \subseteq LevelsInUse(s)
  <2>1. s.size - 1 <= s.size
    BY <1>1
  <2>2. LevelsFor(s.size - 1) <= LevelsFor(s.size)
    BY <1>1, <2>1, LevelsForMono
  <2>3. LevelsFor(s.size - 1) \in Nat /\ LevelsFor(s.size) \in Nat
    BY <1>1, LevelsForFacts, OsetFacts
  <2> QED BY <1>2, <2>2, <2>3 DEF LevelsInUse
<1> HIDE DEF q
<1>4. Holds(q, L, r)
  BY <1>2, <1>3, HoldsFrame
<1> QED BY <1>2, <1>4 DEF q

\* The first ordered set of the list, if there is one, has the smallest next item.
LEMMA FirstFacts ==
    ASSUME NEW s, NEW L \in SUBSET Oset, NEW r, Holds(s, L, r)
    PROVE  /\ L = {} => FirstOf(s) = Null
           /\ L # {} => FirstOf(s) \in L /\ \A x \in L : x # FirstOf(s) => Least(r[FirstOf(s)]) <= Least(r[x])
<1>1. PICK p : /\ Places(L, p) /\ InOrder(L, r, p)
               /\ \A l \in LevelsInUse(s) : LevelLinked(s, L, p, l)
  BY HoldsPlaces
<1>2. LinkedTo(s, L, p, 0, ListHead)
  BY <1>1 DEF LevelsInUse, LevelLinked
<1>3. OnLevel(s, L, 0) = L
  BY HoldsPlaces DEF OnLevel
<1>4. \A x \in L : p[x] \in Nat \ {0}
  BY <1>1 DEF Places
<1>5. L = {} => FirstOf(s) = Null
  BY <1>2, <1>3 DEF LinkedTo, FirstOf
<1>6. L # {} => FirstOf(s) \in L /\ \A x \in L : p[FirstOf(s)] <= p[x]
  BY <1>2, <1>3, <1>4 DEF LinkedTo, FirstOf
<1>7. ASSUME NEW x \in L, x # FirstOf(s) PROVE Least(r[FirstOf(s)]) <= Least(r[x])
  <2>1. FirstOf(s) \in L /\ p[FirstOf(s)] <= p[x] /\ p[FirstOf(s)] # p[x]
    BY <1>1, <1>6, <1>7 DEF Places
  <2>2. p[FirstOf(s)] < p[x]
    BY <2>1, <1>4
  <2> QED BY <2>1, <2>2, <1>1, <1>7 DEF InOrder
<1> QED BY <1>5, <1>6, <1>7

\* The first ordered set is taken from the list.
LEMMA PopHolds ==
    ASSUME NEW s \in SkipLists, NEW L \in SUBSET Oset, NEW r, Holds(s, L, r), L # {}, s.max_level >= 1
    PROVE  /\ os_slist_pop(s) \in SkipLists
           /\ os_slist_pop(s).skip_levels = s.skip_levels
           /\ os_slist_pop(s).items_inserted = s.items_inserted
           /\ os_slist_pop(s).size = s.size /\ os_slist_pop(s).max_level = s.max_level
           /\ Holds(os_slist_pop(s), L \ {FirstOf(s)}, r)
<1> DEFINE o == FirstOf(s)
           q == os_slist_pop(s)
           starts(l) == l < s.max_level /\ l < s.skip_levels[o] /\ s.skip[ListHead][l] = o
           links == [l \in Level |-> IF \A k \in 0..l : starts(k) THEN s.skip[o][l] ELSE s.skip[ListHead][l]]
<1>1. PICK p : /\ Places(L, p) /\ InOrder(L, r, p)
               /\ \A l \in LevelsInUse(s) : LevelLinked(s, L, p, l)
  BY HoldsPlaces
<1>2. \A x \in L : p[x] \in Nat \ {0} /\ s.skip_levels[x] > 0 /\ s.skip_levels[x] \in Nat /\ x # ListHead /\ x \in Oset
  <2>1. \A x \in L : p[x] \in Nat \ {0} /\ x # ListHead /\ x \in Oset
    BY <1>1, OsetFacts DEF Places
  <2>2. \A x \in L : s.skip_levels[x] > 0
    BY DEF Holds
  <2>3. \A x \in Oset : s.skip_levels[x] \in Nat
    BY OsetFacts DEF SkipLists
  <2> QED BY <2>1, <2>2, <2>3
<1>3. o \in L /\ \A x \in L : p[o] <= p[x]
  <2>1. LinkedTo(s, L, p, 0, ListHead)
    BY <1>1 DEF LevelsInUse, LevelLinked
  <2>2. OnLevel(s, L, 0) = L
    BY HoldsPlaces DEF OnLevel
  <2> QED BY <2>1, <2>2, <1>2 DEF LinkedTo, FirstOf
<1>4. s.max_level \in 1..MaxLevels /\ MaxLevels \in Nat
  BY OsetFacts DEF SkipLists
<1>5. \A l \in LevelsInUse(s) : l \in Nat /\ l \in Level /\ l < s.max_level
  BY <1>4 DEF LevelsInUse, Level
<1>6. \A l \in LevelsInUse(s) : \A x \in OnLevel(s, L, l) \cup {ListHead} : LinkedTo(s, L, p, l, x)
  BY <1>1 DEF LevelLinked
<1>7. ASSUME NEW l \in LevelsInUse(s), l < s.skip_levels[o] PROVE s.skip[ListHead][l] = o
  <2>1. o \in OnLevel(s, L, l) /\ OnLevel(s, L, l) \subseteq L
    BY <1>2, <1>3, <1>5, <1>7 DEF OnLevel
  <2>2. LinkedTo(s, L, p, l, ListHead)
    BY <1>6
  <2> DEFINE y == s.skip[ListHead][l]
  <2>3. y \in L /\ p[y] <= p[o]
    BY <2>1, <2>2, <1>2, <1>3 DEF LinkedTo
  <2>4. p[y] = p[o]
    BY <2>3, <1>2, <1>3
  <2> QED BY <2>3, <2>4, <1>1, <1>3 DEF Places
<1>8. s.skip \in [Oset \cup {ListHead} -> [Level -> Oset \cup {Null}]]
  BY DEF SkipLists
<1>9. links \in [Level -> Oset \cup {Null}]
  BY <1>2, <1>3, <1>8
<1>10. ASSUME NEW l \in LevelsInUse(s)
       PROVE  links[l] = IF l < s.skip_levels[o] THEN s.skip[o][l] ELSE s.skip[ListHead][l]
  <2>1. CASE l < s.skip_levels[o]
    <3>1. ASSUME NEW k \in 0..l PROVE starts(k)
      <4>1. k \in LevelsInUse(s) /\ k < s.skip_levels[o]
        BY <1>2, <1>3, <1>4, <1>5, <2>1 DEF LevelsInUse
      <4> QED BY <4>1, <1>5, <1>7
    <3> QED BY <3>1, <2>1, <1>5
  <2>2. CASE ~ (l < s.skip_levels[o])
    <3>1. l \in 0..l /\ ~ starts(l)
      BY <2>2, <1>5
    <3> QED BY <3>1, <2>2, <1>5
  <2> QED BY <2>1, <2>2
<1>11. q = [s EXCEPT !.skip = [s.skip EXCEPT ![ListHead] = links]]
  BY DEF os_slist_pop
<1> HIDE DEF links
<1>12. /\ q \in SkipLists /\ q.skip_levels = s.skip_levels /\ q.items_inserted = s.items_inserted
       /\ q.size = s.size /\ q.max_level = s.max_level
       /\ q.skip = [s.skip EXCEPT ![ListHead] = links]
  BY <1>8, <1>9, <1>11 DEF SkipLists
<1>13. q.skip[ListHead] = links /\ \A x \in L : q.skip[x] = s.skip[x]
  BY <1>2, <1>8, <1>12
<1> HIDE DEF q, o
<1> DEFINE M == L \ {o}
           b == [x \in M |-> p[x]]
<1>14. Places(M, b) /\ InOrder(M, r, b) /\ \A x \in M : r[x] # {} /\ q.skip_levels[x] > 0
  <2>1. \A x \in M : r[x] # {} /\ q.skip_levels[x] > 0
    BY <1>12 DEF Holds
  <2>2. Places(M, b)
    BY <1>1 DEF Places
  <2>3. InOrder(M, r, b)
    BY <1>1 DEF InOrder
  <2> QED BY <2>1, <2>2, <2>3
<1>a. M \subseteq L /\ o \notin M /\ (\A x \in L : x = o \/ x \in M) /\ \A x \in M : b[x] = p[x]
  OBVIOUS
<1> HIDE DEF M, b
<1>15. ASSUME NEW l \in LevelsInUse(s), NEW x \in OnLevel(q, M, l) \cup {ListHead}
       PROVE  LinkedTo(q, M, b, l, x)
  <2>1. /\ OnLevel(q, M, l) = OnLevel(s, L, l) \ {o} /\ OnLevel(s, L, l) \subseteq L
        /\ \A z \in OnLevel(q, M, l) : b[z] = p[z] /\ p[z] \in Nat \ {0} /\ z # ListHead /\ p[o] < p[z]
    <3>1. OnLevel(q, M, l) = OnLevel(s, L, l) \ {o} /\ OnLevel(s, L, l) \subseteq L
      BY <1>12 DEF OnLevel, M
    <3>2. ASSUME NEW z \in OnLevel(q, M, l)
          PROVE  b[z] = p[z] /\ p[z] \in Nat \ {0} /\ z # ListHead /\ p[o] < p[z]
      <4>1. z \in L /\ z # o /\ p[z] # p[o] /\ p[o] <= p[z]
        BY <3>1, <1>1, <1>3 DEF Places
      <4> QED BY <4>1, <1>a, <1>2, <1>3
    <3> QED BY <3>1, <3>2
  <2>2. CASE x # ListHead
    <3>1. x \in OnLevel(s, L, l) /\ x # o /\ x \in L /\ q.skip[x][l] = s.skip[x][l]
      BY <2>1, <2>2, <1>13
    <3>2. LinkedTo(s, L, p, l, x)
      BY <3>1, <1>6
    <3>3. p[o] < p[x] /\ p[o] \in Nat /\ p[x] \in Nat /\ b[x] = p[x]
      BY <2>1, <2>2, <1>2, <1>3
    <3> DEFINE y == s.skip[x][l]
    <3>4. CASE y = Null
      BY <3>1, <3>2, <3>3, <3>4, <2>1, <2>2 DEF LinkedTo
    <3>5. CASE y # Null
      <4>1. y \in OnLevel(s, L, l) /\ p[x] < p[y]
        BY <3>2, <3>5, <2>2 DEF LinkedTo
      <4>2. y # o
        BY <4>1, <3>3
      <4> QED BY <4>1, <4>2, <3>1, <3>2, <3>3, <3>5, <2>1, <2>2 DEF LinkedTo
    <3> QED BY <3>4, <3>5
  <2>3. CASE x = ListHead
    <3>1. q.skip[x][l] = IF l < s.skip_levels[o] THEN s.skip[o][l] ELSE s.skip[x][l]
      BY <2>3, <1>10, <1>13
    <3>2. CASE l < s.skip_levels[o]
      <4>1. o \in OnLevel(s, L, l) /\ o # ListHead
        BY <3>2, <1>2, <1>3, <1>5 DEF OnLevel
      <4>2. LinkedTo(s, L, p, l, o)
        BY <4>1, <1>6
      <4> DEFINE y == s.skip[o][l]
      <4>3. CASE y = Null
        <5>1. \A z \in OnLevel(s, L, l) : p[z] <= p[o]
          BY <4>1, <4>2, <4>3 DEF LinkedTo
        <5>2. OnLevel(q, M, l) = {}
          BY <5>1, <2>1, <1>2, <1>3
        <5> QED BY <5>2, <4>3, <3>1, <3>2, <2>3 DEF LinkedTo
      <4>4. CASE y # Null
        <5>1. /\ y \in OnLevel(s, L, l) /\ p[o] < p[y]
              /\ \A z \in OnLevel(s, L, l) : p[z] <= p[o] \/ p[y] <= p[z]
          BY <4>1, <4>2, <4>4 DEF LinkedTo
        <5>2. y # o
          BY <5>1, <1>2, <1>3
        <5>3. y \in OnLevel(q, M, l) /\ 0 < b[y] /\ \A z \in OnLevel(q, M, l) : b[y] <= b[z]
          BY <5>1, <5>2, <2>1, <1>2, <1>3
        <5> QED BY <5>3, <4>4, <3>1, <3>2, <2>3 DEF LinkedTo
      <4> QED BY <4>3, <4>4
    <3>3. CASE ~ (l < s.skip_levels[o])
      <4>1. OnLevel(q, M, l) = OnLevel(s, L, l)
        BY <3>3, <2>1, <1>2, <1>3, <1>5 DEF OnLevel
      <4>2. LinkedTo(s, L, p, l, x)
        BY <2>3, <1>6
      <4> QED BY <4>1, <4>2, <3>1, <3>3, <2>1, <2>3 DEF LinkedTo
    <3> QED BY <3>2, <3>3
  <2> QED BY <2>2, <2>3
<1>16. \A l \in LevelsInUse(q) : LevelLinked(q, M, b, l)
  BY <1>12, <1>15 DEF LevelLinked, LevelsInUse
<1>17. Holds(q, M, r)
  BY <1>14, <1>16, HoldsFrom
<1> QED BY <1>12, <1>17 DEF q, o, M

\* An ordered set as it is before its place is looked for.
Prepared(s, o) ==
    LET levels == Cardinality({l \in 0..(s.max_level - 1) : s.items_inserted % Pow2[l] = 0}) IN
    [s EXCEPT !.skip_levels[o] = levels,
              !.skip[o] = [l \in Level |-> IF l < levels THEN Null ELSE @[l]],
              !.items_inserted = @ + 1]

\* It gets a level at least, if there is any, and no more than are in use.
LEMMA PreparedFacts ==
    ASSUME NEW s \in SkipLists, NEW o \in Oset
    PROVE  /\ Prepared(s, o) \in SkipLists
           /\ Prepared(s, o).items_inserted = s.items_inserted + 1
           /\ Prepared(s, o).size = s.size /\ Prepared(s, o).max_level = s.max_level
           /\ Prepared(s, o).skip_levels[o] <= s.max_level
           /\ s.max_level >= 1 => Prepared(s, o).skip_levels[o] > 0
           /\ \A x \in Oset \ {o} : Prepared(s, o).skip_levels[x] = s.skip_levels[x]
           /\ \A x \in (Oset \cup {ListHead}) \ {o} : Prepared(s, o).skip[x] = s.skip[x]
<1> DEFINE T == {l \in 0..(s.max_level - 1) : s.items_inserted % Pow2[l] = 0}
           levels == Cardinality(T)
           links == [l \in Level |-> IF l < levels THEN Null ELSE s.skip[o][l]]
<1>0. /\ s.max_level \in 0..MaxLevels /\ MaxLevels \in Nat /\ s.items_inserted \in Nat
      /\ s.skip \in [Oset \cup {ListHead} -> [Level -> Oset \cup {Null}]]
      /\ s.skip_levels \in [Oset -> 0..MaxLevels]
  BY OsetFacts DEF SkipLists
<1>1. IsFiniteSet(T) /\ levels <= s.max_level
  <2>1. IsFiniteSet(0..(s.max_level - 1)) /\ Cardinality(0..(s.max_level - 1)) = s.max_level
    <3>0. s.max_level \in Nat
      BY <1>0
    <3>1. 0 \in Int /\ s.max_level - 1 \in Int /\ (0 > s.max_level - 1 => s.max_level = 0)
            /\ (s.max_level - 1) - 0 + 1 = s.max_level
      BY ONLY <3>0
    <3>2. /\ IsFiniteSet(0..(s.max_level - 1))
          /\ Cardinality(0..(s.max_level - 1)) = IF 0 > s.max_level - 1 THEN 0 ELSE (s.max_level - 1) - 0 + 1
      BY ONLY <3>1, FS_Interval
    <3> QED BY <3>1, <3>2
  <2>2. T \in SUBSET (0..(s.max_level - 1))
    OBVIOUS
  <2> QED BY <2>1, <2>2, FS_Subset
<1>2. levels \in Nat
  BY <1>1, FS_CardinalityType
<1>3. s.max_level >= 1 => levels > 0
  <2> SUFFICES ASSUME s.max_level >= 1 PROVE levels > 0
    OBVIOUS
  <2>1. 0 \in 0..(s.max_level - 1) /\ Pow2[0] = 1
    BY <1>0, Pow2Rec
  <2>2. s.items_inserted % Pow2[0] = 0
    BY <2>1, <1>0
  <2>3. 0 \in T
    BY <2>1, <2>2
  <2>4. levels # 0
    BY <2>3, <1>1, FS_EmptySet
  <2> QED BY <2>4, <1>2
<1>4. Prepared(s, o) = [s EXCEPT !.skip_levels = [s.skip_levels EXCEPT ![o] = levels],
                                 !.skip = [s.skip EXCEPT ![o] = links],
                                 !.items_inserted = s.items_inserted + 1]
  BY DEF Prepared, SkipLists
<1> HIDE DEF T, levels
<1>5. links \in [Level -> Oset \cup {Null}]
  BY <1>0
<1> HIDE DEF links
<1>6. /\ [s.skip EXCEPT ![o] = links] \in [Oset \cup {ListHead} -> [Level -> Oset \cup {Null}]]
      /\ [s.skip_levels EXCEPT ![o] = levels] \in [Oset -> 0..MaxLevels]
  BY <1>0, <1>1, <1>2, <1>5
<1>7. /\ Prepared(s, o) \in SkipLists
      /\ Prepared(s, o).items_inserted = s.items_inserted + 1
      /\ Prepared(s, o).size = s.size /\ Prepared(s, o).max_level = s.max_level
      /\ Prepared(s, o).skip_levels = [s.skip_levels EXCEPT ![o] = levels]
      /\ Prepared(s, o).skip = [s.skip EXCEPT ![o] = links]
  <2> DEFINE f == [s.skip_levels EXCEPT ![o] = levels]
             g == [s.skip EXCEPT ![o] = links]
             i == s.items_inserted + 1
  <2>1. /\ f \in [Oset -> 0..MaxLevels] /\ i \in Nat
        /\ g \in [Oset \cup {ListHead} -> [Level -> Oset \cup {Null}]]
    BY <1>0, <1>6
  <2>2. Prepared(s, o) = [s EXCEPT !.skip_levels = f, !.skip = g, !.items_inserted = i]
    BY <1>4
  <2> HIDE DEF f, g, i
  <2>3. /\ Prepared(s, o) \in SkipLists /\ Prepared(s, o).items_inserted = i
        /\ Prepared(s, o).size = s.size /\ Prepared(s, o).max_level = s.max_level
        /\ Prepared(s, o).skip_levels = f /\ Prepared(s, o).skip = g
    BY <2>1, <2>2 DEF SkipLists
  <2> QED BY <2>3 DEF f, g, i
<1>8. Prepared(s, o).skip_levels[o] = levels
  BY <1>0, <1>7
<1> QED BY <1>0, <1>1, <1>3, <1>7, <1>8

\* The place of o: behind those that start with its item or a smaller one.
LEMMA PlaceOf ==
    ASSUME NEW L, NEW p, Places(L, p), NEW r, InOrder(L, r, p), NEW m \in Nat,
           \A x \in L : p[x] <= m, NEW key \in Nat, \A x \in L : Least(r[x]) \in Nat
    PROVE  \E c \in Nat : c <= m /\ \A x \in L : key >= Least(r[x]) <=> p[x] <= c
<1> DEFINE T == {c \in Nat : \A x \in L : key >= Least(r[x]) => p[x] <= c}
<1>0. \A x \in L : p[x] \in Nat \ {0}
  BY DEF Places
<1>1. m \in T
  OBVIOUS
<1>2. PICK c \in T : \A y \in T : c <= y
  <2> HIDE DEF T
  <2> QED BY <1>1, NatMin DEF T
<1>3. ASSUME NEW x \in L, p[x] <= c PROVE key >= Least(r[x])
  <2>1. c # 0 /\ c - 1 \in Nat
    BY <1>0, <1>2, <1>3
  <2>2. c - 1 \notin T
    BY <1>2, <2>1
  <2>3. PICK y \in L : key >= Least(r[y]) /\ ~ (p[y] <= c - 1)
    BY <2>1, <2>2
  <2>4. p[y] <= c
    BY <1>2, <2>3
  <2>5. p[y] = c
    BY <2>1, <2>3, <2>4, <1>0
  <2>6. x = y \/ p[x] < p[y]
    BY <2>5, <1>0, <1>3 DEF Places
  <2>7. Least(r[x]) <= Least(r[y])
    BY <2>6 DEF InOrder
  <2> QED BY <2>3, <2>7
<1>4. c \in Nat /\ c <= m /\ \A x \in L : key >= Least(r[x]) => p[x] <= c
  BY <1>1, <1>2
<1> QED BY <1>3, <1>4

\* An ordered set that has items is put in its place.
LEMMA ReinsertHolds ==
    ASSUME NEW s \in SkipLists, NEW L \in SUBSET Oset, NEW o \in Oset \ L,
           NEW r \in [Oset -> SUBSET Nat], r[o] # {}, Holds(s, L, r), s.max_level >= 1
    PROVE  /\ os_slist_reinsert(s, r, o) \in SkipLists
           /\ os_slist_reinsert(s, r, o).size = s.size
           /\ os_slist_reinsert(s, r, o).max_level = s.max_level
           /\ Holds(os_slist_reinsert(s, r, o), L \cup {o}, r)
           /\ \A x \in L : os_slist_reinsert(s, r, o).skip_levels[x] = s.skip_levels[x]
           /\ os_slist_reinsert(s, r, o).skip_levels[o] <= s.max_level
           /\ \A k \in Level : k >= s.max_level =>
                 os_slist_reinsert(s, r, o).skip[ListHead][k] = s.skip[ListHead][k]
<1> DEFINE base == Prepared(s, o)
           x0 == [sl |-> base, rest |-> r, o |-> o, lvl |-> base.max_level - 1, prior |-> ListHead]
           g == os_slist_reinsert(s, r, o)
<1>1. g = Descend[MaxLevels + MaxOsets][x0]
  BY DEF os_slist_reinsert, Prepared
<1>2. /\ base \in SkipLists /\ base.items_inserted = s.items_inserted + 1
      /\ base.size = s.size /\ base.max_level = s.max_level
      /\ base.skip_levels[o] <= s.max_level /\ base.skip_levels[o] > 0
      /\ \A x \in Oset \ {o} : base.skip_levels[x] = s.skip_levels[x]
      /\ \A x \in (Oset \cup {ListHead}) \ {o} : base.skip[x] = s.skip[x]
  BY PreparedFacts
<1> HIDE DEF base
<1>3. Holds(base, L, r)
  <2>1. \A x \in L \cup {ListHead} : x \in (Oset \cup {ListHead}) \ {o}
    BY OsetFacts
  <2>2. LevelsInUse(base) \subseteq LevelsInUse(s)
    BY <1>2 DEF LevelsInUse
  <2>3. \A x \in L \cup {ListHead} : \A l \in LevelsInUse(base) : base.skip[x][l] = s.skip[x][l]
    BY <1>2, <2>1
  <2>4. \A x \in L : r[x] = r[x] /\ base.skip_levels[x] = s.skip_levels[x]
    BY <1>2
  <2> QED BY <2>2, <2>3, <2>4, HoldsFrame
<1>4. PICK p : /\ Places(L, p) /\ InOrder(L, r, p)
               /\ \A x \in L : p[x] <= Cardinality(L)
               /\ \A l \in LevelsInUse(base) : LevelLinked(base, L, p, l)
  BY <1>3, HoldsPlaces
<1>5. \A x \in L : r[x] # {} /\ base.skip_levels[x] > 0
  BY <1>3 DEF Holds
<1>6. Least(r[o]) \in Nat /\ \A x \in L : Least(r[x]) \in Nat
  <2>1. \A x \in Oset : r[x] \subseteq Nat
    OBVIOUS
  <2> QED BY <2>1, <1>5, LeastFacts
<1>7. Cardinality(L) \in Nat /\ Cardinality(L) <= MaxOsets /\ MaxOsets \in Nat /\ MaxLevels \in Nat
  BY SomeOsets, OsetFacts
<1>8. PICK c \in Nat : c <= Cardinality(L) /\ \A x \in L : Least(r[o]) >= Least(r[x]) <=> p[x] <= c
  BY <1>4, <1>6, <1>7, PlaceOf
<1>9. base.max_level \in 1..MaxLevels
  BY <1>2, OsetFacts DEF SkipLists
<1>10. Searching(base, base, L, p, o, c, base.max_level - 1)
  <2>1. \A k \in 0..(base.max_level - 1) : k <= base.max_level - 1 /\ LevelLinked(base, L, p, k)
    BY <1>4, <1>9 DEF LevelsInUse
  <2> QED BY <2>1, <1>2 DEF Searching
<1>11. Searching(g, base, L, p, o, c, -1)
  <2> DEFINE l0 == base.max_level - 1
             k0 == MaxLevels + MaxOsets
  <2>1. l0 \in {-1} \cup Level /\ l0 < base.max_level /\ k0 \in Nat
    BY <1>7, <1>9 DEF Level
  <2>2. At(p, ListHead) = 0 /\ ListHead \notin L
    BY OsetFacts DEF At
  <2>3. At(p, ListHead) <= c /\ k0 >= (l0 + 1) + (c - At(p, ListHead))
    BY <2>2, <1>7, <1>8, <1>9
  <2>4. x0 = [sl |-> base, rest |-> r, o |-> o, lvl |-> l0, prior |-> ListHead]
    OBVIOUS
  <2>5. \A x \in L : r[x] # {} /\ (Least(r[o]) >= Least(r[x]) <=> p[x] <= c)
    BY <1>5, <1>8
  <2>6. \A k \in Nat : \A q : \A l \in {-1} \cup Level : \A a \in L \cup {ListHead} :
              /\ Searching(q, base, L, p, o, c, l) /\ l < base.max_level
              /\ a \in L => base.skip_levels[a] > l
              /\ At(p, a) <= c /\ k >= (l + 1) + (c - At(p, a))
              => Searching(Descend[k][[sl |-> q, rest |-> r, o |-> o, lvl |-> l, prior |-> a]],
                           base, L, p, o, c, -1)
    BY <2>5, <1>2, <1>4, DescendFacts
  <2> HIDE DEF l0, k0, x0, g
  <2>7. Searching(Descend[k0][x0], base, L, p, o, c, -1)
    BY <2>1, <2>2, <2>3, <2>4, <2>6, <1>10 DEF l0
  <2> QED BY <2>7, <1>1 DEF k0
<1> HIDE DEF g
<1>12. /\ g \in SkipLists /\ g.skip_levels = base.skip_levels /\ g.size = base.size
       /\ g.max_level = base.max_level
       /\ \A k \in Level : k >= base.max_level => g.skip[ListHead][k] = base.skip[ListHead][k]
  BY <1>11 DEF Searching
<1> DEFINE b == Between(L, p, o, c)
<1>13. \A l \in LevelsInUse(g) : LevelLinked(g, L \cup {o}, b, l)
  <2> SUFFICES ASSUME NEW l \in LevelsInUse(g) PROVE LevelLinked(g, L \cup {o}, b, l)
    OBVIOUS
  <2>1. l \in 0..(base.max_level - 1) /\ ~ (l <= -1)
    BY <1>9, <1>12 DEF LevelsInUse
  <2> QED BY <2>1, <1>11 DEF Searching
<1>14. /\ Places(L \cup {o}, b) /\ b[o] = 2 * c + 1
       /\ \A x \in L : b[x] = 2 * p[x] /\ p[x] \in Nat \ {0} /\ x # o
  <2>1. Places(L \cup {o}, b) /\ \A x \in L : b[x] = 2 * p[x] /\ p[x] \in Nat \ {0} /\ x # o
    BY <1>4, BetweenFacts, Zenon
  <2>2. b[o] = 2 * c + 1
    BY DEF Between
  <2> QED BY <2>1, <2>2
<1> HIDE DEF b
<1>15. InOrder(L \cup {o}, r, b)
  <2> SUFFICES ASSUME NEW x \in L \cup {o}, NEW y \in L \cup {o}, x # y
               PROVE  b[x] # b[y] /\ (b[x] < b[y] => Least(r[x]) <= Least(r[y]))
    BY DEF InOrder
  <2>1. b[x] # b[y]
    BY <1>14 DEF Places
  <2>2. CASE x = o
    <3>1. y \in L
      BY <2>2
    <3>2. b[x] < b[y] => ~ (p[y] <= c)
      BY <3>1, <2>2, <1>14
    <3> QED BY <3>1, <3>2, <2>1, <2>2, <1>6, <1>8
  <2>3. CASE y = o
    <3>1. x \in L
      BY <2>3
    <3>2. b[x] < b[y] => p[x] <= c
      BY <3>1, <2>3, <1>14
    <3> QED BY <3>1, <3>2, <2>1, <2>3, <1>6, <1>8
  <2>4. CASE x # o /\ y # o
    <3>1. b[x] < b[y] => p[x] < p[y]
      BY <2>4, <1>14
    <3> QED BY <3>1, <2>1, <2>4, <1>4 DEF InOrder
  <2> QED BY <2>2, <2>3, <2>4
<1>16. \A x \in L \cup {o} : r[x] # {} /\ g.skip_levels[x] > 0
  BY <1>2, <1>5, <1>12
<1>17. Holds(g, L \cup {o}, r)
  BY <1>13, <1>14, <1>15, <1>16, HoldsFrom
<1>18. g \in SkipLists /\ g.size = s.size /\ g.max_level = s.max_level
  BY <1>2, <1>12
<1>19. (\A x \in L : g.skip_levels[x] = s.skip_levels[x]) /\ g.skip_levels[o] <= s.max_level
  BY <1>2, <1>12
<1>20. \A k \in Level : k >= s.max_level => g.skip[ListHead][k] = s.skip[ListHead][k]
  <2>1. base.skip[ListHead] = s.skip[ListHead]
    BY <1>2, OsetFacts
  <2> QED BY <2>1, <1>2, <1>12
<1> QED BY <1>17, <1>18, <1>19, <1>20 DEF g

\* The list g is s with one ordered set less to count.
Shrunk(g, s, L, r) ==
    /\ g \in SkipLists /\ Holds(g, L, r)
    /\ g.size = s.size - 1 /\ g.max_level = LevelsFor(s.size - 1)
    /\ \A x \in L : g.skip_levels[x] = s.skip_levels[x]
    /\ g.skip[ListHead] = s.skip[ListHead]

\* One that has run empty is not, and the list shrinks.
LEMMA ReinsertEmpty ==
    ASSUME NEW s \in SkipLists, NEW L \in SUBSET Oset, NEW o \in Oset \ L,
           NEW r, r[o] = {}, Holds(s, L, r), s.size >= 1, s.max_level = LevelsFor(s.size)
    PROVE  Shrunk(os_slist_reinsert(s, r, o), s, L, r)
<1> DEFINE base == Prepared(s, o)
<1>1. os_slist_reinsert(s, r, o) = os_slist_remove(base)
  BY DEF os_slist_reinsert, Prepared
<1>2. /\ base \in SkipLists /\ base.size = s.size /\ base.max_level = s.max_level
      /\ \A x \in Oset \ {o} : base.skip_levels[x] = s.skip_levels[x]
      /\ \A x \in (Oset \cup {ListHead}) \ {o} : base.skip[x] = s.skip[x]
  BY PreparedFacts
<1> HIDE DEF base
<1>3. Holds(base, L, r)
  <2>1. \A x \in L \cup {ListHead} : x \in (Oset \cup {ListHead}) \ {o}
    BY OsetFacts
  <2>2. LevelsInUse(base) \subseteq LevelsInUse(s)
    BY <1>2 DEF LevelsInUse
  <2>3. \A x \in L \cup {ListHead} : \A l \in LevelsInUse(base) : base.skip[x][l] = s.skip[x][l]
    BY <1>2, <2>1
  <2>4. \A x \in L : r[x] = r[x] /\ base.skip_levels[x] = s.skip_levels[x]
    BY <1>2
  <2> QED BY <2>2, <2>3, <2>4, HoldsFrame
<1>4. /\ os_slist_remove(base) \in SkipLists /\ Holds(os_slist_remove(base), L, r)
      /\ os_slist_remove(base).size = base.size - 1
      /\ os_slist_remove(base).max_level = LevelsFor(base.size - 1)
      /\ os_slist_remove(base).skip = base.skip /\ os_slist_remove(base).skip_levels = base.skip_levels
  BY <1>2, <1>3, RemoveHolds
<1>5. ListHead \in (Oset \cup {ListHead}) \ {o}
  BY OsetFacts
<1> QED BY <1>1, <1>2, <1>4, <1>5 DEF Shrunk

\* No level above those in use was ever used.
Unused(s, L) ==
    /\ \A k \in Level : k >= s.max_level => s.skip[ListHead][k] = Null
    /\ \A x \in L : s.skip_levels[x] <= s.max_level

\* A list holds the ordered sets of L, and its size and levels are right.
Sound(s, L, r) ==
    s \in SkipLists /\ Holds(s, L, r) /\ s.size = Cardinality(L) /\ s.max_level = LevelsFor(s.size)

\* One more ordered set.
LEMMA CountAdded ==
    ASSUME NEW L \in SUBSET Oset, NEW o \in Oset \ L
    PROVE  /\ Cardinality(L \cup {o}) = Cardinality(L) + 1
           /\ Cardinality(L) \in Nat /\ Cardinality(L) + 1 \in 1..MaxOsets
<1>1. IsFiniteSet(L) /\ Cardinality(L) \in Nat
  BY SomeOsets
<1>2. Cardinality(L \cup {o}) = Cardinality(L) + 1
  BY <1>1, FS_AddElement
<1>3. Cardinality(L \cup {o}) <= MaxOsets /\ MaxOsets \in Nat
  <2>1. L \cup {o} \in SUBSET Oset
    OBVIOUS
  <2> QED BY <2>1, SomeOsets, OsetFacts
<1> QED BY <1>1, <1>2, <1>3

\* Another ordered set comes to a list that has only grown so far: the levels that
\* come into use are empty.
LEMMA AddHolds ==
    ASSUME NEW s, NEW L \in SUBSET Oset, NEW o \in Oset \ L, NEW r \in [Oset -> SUBSET Nat],
           Sound(s, L, r), Unused(s, L)
    PROVE  LET K == IF r[o] = {} THEN L ELSE L \cup {o} IN
           Sound(os_slist_add(s, r, o), K, r) /\ Unused(os_slist_add(s, r, o), K)
<1> DEFINE q == Resize(s, s.size + 1)
           g == os_slist_add(s, r, o)
<1>1. g = os_slist_reinsert(q, r, o)
  BY DEF os_slist_add
<1>2. /\ s \in SkipLists /\ Holds(s, L, r) /\ s.size = Cardinality(L) /\ s.max_level = LevelsFor(s.size)
      /\ s.size \in 0..MaxOsets /\ s.size + 1 \in 1..MaxOsets /\ s.size + 1 \in 0..MaxOsets /\ s.size \in Nat
  <2>1. s \in SkipLists /\ Holds(s, L, r) /\ s.size = Cardinality(L) /\ s.max_level = LevelsFor(s.size)
    BY DEF Sound
  <2>2. s.size \in Nat /\ s.size + 1 \in 1..MaxOsets /\ MaxOsets \in Nat
    BY <2>1, CountAdded, OsetFacts
  <2> QED BY <2>1, <2>2
<1>3. /\ q \in SkipLists /\ q.size = s.size + 1 /\ q.max_level = LevelsFor(s.size + 1)
      /\ q.skip = s.skip /\ q.skip_levels = s.skip_levels
  BY <1>2, ResizeFacts
<1>4. s.max_level \in Nat /\ q.max_level \in Nat /\ s.max_level <= q.max_level /\ q.max_level >= 1
        /\ q.max_level <= MaxLevels /\ MaxLevels \in Nat
  <2>1. LevelsFor(s.size) <= LevelsFor(s.size + 1)
    BY <1>2, LevelsForMono
  <2>2. LevelsFor(s.size + 1) >= 1
    BY <1>2, LevelsForOne
  <2>3. LevelsFor(s.size) \in 0..MaxLevels /\ LevelsFor(s.size + 1) \in 0..MaxLevels /\ MaxLevels \in Nat
    BY <1>2, LevelsForFacts, OsetFacts
  <2> QED BY <1>2, <1>3, <2>1, <2>2, <2>3
<1> HIDE DEF q, g
<1>5. Holds(q, L, r)
  <2>1. PICK p : /\ Places(L, p) /\ InOrder(L, r, p)
                 /\ \A l \in LevelsInUse(s) : LevelLinked(s, L, p, l)
    BY <1>2, HoldsPlaces
  <2>2. \A x \in L : r[x] # {} /\ q.skip_levels[x] > 0
    BY <1>2, <1>3 DEF Holds
  <2>3. ASSUME NEW l \in LevelsInUse(q) PROVE LevelLinked(q, L, p, l)
    <3>1. CASE l \in LevelsInUse(s)
      <4>1. LevelLinked(s, L, p, l)
        BY <3>1, <2>1
      <4> QED BY <4>1, <1>3 DEF LevelLinked, LinkedTo, OnLevel
    <3>2. CASE l \notin LevelsInUse(s)
      <4>1. l \in Level /\ l \in Nat /\ l >= s.max_level
        BY <3>2, <1>4 DEF LevelsInUse, Level
      <4>2. q.skip[ListHead][l] = Null
        BY <4>1, <1>3 DEF Unused
      <4>3. \A x \in L : q.skip_levels[x] \in Nat
        BY <1>3, OsetFacts DEF SkipLists
      <4>4. OnLevel(q, L, l) = {}
        BY <4>1, <4>3, <1>3, <1>4 DEF Unused, OnLevel
      <4> QED BY <4>2, <4>4 DEF LevelLinked, LinkedTo
    <3> QED BY <3>1, <3>2
  <2> QED BY <2>1, <2>2, <2>3, HoldsFrom
<1>6. CASE r[o] = {}
  <2>1. (s.size + 1) - 1 = s.size
    BY <1>2
  <2>2. q.size >= 1 /\ q.max_level = LevelsFor(q.size)
    BY <1>2, <1>3
  <2>3. /\ g \in SkipLists /\ g.size = s.size /\ g.max_level = LevelsFor(s.size) /\ Holds(g, L, r)
        /\ \A x \in L : g.skip_levels[x] = q.skip_levels[x]
        /\ g.skip[ListHead] = q.skip[ListHead]
    <3>1. Shrunk(g, q, L, r)
      BY <1>1, <1>3, <1>5, <1>6, <2>2, ReinsertEmpty
    <3> QED BY <3>1, <2>1, <1>3 DEF Shrunk
  <2>4. Sound(g, L, r)
    BY <2>3, <1>2 DEF Sound
  <2>5. Unused(g, L)
    BY <2>3, <1>2, <1>3 DEF Unused
  <2> QED BY <2>4, <2>5, <1>6 DEF g
<1>7. CASE r[o] # {}
  <2>1. /\ g \in SkipLists /\ g.size = q.size /\ g.max_level = q.max_level /\ Holds(g, L \cup {o}, r)
        /\ \A x \in L : g.skip_levels[x] = q.skip_levels[x]
        /\ g.skip_levels[o] <= q.max_level
        /\ \A k \in Level : k >= q.max_level => g.skip[ListHead][k] = q.skip[ListHead][k]
    BY <1>1, <1>3, <1>4, <1>5, <1>7, ReinsertHolds
  <2>2. Sound(g, L \cup {o}, r)
    BY <2>1, <1>2, <1>3, CountAdded DEF Sound
  <2>3. ASSUME NEW k \in Level, k >= g.max_level PROVE g.skip[ListHead][k] = Null
    <3>1. k >= s.max_level /\ k >= q.max_level
      BY <2>1, <2>3, <1>4, OsetFacts
    <3> QED BY <3>1, <2>1, <1>3 DEF Unused
  <2>4. ASSUME NEW x \in L PROVE g.skip_levels[x] <= g.max_level
    <3>1. g.skip_levels[x] = s.skip_levels[x] /\ s.skip_levels[x] <= s.max_level /\ s.skip_levels[x] \in Nat
      BY <2>1, <1>2, <1>3, OsetFacts DEF Unused, SkipLists
    <3> QED BY <3>1, <2>1, <1>4
  <2>5. Unused(g, L \cup {o})
    BY <2>1, <2>3, <2>4 DEF Unused
  <2> QED BY <2>2, <2>5, <1>7 DEF g
<1> QED BY <1>6, <1>7

\* The first ordered set loses its first item and goes back, unless it has run empty.
LEMMA TakeHolds ==
    ASSUME NEW s, NEW L \in SUBSET Oset, L # {}, NEW r, Sound(s, L, r),
           NEW w \in [Oset -> SUBSET Nat], \A x \in L : x # FirstOf(s) => w[x] = r[x]
    PROVE  Sound(os_slist_reinsert(os_slist_pop(s), w, FirstOf(s)), {x \in L : w[x] # {}}, w)
<1> DEFINE o == FirstOf(s)
           q == os_slist_pop(s)
           g == os_slist_reinsert(q, w, o)
           M == L \ {o}
<1>1. /\ s \in SkipLists /\ Holds(s, L, r) /\ s.size = Cardinality(L) /\ s.max_level = LevelsFor(s.size)
  BY DEF Sound
<1>2. o \in L
  BY <1>1, FirstFacts
<1>3. M \in SUBSET Oset /\ o \in Oset \ M /\ L = M \cup {o}
  BY <1>2
<1>4. Cardinality(L) = Cardinality(M) + 1 /\ Cardinality(M) \in Nat /\ s.size \in 1..MaxOsets /\ s.size \in 0..MaxOsets
  <2>1. Cardinality(M \cup {o}) = Cardinality(M) + 1 /\ Cardinality(M) \in Nat /\ Cardinality(M) + 1 \in 1..MaxOsets
    BY <1>3, CountAdded
  <2>2. s.size \in 1..MaxOsets
    BY <2>1, <1>1, <1>3
  <2>3. s.size \in 0..MaxOsets
    BY <2>2, OsetFacts
  <2>4. Cardinality(L) = Cardinality(M) + 1
    BY <2>1, <1>3
  <2> QED BY <2>1, <2>2, <2>3, <2>4
<1>5. s.max_level >= 1
  BY <1>1, <1>4, LevelsForOne, OsetFacts
<1>6. q \in SkipLists /\ q.size = s.size /\ q.max_level = s.max_level /\ Holds(q, M, r)
  BY <1>1, <1>5, PopHolds
<1> HIDE DEF q
<1>7. Holds(q, M, w)
  <2>1. \A x \in M : w[x] = r[x] /\ q.skip_levels[x] = q.skip_levels[x]
    OBVIOUS
  <2> QED BY <2>1, <1>3, <1>6, HoldsFrame
<1>8. \A x \in M : w[x] # {}
  BY <1>7 DEF Holds
<1> HIDE DEF M, o
<1>9. CASE w[o] = {}
  <2>1. {x \in L : w[x] # {}} = M
    BY <1>3, <1>8, <1>9
  <2>2. q.size >= 1 /\ q.max_level = LevelsFor(q.size)
    BY <1>1, <1>4, <1>6, OsetFacts
  <2>3. g \in SkipLists /\ g.size = q.size - 1 /\ g.max_level = LevelsFor(q.size - 1) /\ Holds(g, M, w)
    <3>1. Shrunk(g, q, M, w)
      BY <1>3, <1>6, <1>7, <1>9, <2>2, ReinsertEmpty
    <3> QED BY <3>1 DEF Shrunk
  <2>4. q.size - 1 = Cardinality(M)
    BY <1>1, <1>4, <1>6
  <2>5. Sound(g, M, w)
    BY <2>3, <2>4 DEF Sound
  <2> QED BY <2>1, <2>5 DEF o, q
<1>10. CASE w[o] # {}
  <2>1. {x \in L : w[x] # {}} = M \cup {o}
    BY <1>3, <1>8, <1>10
  <2>2. g \in SkipLists /\ g.size = q.size /\ g.max_level = q.max_level /\ Holds(g, M \cup {o}, w)
    BY <1>3, <1>5, <1>6, <1>7, <1>10, ReinsertHolds
  <2>3. Sound(g, M \cup {o}, w)
    BY <2>2, <1>1, <1>3, <1>6 DEF Sound
  <2> QED BY <2>1, <2>3 DEF o, q
<1> QED BY <1>9, <1>10

-----------------------------------------------------------------------------
(***************************************************************************)
(* The operations on sets.                                                 *)
(***************************************************************************)

\* What an output holds after another item.
LEMMA AppendItems ==
    ASSUME NEW s \in Seq(Nat), NEW i \in Nat
    PROVE  /\ Append(s, i) \in Seq(Nat) /\ Items(Append(s, i)) = Items(s) \cup {i}
           /\ Sorted(s) /\ (\A x \in Items(s) : x < i) => Sorted(Append(s, i))
<1> DEFINE a == Append(s, i)
<1>1. a \in Seq(Nat) /\ Len(s) \in Nat /\ Len(a) = Len(s) + 1 /\ a[Len(s) + 1] = i
  OBVIOUS
<1>2. \A j \in 1..Len(s) : a[j] = s[j] /\ s[j] \in Items(s) /\ s[j] \in Nat
  BY DEF Items
<1> HIDE DEF a
<1>a. 1..Len(a) = (1..Len(s)) \cup {Len(s) + 1}
  BY <1>1
<1>3. Items(a) = Items(s) \cup {i}
  <2>1. Items(a) \subseteq Items(s) \cup {i}
    BY <1>a, <1>1, <1>2 DEF Items
  <2>2. i \in Items(a)
    <3>1. Len(s) + 1 \in 1..Len(a)
      BY <1>1
    <3> QED BY <3>1, <1>1 DEF Items
  <2>3. Items(s) \subseteq Items(a)
    <3> SUFFICES ASSUME NEW j \in 1..Len(s) PROVE s[j] \in Items(a)
      BY DEF Items
    <3>1. j \in 1..Len(a) /\ a[j] = s[j]
      BY <1>a, <1>2
    <3> QED BY <3>1 DEF Items
  <2> QED BY <2>1, <2>2, <2>3
<1>4. ASSUME Sorted(s), \A x \in Items(s) : x < i PROVE Sorted(a)
  <2> SUFFICES ASSUME NEW j \in 1..Len(a), NEW k \in 1..Len(a), j < k PROVE a[j] < a[k]
    BY DEF Sorted
  <2>1. j \in 1..Len(s)
    BY <1>1
  <2>2. CASE k = Len(s) + 1
    BY <2>1, <2>2, <1>1, <1>2, <1>4
  <2>3. CASE k # Len(s) + 1
    <3>1. k \in 1..Len(s)
      BY <1>a, <2>3
    <3> QED BY <2>1, <3>1, <1>2, <1>4 DEF Sorted
  <2> QED BY <2>2, <2>3
<1> QED BY <1>1, <1>3, <1>4 DEF a

\* The items of the inverted sets, or of all sets of an OR; what is left of them; and
\* the items that all regular sets have.
Inverted == UNION {given[i] : i \in (regular + 1)..Len(given)}
Remaining == UNION {rest[o] : o \in (regular + 1)..Len(given)}
Common == {x \in 1..MaxItem : \A i \in 1..regular : x \in given[i]}

GivenOK ==
    /\ Len(given) \in 1..MaxOsets /\ given \in [1..Len(given) -> SUBSET (1..MaxItem)]
    /\ regular \in 0..Len(given)

StateOK ==
    /\ phase \in {"open", "first", "union", "and", "done"}
    /\ opened \in 0..Len(given) /\ (phase # "open" => opened = Len(given))
    /\ rest \in [Oset -> SUBSET (1..MaxItem)]
    /\ union \in Seq(Nat) /\ Sorted(union) /\ inter \in Seq(Nat) /\ Sorted(inter)
    /\ last_item \in 0..MaxItem /\ curr_item \in 0..MaxItem /\ matches \in 0..regular
    /\ inv \subseteq 1..MaxItem

\* The skip list holds what it should, and grows only while the sets are opened.
ListOK ==
    /\ sl \in SkipLists
    /\ phase # "done" => Sound(sl, InList, rest)
    /\ phase = "open" => Unused(sl, InList)

\* Until the AND begins, nothing was read from the regular sets.
RegularOK ==
    phase \in {"open", "first", "union"} =>
        /\ inter = <<>> /\ matches = 0 /\ curr_item = 0 /\ curr_set = 1
        /\ \A i \in 1..regular : rest[i] = given[i]

\* Every item of the union is in the output, or is the one to come next, or is left.
UnionOK ==
    /\ phase \in {"open", "first"} => union = <<>> /\ Remaining = Inverted
    /\ phase = "union" =>
          /\ Items(union) \cup {last_item} \cup Remaining = Inverted
          /\ \A x \in Items(union) : x < last_item
          /\ \A x \in Remaining : last_item <= x
    /\ phase = "done" /\ regular = 0 => Items(union) = Inverted

\* How many turns ago it was the turn of the regular set s.
Ago(s) == IF s < curr_set THEN curr_set - s ELSE curr_set - s + regular

\* The AND: below curr_item all is decided.  The sets of the last turns, as many as
\* match_count says, have had curr_item; a set of an earlier turn still has it in
\* front of it, or has not got it.
AndOK ==
    /\ phase = "and" =>
          /\ regular >= 1 /\ curr_set \in 1..regular
          /\ \A s \in 1..regular : rest[s] \subseteq given[s]
          /\ \A s \in 1..regular : \A i \in given[s] : i > curr_item => i \in rest[s]
          /\ \A s \in 1..regular : Ago(s) <= matches => curr_item \in given[s]
          /\ \A s \in 1..regular : Ago(s) <= matches \/ matches = 0 => \A i \in rest[s] : i > curr_item
          /\ \A s \in 1..regular : matches > 0 /\ curr_item \in given[s] =>
                curr_item \in rest[s] \/ Ago(s) <= matches
          /\ inv \subseteq Inverted /\ \A i \in Inverted : i >= curr_item => i \in inv
          /\ Items(inter) = {x \in Common \ Inverted : x < curr_item \/ (x = curr_item /\ matches = 0)}
    /\ phase = "done" /\ regular > 0 => Items(inter) = Common \ Inverted

SetInv == GivenOK /\ StateOK /\ ListOK /\ RegularOK /\ UnionOK /\ AndOK

\* The ranges of the constants and of the inputs.
LEMMA GivenFacts ==
    ASSUME GivenOK
    PROVE  /\ Len(given) \in Nat \ {0} /\ Len(given) <= MaxOsets /\ regular \in Nat /\ regular <= Len(given)
           /\ MaxOsets \in Nat /\ MaxItem \in Nat
           /\ \A i \in 1..Len(given) : i \in Oset /\ i \in Nat /\ given[i] \subseteq 1..MaxItem
           /\ (regular + 1)..Len(given) \subseteq Oset /\ 1..regular \subseteq Oset
           /\ Inverted \subseteq 1..MaxItem
<1>1. MaxOsets \in Nat /\ MaxItem \in Nat
  BY OsetFacts, SetAssumption
<1>2. Len(given) \in Nat \ {0} /\ Len(given) <= MaxOsets /\ regular \in Nat /\ regular <= Len(given)
  BY <1>1 DEF GivenOK
<1>3. \A i \in 1..Len(given) : i \in Oset /\ i \in Nat /\ given[i] \subseteq 1..MaxItem
  BY <1>1, <1>2 DEF GivenOK, Oset
<1>4. (regular + 1)..Len(given) \subseteq Oset /\ 1..regular \subseteq Oset
  BY <1>1, <1>2 DEF Oset
<1>5. Inverted \subseteq 1..MaxItem
  <2> SUFFICES ASSUME NEW i \in (regular + 1)..Len(given) PROVE given[i] \subseteq 1..MaxItem
    BY DEF Inverted
  <2>1. i \in 1..Len(given)
    BY <1>2
  <2> QED BY <2>1, <1>3
<1> QED BY <1>1, <1>2, <1>3, <1>4, <1>5

\* The empty list.
LEMMA EmptyList ==
    ASSUME NEW r
    PROVE  os_slist_init \in SkipLists /\ Sound(os_slist_init, {}, r) /\ Unused(os_slist_init, {})
<1> DEFINE s == os_slist_init
<1>1. /\ s \in SkipLists /\ s.size = 0 /\ s.max_level = 0
      /\ \A l \in Level : s.skip[ListHead][l] = Null
  BY OsetFacts DEF os_slist_init, SkipLists
<1> HIDE DEF s
<1>2. Cardinality({}) = 0
  BY FS_EmptySet
<1>3. LevelsFor(0) = 0
  <2>1. 0 \in 0..MaxOsets
    BY OsetFacts
  <2>2. LevelsFor(0) \in Nat /\ \A k \in 0..(LevelsFor(0) - 1) : 0 >= Pow2[k]
    BY <2>1, LevelsForFacts, OsetFacts
  <2>3. Pow2[0] = 1
    BY Pow2Rec
  <2> SUFFICES ASSUME LevelsFor(0) # 0 PROVE FALSE
    OBVIOUS
  <2>4. 0 \in 0..(LevelsFor(0) - 1)
    BY <2>2
  <2> QED BY <2>2, <2>3, <2>4
<1>4. Holds(s, {}, r)
  <2> DEFINE p == [x \in {} |-> 1]
  <2>1. Places({}, p) /\ InOrder({}, r, p)
    BY DEF Places, InOrder
  <2>2. \A l \in LevelsInUse(s) : LevelLinked(s, {}, p, l)
    <3>1. LevelsInUse(s) = {0}
      BY <1>1 DEF LevelsInUse
    <3>2. s.skip[ListHead][0] = Null
      BY <1>1, OsetFacts
    <3> QED BY <3>1, <3>2 DEF LevelLinked, LinkedTo, OnLevel
  <2> HIDE DEF p
  <2> QED BY <2>1, <2>2, HoldsFrom
<1>5. Sound(s, {}, r)
  BY <1>1, <1>2, <1>3, <1>4 DEF Sound
<1>6. Unused(s, {})
  BY <1>1 DEF Unused
<1> QED BY <1>1, <1>5, <1>6 DEF s

\* At the start all is still to be read.
LEMMA SetInvInit == SetInit => SetInv
<1> SUFFICES ASSUME SetInit PROVE SetInv
  OBVIOUS
<1>1. GivenOK
  <2>1. PICK k \in 1..MaxOsets : given \in [1..k -> SUBSET (1..MaxItem)]
    BY DEF SetInit
  <2>2. k \in Nat
    BY OsetFacts
  <2>3. Len(given) = k
    BY <2>1, <2>2
  <2> QED BY <2>1, <2>3 DEF GivenOK, SetInit
<1>2. rest \in [Oset -> SUBSET (1..MaxItem)] /\ \A i \in 1..Len(given) : rest[i] = given[i]
  <2>1. rest = [o \in Oset |-> IF o \in 1..Len(given) THEN given[o] ELSE {}]
    BY DEF SetInit, Inputs
  <2>2. \A i \in 1..Len(given) : i \in Oset /\ given[i] \subseteq 1..MaxItem
    BY <1>1, GivenFacts
  <2> QED BY <2>1, <2>2
<1>3. Remaining = Inverted /\ \A i \in 1..regular : rest[i] = given[i]
  <2>1. (regular + 1)..Len(given) \subseteq 1..Len(given) /\ 1..regular \subseteq 1..Len(given)
    BY <1>1, GivenFacts
  <2> QED BY <2>1, <1>2 DEF Remaining, Inverted
<1>4. StateOK
  <2>1. <<>> \in Seq(Nat) /\ Sorted(<<>>)
    BY DEF Sorted
  <2>2. 0 \in 0..Len(given) /\ 0 \in 0..MaxItem /\ 0 \in 0..regular
    BY <1>1, GivenFacts
  <2> QED BY <1>2, <2>1, <2>2 DEF StateOK, SetInit
<1>5. ListOK
  <2>1. InList = {}
    BY OsetFacts, GivenFacts, <1>1 DEF InList, SetInit
  <2> QED BY <2>1, EmptyList DEF ListOK, SetInit
<1>6. RegularOK /\ UnionOK /\ AndOK
  BY <1>3 DEF RegularOK, UnionOK, AndOK, SetInit
<1> QED BY <1>1, <1>4, <1>5, <1>6 DEF SetInv

\* Another input is opened: an ordered set with items comes to the list.
LEMMA OpenSetStep == SetInv /\ OpenSet => SetInv'
<1> SUFFICES ASSUME SetInv, OpenSet PROVE SetInv'
  OBVIOUS
<1>1. /\ phase = "open" /\ phase' = phase /\ opened < Len(given) /\ opened' = opened + 1
      /\ given' = given /\ regular' = regular /\ rest' = rest /\ last_item' = last_item /\ union' = union
      /\ inv' = inv /\ curr_set' = curr_set /\ curr_item' = curr_item /\ matches' = matches /\ inter' = inter
      /\ sl' = IF opened + 1 <= regular THEN sl ELSE os_slist_add(sl, rest, opened + 1)
  BY DEF OpenSet, andVars
<1>2. GivenOK /\ StateOK /\ ListOK /\ RegularOK /\ UnionOK /\ AndOK
  BY DEF SetInv
<1>3. opened \in Nat /\ Len(given) \in Nat /\ regular \in Nat /\ opened + 1 \in Oset /\ MaxItem \in Nat
  <2>1. Len(given) \in Nat \ {0} /\ regular \in Nat /\ opened \in 0..Len(given) /\ MaxItem \in Nat
    BY <1>2, GivenFacts DEF StateOK
  <2>2. opened + 1 \in 1..Len(given)
    BY <2>1, <1>1
  <2> QED BY <2>1, <2>2, <1>2, GivenFacts
<1>4. GivenOK'
  BY <1>1, <1>2 DEF GivenOK
<1>5. StateOK'
  BY <1>1, <1>2, <1>3 DEF StateOK
<1>6. RegularOK'
  BY <1>1, <1>2 DEF RegularOK
<1>7. UnionOK'
  BY <1>1, <1>2 DEF UnionOK, Remaining, Inverted
<1>8. AndOK'
  BY <1>1 DEF AndOK
<1> DEFINE o == opened + 1
           L == InList
           K == IF rest[o] = {} THEN L ELSE L \cup {o}
<1>9. L = {x \in Oset : regular < x /\ x <= opened /\ rest[x] # {}}
  BY <1>1 DEF InList
<1>10. InList' = {x \in Oset : regular < x /\ x <= o /\ rest[x] # {}}
  BY <1>1 DEF InList
<1>11. rest \in [Oset -> SUBSET Nat]
  <2>1. 1..MaxItem \subseteq Nat
    BY <1>3
  <2> QED BY <2>1, <1>2 DEF StateOK
<1>12. Sound(sl, L, rest) /\ Unused(sl, L)
  BY <1>1, <1>2 DEF ListOK
<1> HIDE DEF L
<1>13. CASE o <= regular
  <2>1. L = {} /\ InList' = {}
    <3>1. \A x \in Oset : x \in Nat
      BY OsetFacts
    <3> QED BY <3>1, <1>3, <1>9, <1>10, <1>13
  <2> QED BY <2>1, <1>1, <1>12, <1>13, <1>4, <1>5, <1>6, <1>7, <1>8, <1>2 DEF ListOK, SetInv
<1>14. CASE ~ (o <= regular)
  <2>1. L \in SUBSET Oset /\ o \in Oset \ L
    BY <1>3, <1>9
  <2>2. Sound(os_slist_add(sl, rest, o), K, rest) /\ Unused(os_slist_add(sl, rest, o), K)
    BY <2>1, <1>11, <1>12, AddHolds
  <2>3. InList' = K
    <3>1. \A x \in Oset : x <= o <=> x <= opened \/ x = o
      BY <1>3, OsetFacts
    <3> QED BY <3>1, <1>3, <1>9, <1>10, <1>14
  <2>4. sl' = os_slist_add(sl, rest, o)
    BY <1>1, <1>14
  <2>5. ListOK'
    BY <2>2, <2>3, <2>4, <1>1 DEF ListOK, Sound
  <2> QED BY <2>5, <1>4, <1>5, <1>6, <1>7, <1>8 DEF SetInv
<1> QED BY <1>13, <1>14

\* The AND begins with all items of the regular sets, and with those of the inverted.
LEMMA AndBegins ==
    ASSUME GivenOK', regular' # 0, phase' = "and", inter' = <<>>, matches' = 0, curr_item' = 0,
           curr_set' = 1, \A i \in 1..regular' : rest'[i] = given'[i], inv' = Inverted'
    PROVE  AndOK'
<1>1. /\ regular' \in Nat \ {0} /\ 1 \in 1..regular'
      /\ \A s \in 1..regular' : s \in 1..Len(given)' /\ s \in Nat
  BY DEF GivenOK
<1>2. \A s \in 1..regular' : ~ (Ago(s)' <= 0)
  <2> SUFFICES ASSUME NEW s \in 1..regular' PROVE ~ (Ago(s)' <= 0)
    OBVIOUS
  <2>1. s \in Nat /\ ~ (s < 1) /\ s <= regular' /\ regular' \in Nat
    BY <1>1
  <2>2. (IF s < 1 THEN 1 - s ELSE 1 - s + regular') = 1 - s + regular'
    BY <2>1
  <2>3. ~ (1 - s + regular' <= 0)
    <3> SUFFICES ASSUME NEW a \in Nat, NEW b \in Nat, b <= a PROVE ~ (1 - b + a <= 0)
      BY <2>1
    <3> QED OBVIOUS
  <2>4. Ago(s)' = IF s < curr_set' THEN curr_set' - s ELSE curr_set' - s + regular'
    BY DEF Ago
  <2> QED BY <2>2, <2>3, <2>4
<1>3. \A s \in 1..regular' : \A i \in rest'[s] : i > 0
  <2>1. \A s \in 1..regular' : given'[s] \subseteq 1..MaxItem
    BY <1>1 DEF GivenOK
  <2> QED BY <2>1, SetAssumption
<1>4. Items(<<>>) = {}
  BY DEF Items
<1>5. {x \in Common' \ Inverted' : x < 0 \/ (x = 0 /\ 0 = 0)} = {}
  BY SetAssumption DEF Common
<1> QED BY <1>1, <1>2, <1>3, <1>4, <1>5 DEF AndOK

\* All inputs are open: with at most one inverted set its items are taken as they are.
LEMMA OpenedStep == SetInv /\ Opened => SetInv'
<1> SUFFICES ASSUME SetInv, Opened PROVE SetInv'
  OBVIOUS
<1>1. /\ phase = "open" /\ opened = Len(given)
      /\ given' = given /\ regular' = regular /\ opened' = opened /\ rest' = rest /\ last_item' = last_item
      /\ union' = union /\ curr_set' = curr_set /\ curr_item' = curr_item /\ matches' = matches
      /\ inter' = inter
  BY DEF Opened
<1>2. GivenOK /\ StateOK /\ ListOK /\ RegularOK /\ UnionOK /\ AndOK
  BY DEF SetInv
<1>3. /\ Sound(sl, InList, rest) /\ Remaining = Inverted /\ union = <<>> /\ inter = <<>> /\ matches = 0
      /\ curr_item = 0 /\ curr_set = 1 /\ \A i \in 1..regular : rest[i] = given[i]
  BY <1>1, <1>2 DEF ListOK, UnionOK, RegularOK
<1>4. GivenOK'
  BY <1>1, <1>2 DEF GivenOK
<1>5. /\ sl \in SkipLists /\ Holds(sl, InList, rest) /\ sl.size = Cardinality(InList)
      /\ sl.max_level = LevelsFor(sl.size)
  BY <1>3 DEF Sound
<1>6. /\ InList \in SUBSET Oset
      /\ InList = {o \in (regular + 1)..Len(given) : rest[o] # {}}
  <2>1. InList = {o \in Oset : regular < o /\ o <= Len(given) /\ rest[o] # {}}
    BY <1>1 DEF InList
  <2>2. \A o \in Oset : o \in Nat
    BY OsetFacts
  <2>3. regular \in Nat /\ Len(given) \in Nat /\ (regular + 1)..Len(given) \subseteq Oset
    BY <1>2, GivenFacts
  <2> QED BY <2>1, <2>2, <2>3
<1>7. CASE regular > 0 /\ sl.size <= 1
  <2>1. /\ phase' = "and" /\ inv' = (IF sl.size = 1 THEN rest[FirstOf(sl)] ELSE {})
        /\ sl' = (IF sl.size = 1 THEN os_slist_remove(os_slist_pop(sl)) ELSE sl)
    BY <1>7 DEF Opened
  <2>2. Cardinality({}) = 0 /\ IsFiniteSet(InList) /\ Cardinality(InList) \in Nat
    BY <1>6, SomeOsets, FS_EmptySet
  <2>3. Sound(sl', {}, rest) /\ inv' = Remaining
    <3>1. CASE sl.size = 1
      <4>1. PICK x : InList = {x}
        BY <3>1, <1>5, <2>2, FS_Singleton
      <4>2. FirstOf(sl) = x /\ InList \ {FirstOf(sl)} = {}
        BY <4>1, <1>5, <1>6, FirstFacts
      <4>3. sl.max_level >= 1
        <5>1. 1 \in 0..MaxOsets /\ 1 >= 1
          BY <4>1, <1>6, OsetFacts DEF Oset
        <5>2. LevelsFor(1) >= 1
          BY <5>1, LevelsForOne
        <5> QED BY <5>2, <3>1, <1>5
      <4> DEFINE q == os_slist_pop(sl)
      <4>4. q \in SkipLists /\ q.size = 1 /\ q.max_level = LevelsFor(q.size) /\ Holds(q, {}, rest)
        <5>1. /\ os_slist_pop(sl) \in SkipLists
              /\ os_slist_pop(sl).size = sl.size /\ os_slist_pop(sl).max_level = sl.max_level
              /\ Holds(os_slist_pop(sl), InList \ {FirstOf(sl)}, rest)
          BY <4>1, <4>3, <1>5, <1>6, PopHolds
        <5> QED BY <5>1, <4>2, <3>1, <1>5
      <4> HIDE DEF q
      <4>5. /\ os_slist_remove(q) \in SkipLists /\ Holds(os_slist_remove(q), {}, rest)
            /\ os_slist_remove(q).size = q.size - 1
            /\ os_slist_remove(q).max_level = LevelsFor(q.size - 1)
        <5>1. {} \in SUBSET Oset /\ q.size >= 1
          BY <4>4
        <5> QED BY <5>1, <4>4, RemoveHolds
      <4>6. Sound(os_slist_remove(q), {}, rest)
        BY <4>4, <4>5, <2>2 DEF Sound
      <4>7. Remaining = rest[x]
        BY <4>1, <1>6 DEF Remaining
      <4> QED BY <4>2, <4>6, <4>7, <2>1, <3>1 DEF q
    <3>2. CASE sl.size # 1
      <4>1. Cardinality(InList) = 0
        BY <3>2, <1>5, <1>7, <2>2
      <4>2. InList = {}
        BY <4>1, <2>2, FS_EmptySet
      <4>3. Remaining = {}
        BY <4>2, <1>6 DEF Remaining
      <4> QED BY <4>2, <4>3, <1>3, <2>1, <3>2
    <3> QED BY <3>1, <3>2
  <2>4. Inverted' = Inverted /\ Inverted \subseteq 1..MaxItem
    BY <1>1, <1>2, GivenFacts DEF Inverted
  <2>5. inv' = Inverted'
    BY <2>3, <2>4, <1>3
  <2>6. AndOK'
    <3>1. \A i \in 1..regular' : rest'[i] = given'[i]
      BY <1>1, <1>3
    <3>2. regular' # 0
      BY <1>1, <1>7
    <3> QED BY <3>1, <3>2, <2>5, <2>1, <1>1, <1>3, <1>4, AndBegins
  <2>7. StateOK'
    BY <2>1, <2>4, <2>5, <1>1, <1>2 DEF StateOK
  <2>8. ListOK'
    <3>1. InList' = {}
      BY <2>1 DEF InList
    <3> QED BY <3>1, <2>1, <2>3, <1>1 DEF ListOK, Sound
  <2>9. RegularOK' /\ UnionOK'
    BY <2>1 DEF RegularOK, UnionOK
  <2> QED BY <1>4, <2>6, <2>7, <2>8, <2>9 DEF SetInv
<1>8. CASE ~ (regular > 0 /\ sl.size <= 1)
  <2>1. phase' = "first" /\ sl' = sl /\ inv' = inv
    BY <1>8 DEF Opened
  <2>2. StateOK'
    BY <2>1, <1>1, <1>2 DEF StateOK
  <2>3. ListOK'
    <3>1. InList' = InList
      BY <2>1, <1>1 DEF InList
    <3> QED BY <3>1, <2>1, <1>1, <1>3, <1>5 DEF ListOK
  <2>4. RegularOK'
    BY <2>1, <1>1, <1>3 DEF RegularOK
  <2>5. UnionOK'
    BY <2>1, <1>1, <1>3 DEF UnionOK, Remaining, Inverted
  <2>6. AndOK'
    BY <2>1 DEF AndOK
  <2> QED BY <1>4, <2>2, <2>3, <2>4, <2>5, <2>6 DEF SetInv
<1> QED BY <1>7, <1>8

\* While all inputs are open and the AND has not begun, the list has the ordered sets
\* with items among the last of the inputs.
LEMMA ListedInputs ==
    ASSUME GivenOK, StateOK, phase \in {"first", "union"}
    PROVE  InList \in SUBSET Oset /\ InList = {o \in (regular + 1)..Len(given) : rest[o] # {}}
<1>1. opened = Len(given)
  BY DEF StateOK
<1>2. InList = {o \in Oset : regular < o /\ o <= Len(given) /\ rest[o] # {}}
  BY <1>1 DEF InList
<1>3. \A o \in Oset : o \in Nat
  BY OsetFacts
<1>4. regular \in Nat /\ Len(given) \in Nat /\ (regular + 1)..Len(given) \subseteq Oset
  BY GivenFacts
<1> QED BY <1>2, <1>3, <1>4

\* What a turn of the union takes: the least item that is left.
LEMMA TakeFirstFacts ==
    ASSUME GivenOK, StateOK, ListOK, phase \in {"first", "union"}, FirstOf(sl) # Null, TakeFirst,
           given' = given, regular' = regular, opened' = opened, phase' = "union"
    PROVE  /\ ListOK' /\ rest' \in [Oset -> SUBSET (1..MaxItem)]
           /\ \A i \in 1..regular : rest'[i] = rest[i]
           /\ Least(rest[FirstOf(sl)]) \in 1..MaxItem
           /\ \A x \in Remaining : Least(rest[FirstOf(sl)]) <= x
           /\ Remaining = Remaining' \cup {Least(rest[FirstOf(sl)])}
<1> DEFINE o == FirstOf(sl)
           m == Least(rest[o])
           L == InList
<1>1. Sound(sl, L, rest) /\ Holds(sl, L, rest)
  BY DEF ListOK, Sound
<1>2. L \in SUBSET Oset /\ L = {x \in (regular + 1)..Len(given) : rest[x] # {}}
  BY ListedInputs
<1>3. o \in L /\ L # {} /\ \A x \in L : x # o => m <= Least(rest[x])
  BY <1>1, <1>2, FirstFacts
<1>4. /\ MaxItem \in Nat /\ regular \in Nat /\ Len(given) \in Nat /\ (regular + 1)..Len(given) \subseteq Oset
      /\ 1..regular \subseteq Oset
  BY GivenFacts
<1>5. /\ rest \in [Oset -> SUBSET (1..MaxItem)] /\ rest' = [rest EXCEPT ![o] = @ \ {m}]
      /\ sl' = os_slist_reinsert(os_slist_pop(sl), rest', o)
  BY DEF TakeFirst, StateOK
<1>6. \A x \in Oset : rest[x] \subseteq 1..MaxItem /\ rest[x] \subseteq Nat
  BY <1>4, <1>5
<1>7. ASSUME NEW x \in L PROVE Least(rest[x]) \in rest[x] /\ \A j \in rest[x] : Least(rest[x]) <= j
  BY <1>2, <1>6, LeastFacts
<1>8. m \in rest[o] /\ m \in 1..MaxItem /\ m \in Nat
  BY <1>2, <1>3, <1>4, <1>6, <1>7
<1>9. rest' \in [Oset -> SUBSET (1..MaxItem)] /\ \A x \in Oset : rest'[x] = IF x = o THEN rest[o] \ {m} ELSE rest[x]
  BY <1>2, <1>3, <1>5
<1> HIDE DEF m, o, L
<1>10. InList' = {x \in L : rest'[x] # {}}
  <2>1. InList' = {x \in Oset : regular < x /\ x <= Len(given) /\ rest'[x] # {}}
    BY DEF InList, StateOK
  <2>2. \A x \in Oset : x \in Nat
    BY OsetFacts
  <2>3. \A x \in Oset : rest'[x] # {} => rest[x] # {}
    BY <1>9
  <2>4. ASSUME NEW x \in Oset
        PROVE  regular < x /\ x <= Len(given) <=> x \in (regular + 1)..Len(given)
    BY <2>2, <1>4
  <2>5. ASSUME NEW x \in Oset, rest'[x] # {} PROVE regular < x /\ x <= Len(given) <=> x \in L
    BY <2>3, <2>4, <2>5, <1>2
  <2> QED BY <2>1, <2>5, <1>2
<1>11. Sound(sl', InList', rest')
  <2>1. rest' \in [Oset -> SUBSET Nat]
    BY <1>4, <1>9
  <2>2. \A x \in L : x # FirstOf(sl) => rest'[x] = rest[x]
    BY <1>2, <1>9 DEF o
  <2>3. Sound(os_slist_reinsert(os_slist_pop(sl), rest', FirstOf(sl)), {x \in L : rest'[x] # {}}, rest')
    BY <2>1, <2>2, <1>1, <1>2, <1>3, TakeHolds
  <2> QED BY <2>3, <1>5, <1>10 DEF o
<1>12. ListOK'
  BY <1>11 DEF ListOK, Sound
<1>13. \A i \in 1..regular : rest'[i] = rest[i]
  <2>1. ASSUME NEW i \in 1..regular PROVE i # o
    BY <1>2, <1>3, <1>4
  <2> QED BY <2>1, <1>4, <1>9
<1>14. \A x \in Remaining : m <= x
  <2> SUFFICES ASSUME NEW y \in (regular + 1)..Len(given), NEW x \in rest[y] PROVE m <= x
    BY DEF Remaining
  <2>1. y \in L
    BY <1>2
  <2>2. Least(rest[y]) <= x /\ Least(rest[y]) \in Nat /\ x \in Nat
    BY <2>1, <1>2, <1>6, <1>7
  <2>3. m <= Least(rest[y])
    BY <2>1, <2>2, <1>3, <1>8 DEF m
  <2> QED BY <2>2, <2>3, <1>8
<1>15. Remaining = Remaining' \cup {m}
  <2>0. Remaining' = UNION {rest'[y] : y \in (regular + 1)..Len(given)}
    BY DEF Remaining
  <2>1. o \in (regular + 1)..Len(given)
    BY <1>2, <1>3
  <2>2. m \in Remaining
    BY <2>1, <1>8 DEF Remaining
  <2>3. ASSUME NEW y \in (regular + 1)..Len(given) PROVE rest'[y] \subseteq rest[y] /\ rest[y] \subseteq rest'[y] \cup {m}
    BY <1>4, <1>9
  <2>4. Remaining' \subseteq Remaining
    BY <2>0, <2>3 DEF Remaining
  <2>5. Remaining \subseteq Remaining' \cup {m}
    BY <2>0, <2>3 DEF Remaining
  <2> QED BY <2>2, <2>4, <2>5
<1> QED BY <1>8, <1>9, <1>12, <1>13, <1>14, <1>15 DEF o, m

\* The first turn of the union.
LEMMA UnionFirstStep == SetInv /\ UnionFirst => SetInv'
<1> SUFFICES ASSUME SetInv, UnionFirst PROVE SetInv'
  OBVIOUS
<1> DEFINE m == Least(rest[FirstOf(sl)])
<1>1. /\ phase = "first" /\ FirstOf(sl) # Null /\ phase' = "union" /\ last_item' = m /\ TakeFirst
      /\ given' = given /\ regular' = regular /\ opened' = opened /\ union' = union
      /\ inv' = inv /\ curr_set' = curr_set /\ curr_item' = curr_item /\ matches' = matches /\ inter' = inter
  BY DEF UnionFirst, andVars
<1>2. GivenOK /\ StateOK /\ ListOK /\ RegularOK /\ UnionOK /\ AndOK
  BY DEF SetInv
<1>3. /\ ListOK' /\ rest' \in [Oset -> SUBSET (1..MaxItem)]
      /\ \A i \in 1..regular : rest'[i] = rest[i]
      /\ m \in 1..MaxItem /\ (\A x \in Remaining : m <= x) /\ Remaining = Remaining' \cup {m}
  BY <1>1, <1>2, TakeFirstFacts
<1> HIDE DEF m
<1>4. GivenOK'
  BY <1>1, <1>2 DEF GivenOK
<1>5. StateOK'
  <2>1. m \in 0..MaxItem
    BY <1>3, SetAssumption
  <2> QED BY <2>1, <1>1, <1>2, <1>3 DEF StateOK
<1>6. RegularOK'
  BY <1>1, <1>2, <1>3 DEF RegularOK
<1>7. UnionOK'
  <2>1. union = <<>> /\ Remaining = Inverted /\ Items(<<>>) = {} /\ Inverted' = Inverted
    BY <1>1, <1>2 DEF UnionOK, Items, Inverted
  <2>2. Items(union') = {}
    BY <2>1, <1>1
  <2> QED BY <2>1, <2>2, <1>1, <1>3 DEF UnionOK
<1>8. AndOK'
  BY <1>1 DEF AndOK
<1> QED BY <1>3, <1>4, <1>5, <1>6, <1>7, <1>8 DEF SetInv

\* A later one: the item before is output when this one differs.
LEMMA UnionNextStep == SetInv /\ UnionNext => SetInv'
<1> SUFFICES ASSUME SetInv, UnionNext PROVE SetInv'
  OBVIOUS
<1> DEFINE m == Least(rest[FirstOf(sl)])
<1>1. /\ phase = "union" /\ FirstOf(sl) # Null /\ phase' = phase /\ last_item' = m /\ TakeFirst
      /\ union' = (IF m # last_item THEN Append(union, last_item) ELSE union)
      /\ given' = given /\ regular' = regular /\ opened' = opened
      /\ inv' = inv /\ curr_set' = curr_set /\ curr_item' = curr_item /\ matches' = matches /\ inter' = inter
  BY DEF UnionNext, andVars
<1>2. GivenOK /\ StateOK /\ ListOK /\ RegularOK /\ UnionOK /\ AndOK
  BY DEF SetInv
<1>3. /\ ListOK' /\ rest' \in [Oset -> SUBSET (1..MaxItem)]
      /\ \A i \in 1..regular : rest'[i] = rest[i]
      /\ m \in 1..MaxItem /\ (\A x \in Remaining : m <= x) /\ Remaining = Remaining' \cup {m}
  BY <1>1, <1>2, TakeFirstFacts
<1> HIDE DEF m
<1>4. GivenOK'
  BY <1>1, <1>2 DEF GivenOK
<1>a. /\ Items(union) \cup {last_item} \cup Remaining = Inverted /\ (\A x \in Items(union) : x < last_item)
      /\ (\A x \in Remaining : last_item <= x) /\ union \in Seq(Nat) /\ Sorted(union)
      /\ last_item \in 0..MaxItem
  BY <1>1, <1>2 DEF UnionOK, StateOK
<1>b. last_item <= m /\ last_item \in Nat /\ m \in Nat /\ MaxItem \in Nat
  <2>1. m \in Remaining
    BY <1>3
  <2> QED BY <2>1, <1>3, <1>a, SetAssumption
<1>c. \A x \in Items(union) : x \in Nat
  BY <1>a DEF Items
<1>d. /\ union' \in Seq(Nat) /\ Sorted(union') /\ (\A x \in Items(union') : x < m)
      /\ Items(union') \cup {m} \cup Remaining' = Inverted
  <2>1. CASE m = last_item
    BY <2>1, <1>1, <1>3, <1>a
  <2>2. CASE m # last_item
    <3>1. union' = Append(union, last_item) /\ last_item < m
      BY <2>2, <1>1, <1>b
    <3>2. union' \in Seq(Nat) /\ Items(union') = Items(union) \cup {last_item} /\ Sorted(union')
      BY <3>1, <1>a, <1>b, AppendItems
    <3>3. \A x \in Items(union') : x < m
      BY <3>1, <3>2, <1>a, <1>b, <1>c
    <3> QED BY <3>2, <3>3, <1>3, <1>a
  <2> QED BY <2>1, <2>2
<1>5. StateOK'
  <2>1. m \in 0..MaxItem
    BY <1>3, SetAssumption
  <2> QED BY <2>1, <1>1, <1>2, <1>3, <1>d DEF StateOK
<1>6. RegularOK'
  BY <1>1, <1>2, <1>3 DEF RegularOK
<1>7. UnionOK'
  <2>1. Inverted' = Inverted
    BY <1>1 DEF Inverted
  <2> QED BY <2>1, <1>1, <1>3, <1>d DEF UnionOK
<1>8. AndOK'
  BY <1>1 DEF AndOK
<1> QED BY <1>3, <1>4, <1>5, <1>6, <1>7, <1>8 DEF SetInv

\* The list is empty: the output of the union is complete.
LEMMA UnionEndStep == SetInv /\ UnionEnd => SetInv'
<1> SUFFICES ASSUME SetInv, UnionEnd PROVE SetInv'
  OBVIOUS
<1>1. /\ phase \in {"first", "union"} /\ FirstOf(sl) = Null
      /\ union' = (IF phase = "union" THEN Append(union, last_item) ELSE union)
      /\ phase' = (IF regular = 0 THEN "done" ELSE "and")
      /\ inv' = (IF regular = 0 THEN inv ELSE Items(union'))
      /\ given' = given /\ regular' = regular /\ opened' = opened /\ rest' = rest /\ sl' = sl
      /\ last_item' = last_item /\ curr_set' = curr_set /\ curr_item' = curr_item
      /\ matches' = matches /\ inter' = inter
  BY DEF UnionEnd
<1>2. GivenOK /\ StateOK /\ ListOK /\ RegularOK /\ UnionOK /\ AndOK
  BY DEF SetInv
<1>3. Sound(sl, InList, rest) /\ Holds(sl, InList, rest) /\ sl \in SkipLists
  BY <1>1, <1>2 DEF ListOK, Sound
<1>4. InList \in SUBSET Oset /\ InList = {o \in (regular + 1)..Len(given) : rest[o] # {}}
  BY <1>1, <1>2, ListedInputs
<1>5. InList = {}
  BY <1>1, <1>3, <1>4, FirstFacts, OsetFacts
<1>6. Remaining = {}
  BY <1>4, <1>5 DEF Remaining
<1>7. union' \in Seq(Nat) /\ Sorted(union') /\ Items(union') = Inverted
  <2>1. union \in Seq(Nat) /\ Sorted(union) /\ last_item \in Nat
    BY <1>2, SetAssumption DEF StateOK
  <2>2. CASE phase = "first"
    <3>1. union = <<>> /\ Inverted = {} /\ Items(<<>>) = {} /\ union' = union
      BY <2>2, <1>1, <1>2, <1>6 DEF UnionOK, Items
    <3> QED BY <3>1, <2>1
  <2>3. CASE phase = "union"
    <3>1. /\ Items(union) \cup {last_item} \cup {} = Inverted
          /\ (\A x \in Items(union) : x < last_item) /\ union' = Append(union, last_item)
      BY <2>3, <1>1, <1>2, <1>6 DEF UnionOK
    <3> QED BY <3>1, <2>1, AppendItems
  <2> QED BY <2>2, <2>3, <1>1
<1>8. GivenOK'
  BY <1>1, <1>2 DEF GivenOK
<1>9. Inverted' = Inverted /\ Inverted \subseteq 1..MaxItem
  BY <1>1, <1>2, GivenFacts DEF Inverted
<1>10. StateOK'
  <2>1. phase' \in {"done", "and"} /\ inv' \subseteq 1..MaxItem
    BY <1>1, <1>2, <1>7, <1>9 DEF StateOK
  <2>2. opened = Len(given)
    BY <1>1, <1>2 DEF StateOK
  <2> QED BY <2>1, <2>2, <1>1, <1>2, <1>7 DEF StateOK
<1>11. ListOK'
  <2>1. phase' # "open" /\ (phase' # "done" => InList' = {})
    BY <1>1 DEF InList
  <2> QED BY <2>1, <1>1, <1>3, <1>5 DEF ListOK
<1>12. RegularOK'
  BY <1>1 DEF RegularOK
<1>13. UnionOK'
  BY <1>1, <1>7, <1>9 DEF UnionOK
<1>14. AndOK'
  <2>1. CASE regular = 0
    BY <2>1, <1>1 DEF AndOK
  <2>2. CASE regular # 0
    <3>1. /\ regular' # 0 /\ phase' = "and" /\ inter' = <<>> /\ matches' = 0 /\ curr_item' = 0
          /\ curr_set' = 1 /\ (\A i \in 1..regular' : rest'[i] = given'[i]) /\ inv' = Inverted'
      BY <2>2, <1>1, <1>2, <1>7, <1>9 DEF RegularOK
    <3> QED BY <3>1, <1>8, AndBegins
  <2> QED BY <2>1, <2>2
<1> QED BY <1>8, <1>10, <1>11, <1>12, <1>13, <1>14 DEF SetInv

\* Every regular set had its turn within the last ones, as many as there are.
LEMMA AgoFacts ==
    ASSUME regular \in Nat, curr_set \in 1..regular, NEW s \in 1..regular
    PROVE  Ago(s) \in 1..regular /\ (s = curr_set => Ago(s) = regular)
<1>1. s \in Nat /\ curr_set \in Nat /\ curr_set >= 1 /\ curr_set <= regular /\ s >= 1 /\ s <= regular
  OBVIOUS
<1>2. CASE s < curr_set
  <2>1. Ago(s) = curr_set - s
    BY <1>2 DEF Ago
  <2> QED BY <1>1, <1>2, <2>1
<1>3. CASE ~ (s < curr_set)
  <2>1. Ago(s) = curr_set - s + regular
    BY <1>3 DEF Ago
  <2> QED BY <1>1, <1>3, <2>1
<1> QED BY <1>2, <1>3

\* After another turn it is one more, except for the set whose turn it was.
LEMMA AgoTurn ==
    ASSUME regular \in Nat, curr_set \in 1..regular, NEW s \in 1..regular,
           regular' = regular, curr_set' = (curr_set % regular) + 1
    PROVE  curr_set' \in 1..regular /\ Ago(s)' = IF s = curr_set THEN 1 ELSE Ago(s) + 1
<1>1. s \in Nat /\ curr_set \in Nat /\ curr_set >= 1 /\ curr_set <= regular /\ s >= 1 /\ s <= regular
  OBVIOUS
<1>2. curr_set' = IF curr_set = regular THEN 1 ELSE curr_set + 1
  <2>1. CASE curr_set = regular
    <3>1. regular % regular = 0
      BY <1>1, <2>1
    <3> QED BY <2>1, <3>1
  <2>2. CASE curr_set # regular
    <3>1. curr_set % regular = curr_set
      BY <1>1, <2>2
    <3> QED BY <2>2, <3>1
  <2> QED BY <2>1, <2>2
<1>3. curr_set' \in 1..regular
  BY <1>1, <1>2
<1>4. Ago(s)' = IF s < curr_set' THEN curr_set' - s ELSE curr_set' - s + regular
  BY DEF Ago
<1>5. Ago(s) = IF s < curr_set THEN curr_set - s ELSE curr_set - s + regular
  BY DEF Ago
<1>6. Ago(s)' = IF s = curr_set THEN 1 ELSE Ago(s) + 1
  <2>1. CASE s < curr_set
    BY <2>1, <1>1, <1>2, <1>4, <1>5
  <2>2. CASE s = curr_set
    BY <2>2, <1>1, <1>2, <1>4, <1>5
  <2>3. CASE s > curr_set
    BY <2>3, <1>1, <1>2, <1>4, <1>5
  <2> QED BY <2>1, <2>2, <2>3, <1>1
<1> QED BY <1>3, <1>6

\* An empty list is sound whatever the ordered sets have.
LEMMA EmptySound ==
    ASSUME NEW s, NEW r, NEW w, Sound(s, {}, r)
    PROVE  Sound(s, {}, w)
<1>1. Holds(s, {}, r)
  BY DEF Sound
<1>2. Holds(s, {}, w)
  <2>1. {} \in SUBSET Oset /\ LevelsInUse(s) \subseteq LevelsInUse(s)
    OBVIOUS
  <2>2. \A x \in {} : w[x] = r[x] /\ s.skip_levels[x] = s.skip_levels[x]
    OBVIOUS
  <2>3. \A x \in {} \cup {ListHead} : \A l \in LevelsInUse(s) : s.skip[x][l] = s.skip[x][l]
    OBVIOUS
  <2> QED BY <1>1, <2>1, <2>2, <2>3, HoldsFrame
<1> QED BY <1>2 DEF Sound

\* An item that all regular sets have is output, unless an inverted set has it.
LEMMA MatchStep == SetInv /\ Match => SetInv'
<1> SUFFICES ASSUME SetInv, Match PROVE SetInv'
  OBVIOUS
<1>1. /\ phase = "and" /\ matches = regular /\ inv' = {i \in inv : i >= curr_item}
      /\ inter' = (IF inv' # {} /\ Least(inv') = curr_item THEN inter ELSE Append(inter, curr_item))
      /\ matches' = 0
      /\ given' = given /\ regular' = regular /\ phase' = phase /\ opened' = opened /\ rest' = rest
      /\ sl' = sl /\ last_item' = last_item /\ union' = union
      /\ curr_set' = curr_set /\ curr_item' = curr_item
  BY DEF Match, slistVars
<1>2. GivenOK /\ StateOK /\ ListOK /\ RegularOK /\ UnionOK /\ AndOK
  BY DEF SetInv
<1>3. /\ regular \in Nat /\ regular >= 1 /\ curr_set \in 1..regular
      /\ \A s \in 1..regular : rest[s] \subseteq given[s]
      /\ \A s \in 1..regular : \A i \in given[s] : i > curr_item => i \in rest[s]
      /\ \A s \in 1..regular : Ago(s) <= matches => curr_item \in given[s]
      /\ \A s \in 1..regular : Ago(s) <= matches \/ matches = 0 => \A i \in rest[s] : i > curr_item
      /\ inv \subseteq Inverted /\ \A i \in Inverted : i >= curr_item => i \in inv
      /\ Items(inter) = {x \in Common \ Inverted : x < curr_item \/ (x = curr_item /\ matches = 0)}
  BY <1>1, <1>2, GivenFacts DEF AndOK
<1>4. \A s \in 1..regular : Ago(s) <= matches /\ ~ (Ago(s) <= 0)
  <2> SUFFICES ASSUME NEW s \in 1..regular PROVE Ago(s) <= regular /\ ~ (Ago(s) <= 0)
    BY <1>1
  <2>1. Ago(s) \in 1..regular
    BY <1>3, AgoFacts
  <2> QED BY <2>1, <1>3
<1>5. /\ \A s \in 1..regular : curr_item \in given[s]
      /\ \A s \in 1..regular : \A i \in rest[s] : i > curr_item
  BY <1>3, <1>4
<1>6. curr_item \in Nat /\ MaxItem \in Nat /\ inv \subseteq 1..MaxItem /\ inter \in Seq(Nat) /\ Sorted(inter)
  BY <1>2, SetAssumption DEF StateOK
<1>7. curr_item \in Common
  <2>1. 1 \in 1..regular /\ 1 \in 1..Len(given)
    <3>1. regular <= Len(given) /\ Len(given) \in Nat
      BY <1>2, GivenFacts
    <3> QED BY <3>1, <1>3
  <2>2. given[1] \subseteq 1..MaxItem
    BY <2>1, <1>2, GivenFacts
  <2> QED BY <2>1, <2>2, <1>5 DEF Common
<1>8. inv' # {} /\ Least(inv') = curr_item <=> curr_item \in Inverted
  <2>1. inv' \subseteq Nat /\ \A i \in inv' : i \in inv /\ i >= curr_item
    <3>1. \A i \in inv' : i \in inv /\ i >= curr_item
      BY <1>1
    <3>2. \A i \in inv : i \in Nat
      BY <1>6
    <3> QED BY <3>1, <3>2
  <2>2. inv' # {} => Least(inv') \in inv' /\ \A j \in inv' : Least(inv') <= j
    BY <2>1, LeastFacts
  <2>3. ASSUME inv' # {}, Least(inv') = curr_item PROVE curr_item \in Inverted
    BY <2>1, <2>2, <2>3, <1>3
  <2>4. ASSUME curr_item \in Inverted PROVE inv' # {} /\ Least(inv') = curr_item
    <3>1. curr_item \in inv'
      BY <2>4, <1>1, <1>3, <1>6
    <3>2. Least(inv') <= curr_item /\ Least(inv') >= curr_item /\ Least(inv') \in Nat
      BY <3>1, <2>1, <2>2
    <3> QED BY <3>1, <3>2, <1>6
  <2> QED BY <2>3, <2>4
<1>9. Items(inter) = {x \in Common \ Inverted : x < curr_item}
  BY <1>1, <1>3
<1>10. /\ inter' \in Seq(Nat) /\ Sorted(inter')
       /\ Items(inter') = {x \in Common \ Inverted : x < curr_item \/ x = curr_item}
  <2>1. CASE curr_item \in Inverted
    <3>1. inter' = inter
      BY <2>1, <1>1, <1>8
    <3> QED BY <3>1, <2>1, <1>6, <1>9
  <2>2. CASE curr_item \notin Inverted
    <3>1. inter' = Append(inter, curr_item)
      BY <2>2, <1>1, <1>8
    <3>2. \A x \in Items(inter) : x < curr_item
      BY <1>9
    <3>3. inter' \in Seq(Nat) /\ Items(inter') = Items(inter) \cup {curr_item} /\ Sorted(inter')
      BY <3>1, <3>2, <1>6, AppendItems
    <3> QED BY <3>3, <2>2, <1>7, <1>9
  <2> QED BY <2>1, <2>2
<1>11. GivenOK'
  BY <1>1, <1>2 DEF GivenOK
<1>12. Inverted' = Inverted /\ Common' = Common /\ \A s \in 1..regular : Ago(s)' = Ago(s)
  BY <1>1 DEF Inverted, Common, Ago
<1>13. StateOK'
  <2>1. 0 \in 0..regular
    BY <1>3
  <2>2. inv' \subseteq 1..MaxItem
    BY <1>1, <1>6
  <2> QED BY <2>1, <2>2, <1>1, <1>2, <1>10 DEF StateOK
<1>14. ListOK'
  <2>1. InList' = {} /\ InList = {}
    BY <1>1 DEF InList
  <2> QED BY <2>1, <1>1, <1>2 DEF ListOK
<1>15. RegularOK' /\ UnionOK'
  BY <1>1 DEF RegularOK, UnionOK
<1>16. AndOK'
  <2>1. \A s \in 1..regular : ~ (Ago(s)' <= 0)
    BY <1>4, <1>12
  <2>2. inv' \subseteq Inverted /\ \A i \in Inverted : i >= curr_item => i \in inv'
    BY <1>1, <1>3
  <2>3. Items(inter') = {x \in Common' \ Inverted' : x < curr_item' \/ (x = curr_item' /\ matches' = 0)}
    BY <1>1, <1>10, <1>12
  <2>4. /\ regular' >= 1 /\ curr_set' \in 1..regular'
        /\ \A s \in 1..regular' : rest'[s] \subseteq given'[s]
        /\ \A s \in 1..regular' : \A i \in given'[s] : i > curr_item' => i \in rest'[s]
        /\ \A s \in 1..regular' : Ago(s)' <= matches' => curr_item' \in given'[s]
        /\ \A s \in 1..regular' : Ago(s)' <= matches' \/ matches' = 0 => \A i \in rest'[s] : i > curr_item'
        /\ ~ (matches' > 0)
    BY <2>1, <1>1, <1>3, <1>5
  <2> QED BY <2>2, <2>3, <2>4, <1>1, <1>12 DEF AndOK
<1> QED BY <1>11, <1>13, <1>14, <1>15, <1>16 DEF SetInv

\* What the turn of a regular set decides: an item that all regular sets have and that
\* is smaller than all the set has left, from curr_item on, was decided before.
LEMMA Decided ==
    ASSUME GivenOK, StateOK, AndOK, phase = "and", matches < regular, NEW x \in Common,
           \A i \in rest[curr_set] : i >= curr_item => i > x
    PROVE  x < curr_item \/ (x = curr_item /\ matches = 0)
<1>1. /\ regular \in Nat /\ curr_set \in 1..regular /\ matches \in Nat /\ curr_item \in Nat /\ x \in Nat
      /\ \A i \in given[curr_set] : i > curr_item => i \in rest[curr_set]
      /\ matches > 0 /\ curr_item \in given[curr_set] => curr_item \in rest[curr_set] \/ Ago(curr_set) <= matches
  BY GivenFacts, SetAssumption DEF AndOK, StateOK, Common
<1>2. x \in given[curr_set]
  BY <1>1 DEF Common
<1>3. Ago(curr_set) = regular
  BY <1>1, AgoFacts
<1>4. ~ (x > curr_item)
  <2> SUFFICES ASSUME x > curr_item PROVE FALSE
    OBVIOUS
  <2>1. x \in rest[curr_set] /\ x >= curr_item
    BY <1>1, <1>2
  <2> QED BY <2>1, <1>1
<1>5. ~ (x = curr_item /\ matches > 0)
  <2> SUFFICES ASSUME x = curr_item, matches > 0 PROVE FALSE
    OBVIOUS
  <2>1. x \in rest[curr_set] /\ x >= curr_item
    BY <1>1, <1>2, <1>3
  <2> QED BY <2>1, <1>1
<1> QED BY <1>1, <1>4, <1>5

\* The turn of a regular set.
LEMMA AdvanceStep == SetInv /\ Advance => SetInv'
<1> SUFFICES ASSUME SetInv, Advance PROVE SetInv'
  OBVIOUS
<1> DEFINE left == {i \in rest[curr_set] : i >= curr_item}
           m == Least(left)
<1>1. /\ phase = "and" /\ matches < regular
      /\ given' = given /\ regular' = regular /\ opened' = opened
      /\ sl' = sl /\ last_item' = last_item /\ union' = union /\ inv' = inv /\ inter' = inter
  BY DEF Advance, slistVars
<1>2. \/ /\ left = {} /\ phase' = "done" /\ rest' = [rest EXCEPT ![curr_set] = {}]
         /\ curr_set' = curr_set /\ curr_item' = curr_item /\ matches' = matches
      \/ /\ left # {} /\ rest' = [rest EXCEPT ![curr_set] = left \ {m}] /\ curr_item' = m
         /\ matches' = (IF m > curr_item THEN 1 ELSE matches + 1)
         /\ curr_set' = (curr_set % regular) + 1 /\ phase' = phase
  BY DEF Advance
<1>3. GivenOK /\ StateOK /\ ListOK /\ RegularOK /\ UnionOK /\ AndOK
  BY DEF SetInv
<1>4. /\ regular >= 1 /\ curr_set \in 1..regular
      /\ \A s \in 1..regular : rest[s] \subseteq given[s]
      /\ \A s \in 1..regular : \A i \in given[s] : i > curr_item => i \in rest[s]
      /\ \A s \in 1..regular : Ago(s) <= matches => curr_item \in given[s]
      /\ \A s \in 1..regular : Ago(s) <= matches \/ matches = 0 => \A i \in rest[s] : i > curr_item
      /\ \A s \in 1..regular : matches > 0 /\ curr_item \in given[s] =>
            curr_item \in rest[s] \/ Ago(s) <= matches
      /\ inv \subseteq Inverted /\ \A i \in Inverted : i >= curr_item => i \in inv
      /\ Items(inter) = {x \in Common \ Inverted : x < curr_item \/ (x = curr_item /\ matches = 0)}
  BY <1>1, <1>3 DEF AndOK
<1>5. /\ regular \in Nat /\ matches \in Nat /\ curr_item \in Nat /\ MaxItem \in Nat /\ curr_set \in Oset
      /\ curr_item \in 0..MaxItem
      /\ 1..regular \subseteq Oset /\ rest \in [Oset -> SUBSET (1..MaxItem)]
  BY <1>3, <1>4, GivenFacts DEF StateOK
<1>6. Common' = Common /\ Inverted' = Inverted
  BY <1>1 DEF Common, Inverted
<1>7. GivenOK'
  BY <1>1, <1>3 DEF GivenOK
<1>8. left \subseteq 1..MaxItem /\ left \subseteq Nat
  <2>1. rest[curr_set] \subseteq 1..MaxItem
    BY <1>5
  <2>2. 1..MaxItem \subseteq Nat
    BY <1>5
  <2> QED BY <2>1, <2>2
<1>9. sl \in SkipLists /\ Sound(sl, {}, rest) /\ Sound(sl, {}, rest')
  <2>1. InList = {}
    BY <1>1 DEF InList
  <2>2. sl \in SkipLists /\ Sound(sl, {}, rest)
    BY <2>1, <1>1, <1>3 DEF ListOK
  <2> QED BY <2>2, EmptySound
<1>10. ListOK'
  <2>1. phase' \in {"and", "done"} /\ (phase' = "and" => InList' = {})
    BY <1>1, <1>2 DEF InList
  <2> QED BY <2>1, <1>1, <1>9 DEF ListOK
<1>11. RegularOK' /\ UnionOK'
  <2>1. phase' \in {"and", "done"} /\ regular' # 0
    BY <1>1, <1>2, <1>4, <1>5
  <2> QED BY <2>1 DEF RegularOK, UnionOK
<1>12. \A x \in Common : x \in Nat
  BY <1>5 DEF Common
<1>13. CASE left = {}
  <2>1. /\ phase' = "done" /\ rest' = [rest EXCEPT ![curr_set] = {}]
        /\ curr_set' = curr_set /\ curr_item' = curr_item /\ matches' = matches
    BY <1>2, <1>13
  <2>2. rest' \in [Oset -> SUBSET (1..MaxItem)]
    BY <2>1, <1>5
  <2>3. StateOK'
    BY <2>1, <2>2, <1>1, <1>3 DEF StateOK
  <2>4. ASSUME NEW x \in Common PROVE x < curr_item \/ (x = curr_item /\ matches = 0)
    BY <1>1, <1>3, <1>13, Decided
  <2>5. Items(inter) = Common \ Inverted
    BY <2>4, <1>4
  <2>6. AndOK'
    BY <2>1, <2>5, <1>1, <1>6 DEF AndOK
  <2> QED BY <2>3, <2>6, <1>7, <1>10, <1>11 DEF SetInv
<1>14. CASE left # {}
  <2>1. /\ rest' = [rest EXCEPT ![curr_set] = left \ {m}] /\ curr_item' = m
        /\ matches' = (IF m > curr_item THEN 1 ELSE matches + 1)
        /\ curr_set' = (curr_set % regular) + 1 /\ phase' = "and"
    BY <1>1, <1>2, <1>14
  <2>2. m \in left /\ \A j \in left : m <= j
    BY <1>8, <1>14, LeastFacts
  <2>3. m \in Nat /\ m \in 0..MaxItem /\ m >= curr_item /\ m \in rest[curr_set]
    BY <2>2, <1>5, <1>8
  <2>4. /\ rest' \in [Oset -> SUBSET (1..MaxItem)]
        /\ \A s \in 1..regular : rest'[s] = IF s = curr_set THEN left \ {m} ELSE rest[s]
    BY <2>1, <1>5, <1>8
  <2>5. curr_set' \in 1..regular /\ \A s \in 1..regular : Ago(s)' = IF s = curr_set THEN 1 ELSE Ago(s) + 1
    BY <2>1, <1>1, <1>4, <1>5, AgoTurn
  <2>6. \A s \in 1..regular : Ago(s) \in Nat /\ Ago(s) >= 1
    <3> SUFFICES ASSUME NEW s \in 1..regular PROVE Ago(s) \in Nat /\ Ago(s) >= 1
      OBVIOUS
    <3>1. Ago(s) \in 1..regular
      BY <1>4, <1>5, AgoFacts
    <3> QED BY <3>1, <1>5
  <2>7. matches' \in 1..regular /\ matches' \in 0..regular /\ matches' > 0
    BY <2>1, <1>1, <1>4, <1>5
  <2>8. StateOK'
    BY <2>1, <2>3, <2>4, <2>7, <1>1, <1>3 DEF StateOK
  <2>9. \A s \in 1..regular : rest'[s] \subseteq given[s]
    BY <2>4, <1>4
  <2>10. m = curr_item => matches > 0
    <3> SUFFICES ASSUME m = curr_item, matches = 0 PROVE FALSE
      BY <1>5
    <3>1. m > curr_item
      BY <2>3, <1>4
    <3> QED BY <3>1, <2>3
  <2> HIDE DEF m
  <2>11. ASSUME NEW s \in 1..regular, NEW i \in given[s], i > m PROVE i \in rest'[s]
    <3>1. i \in Nat
      <4>1. s \in 1..Len(given)
        BY <1>3, <1>5, GivenFacts
      <4>2. given[s] \subseteq 1..MaxItem
        BY <4>1, <1>3, GivenFacts
      <4> QED BY <4>2, <1>5
    <3>2. i > curr_item /\ i >= curr_item /\ i # m
      BY <3>1, <2>3, <2>11, <1>5
    <3>3. i \in rest[s]
      BY <3>2, <1>4
    <3> QED BY <3>2, <3>3, <2>4
  <2>12. ASSUME NEW s \in 1..regular, Ago(s)' <= matches'
         PROVE  m \in given[s] /\ \A i \in rest'[s] : i > m
    <3>1. CASE s = curr_set
      <4>1. m \in given[s]
        BY <3>1, <2>3, <1>4
      <4>2. \A i \in left \ {m} : i > m
        BY <2>2, <2>3, <1>8
      <4> QED BY <4>1, <4>2, <3>1, <2>4
    <3>2. CASE s # curr_set
      <4>1. Ago(s)' = Ago(s) + 1 /\ rest'[s] = rest[s] /\ Ago(s) \in Nat /\ Ago(s) >= 1
        BY <3>2, <2>4, <2>5, <2>6
      <4>2. m = curr_item /\ Ago(s) <= matches
        BY <4>1, <2>1, <2>3, <2>12, <1>5
      <4> QED BY <4>1, <4>2, <1>4
    <3> QED BY <3>1, <3>2
  <2>13. ASSUME NEW s \in 1..regular, m \in given[s] PROVE m \in rest'[s] \/ Ago(s)' <= matches'
    <3>1. CASE s = curr_set
      <4>1. Ago(s)' = 1
        BY <3>1, <2>5
      <4> QED BY <4>1, <2>7, <1>5
    <3>2. CASE s # curr_set /\ m > curr_item
      BY <3>2, <2>4, <2>13, <1>4
    <3>3. CASE s # curr_set /\ m = curr_item
      <4>1. Ago(s)' = Ago(s) + 1 /\ rest'[s] = rest[s] /\ Ago(s) \in Nat /\ matches' = matches + 1
        BY <3>3, <2>1, <2>3, <2>4, <2>5, <2>6
      <4>2. curr_item \in rest[s] \/ Ago(s) <= matches
        BY <3>3, <2>10, <2>13, <1>4
      <4> QED BY <4>1, <4>2, <3>3, <1>5
    <3> QED BY <3>1, <3>2, <3>3, <2>3, <1>5
  <2>14. \A i \in Inverted : i >= m => i \in inv
    <3>1. \A i \in Inverted : i \in Nat
      BY <1>3, <1>5, GivenFacts
    <3> QED BY <3>1, <2>3, <1>4, <1>5
  <2>15. ASSUME NEW x \in Common PROVE x < m <=> x < curr_item \/ (x = curr_item /\ matches = 0)
    <3>1. x \in Nat
      BY <1>12
    <3>2. ASSUME x < m PROVE x < curr_item \/ (x = curr_item /\ matches = 0)
      <4>1. ASSUME NEW i \in rest[curr_set], i >= curr_item PROVE i > x
        <5>1. i \in left /\ m <= i /\ i \in Nat
          BY <4>1, <2>2, <1>8
        <5> QED BY <5>1, <3>1, <3>2, <2>3
      <4> QED BY <4>1, <1>1, <1>3, Decided
    <3>3. ASSUME x < curr_item \/ (x = curr_item /\ matches = 0) PROVE x < m
      BY <3>1, <3>3, <2>3, <2>10, <1>5
    <3> QED BY <3>2, <3>3
  <2>16. Items(inter') = {x \in Common' \ Inverted' : x < curr_item' \/ (x = curr_item' /\ matches' = 0)}
    <3>1. matches' # 0
      BY <2>7, <1>5
    <3>2. Items(inter) = {x \in Common \ Inverted : x < m}
      BY <2>15, <1>4
    <3> QED BY <3>1, <3>2, <2>1, <1>1, <1>6
  <2>17. AndOK'
    <3>1. /\ \A s \in 1..regular' : rest'[s] \subseteq given'[s]
          /\ \A s \in 1..regular' : \A i \in given'[s] : i > curr_item' => i \in rest'[s]
          /\ \A s \in 1..regular' : Ago(s)' <= matches' => curr_item' \in given'[s]
      BY <2>1, <2>9, <2>11, <2>12, <1>1
    <3>2. \A s \in 1..regular' : Ago(s)' <= matches' \/ matches' = 0 => \A i \in rest'[s] : i > curr_item'
      BY <2>1, <2>7, <2>12, <1>1
    <3>3. \A s \in 1..regular' : matches' > 0 /\ curr_item' \in given'[s] =>
              curr_item' \in rest'[s] \/ Ago(s)' <= matches'
      BY <2>1, <2>13, <1>1
    <3>4. /\ regular' >= 1 /\ curr_set' \in 1..regular'
          /\ inv' \subseteq Inverted' /\ \A i \in Inverted' : i >= curr_item' => i \in inv'
      BY <2>1, <2>5, <2>14, <1>1, <1>4, <1>6
    <3> QED BY <3>1, <3>2, <3>3, <3>4, <2>1, <2>16 DEF AndOK
  <2> QED BY <2>8, <2>17, <1>7, <1>10, <1>11 DEF SetInv
<1> QED BY <1>13, <1>14

\* The set operations keep the invariant: the skip list holds the ordered sets that have
\* items, and what is output and what is left make up what was given.
THEOREM SetInvariant == SetSpec => []SetInv
<1>1. SetInit => SetInv
  BY SetInvInit
<1>2. SetInv /\ [SetNext]_setVars => SetInv'
  <2> SUFFICES ASSUME SetInv, [SetNext]_setVars PROVE SetInv'
    OBVIOUS
  <2>1. CASE UNCHANGED setVars
    <3>1. /\ given' = given /\ regular' = regular /\ phase' = phase /\ opened' = opened /\ rest' = rest
          /\ sl' = sl /\ last_item' = last_item /\ union' = union /\ inv' = inv /\ curr_set' = curr_set
          /\ curr_item' = curr_item /\ matches' = matches /\ inter' = inter
      BY <2>1 DEF setVars, slistVars, andVars
    <3>2. /\ Inverted' = Inverted /\ Remaining' = Remaining /\ Common' = Common /\ InList' = InList
          /\ \A s \in 1..regular : Ago(s)' = Ago(s)
      BY <3>1 DEF Inverted, Remaining, Common, InList, Ago
    <3>3. GivenOK' /\ StateOK' /\ RegularOK'
      BY <3>1 DEF SetInv, GivenOK, StateOK, RegularOK
    <3>4. ListOK'
      BY <3>1, <3>2 DEF SetInv, ListOK
    <3>5. UnionOK'
      BY <3>1, <3>2 DEF SetInv, UnionOK
    <3>6. AndOK'
      BY <3>1, <3>2 DEF SetInv, AndOK
    <3> QED BY <3>3, <3>4, <3>5, <3>6 DEF SetInv
  <2>2. CASE OpenSet
    BY <2>2, OpenSetStep
  <2>3. CASE Opened
    BY <2>3, OpenedStep
  <2>4. CASE UnionFirst
    BY <2>4, UnionFirstStep
  <2>5. CASE UnionNext
    BY <2>5, UnionNextStep
  <2>6. CASE UnionEnd
    BY <2>6, UnionEndStep
  <2>7. CASE Match
    BY <2>7, MatchStep
  <2>8. CASE Advance
    BY <2>8, AdvanceStep
  <2> QED BY <2>1, <2>2, <2>3, <2>4, <2>5, <2>6, <2>7, <2>8 DEF SetNext
<1> QED BY <1>1, <1>2, PTL DEF SetSpec

\* Type correctness of the set operations.
THEOREM SetTypes == SetSpec => []SetTypeOK
<1>1. SetInv => SetTypeOK
  BY DEF SetInv, StateOK, ListOK, SetTypeOK
<1> QED BY <1>1, SetInvariant, PTL

\* After every operation of ordered_set.c on the skip list it holds exactly the ordered
\* sets that have items, sorted by their next items, and each level in use those that
\* have it, whatever the number of ordered sets and of their items.
THEOREM SkipListHolds == SetSpec => []SkipListSound
<1>1. SetInv => SkipListSound
  BY DEF SetInv, ListOK, Sound, SkipListSound
<1> QED BY <1>1, SetInvariant, PTL

\* The outputs of or_results and and_results are ascending and hold exactly the items
\* they should, for all inputs.
THEOREM ResultsExact == SetSpec => []ResultExact
<1>1. SetInv => ResultExact
  <2> SUFFICES ASSUME SetInv PROVE ResultExact
    OBVIOUS
  <2>1. GivenOK /\ StateOK /\ UnionOK /\ AndOK
    BY DEF SetInv
  <2>2. regular \in Nat /\ Len(given) \in Nat
    BY <2>1, GivenFacts
  <2>3. ASSUME phase = "done", regular = 0
        PROVE  Items(union) = UNION {given[i] : i \in Inputs}
    <3>1. (regular + 1)..Len(given) = Inputs
      BY <2>3 DEF Inputs
    <3>2. Items(union) = Inverted
      BY <2>1, <2>3 DEF UnionOK
    <3> QED BY <3>1, <3>2 DEF Inverted
  <2>4. ASSUME phase = "done", regular # 0
        PROVE  Items(inter) = {x \in 1..MaxItem :
                    /\ \A i \in 1..regular : x \in given[i]
                    /\ \A i \in (regular + 1)..Len(given) : x \notin given[i]}
    <3>1. regular > 0
      BY <2>2, <2>4
    <3>2. Items(inter) = Common \ Inverted
      BY <3>1, <2>1, <2>4 DEF AndOK
    <3> QED BY <3>2 DEF Common, Inverted
  <2>5. Sorted(union) /\ Sorted(inter)
    BY <2>1 DEF StateOK
  <2> QED BY <2>3, <2>4, <2>5 DEF ResultExact
<1> QED BY <1>1, SetInvariant, PTL
=============================================================================
