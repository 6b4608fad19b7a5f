------------------------------- MODULE Prune -------------------------------
(***************************************************************************)
(* The last step of a query: of a tree that is an OR of AND clauses, what  *)
(* cannot match is taken out, one clause after the other (prune).          *)
(*                                                                         *)
(* An atom is the values a field of a flow may have: a port, an address,   *)
(* or a network; any two of a field are disjoint or nested.                *)
(***************************************************************************)
EXTENDS Naturals, Sequences

CONSTANTS
    Field,     \* the fields of a flow
    Asked      \* of each field, the sets of values that can be asked for

ASSUME PruneAssumption ==
    \A field \in Field : \A a, b \in Asked[field] :
        a \cap b = {} \/ a \subseteq b \/ b \subseteq a

Atoms == UNION {[type : {"ATOM"}, field : {field}, vals : Asked[field], inverted : BOOLEAN]
                    : field \in Field}
IsAtom(t) == t.type = "ATOM"

VARIABLES
    stage,    \* what is done with the query
    tree,     \* what it has become
    clause    \* the AND clause whose turn it is to be pruned

pruneVars == <<stage, tree, clause>>

-----------------------------------------------------------------------------
\* Mutant of PrunePair: of two inverted atoms the wider one goes.
PrunePairWide(left, list, i, j) ==
    LET a == list[i]
        b == list[j]
    IN  IF ~ ({i, j} \subseteq left.kept) \/ left.empty \/ a.field # b.field THEN left
        ELSE IF b.vals \subseteq a.vals THEN [left EXCEPT !.kept = @ \ {i}]
        ELSE IF a.vals \subseteq b.vals THEN [left EXCEPT !.kept = @ \ {j}]
        ELSE left

\* What two atoms of an AND clause do to it: one of them goes, no flow can match, or
\* nothing.  Ranges that overlap without being nested, for which there are further
\* cases, do not exist.
PrunePair(left, list, i, j) ==
    LET a == list[i]
        b == list[j]
        drop(k) == [left EXCEPT !.kept = @ \ {k}]
        nothing == [left EXCEPT !.empty = TRUE]
        out == IF a.inverted THEN a ELSE b
        in == IF a.inverted THEN b ELSE a
    IN  IF ~ ({i, j} \subseteq left.kept) \/ left.empty \/ a.field # b.field THEN left
        ELSE IF a.inverted # b.inverted
          THEN IF in.vals \subseteq out.vals THEN nothing ELSE left
        ELSE IF b.vals \subseteq a.vals THEN drop(IF a.inverted THEN j ELSE i)
        ELSE IF a.vals \subseteq b.vals THEN drop(IF a.inverted THEN i ELSE j)
        ELSE IF a.inverted THEN left ELSE nothing

\* What is left of a list of atoms after the first k pairs, the first atom with all
\* others first.
AfterPairs[k \in Nat] ==
    [list \in Seq(Atoms) |->
        LET n == Len(list)
            i == ((k - 1) \div n) + 1
            j == ((k - 1) % n) + 1
        IN  IF k = 0 THEN [kept |-> 1..n, empty |-> FALSE]
            ELSE IF i < j THEN PrunePair(AfterPairs[k - 1][list], list, i, j)
            ELSE AfterPairs[k - 1][list]]

PruneAnd(list) == AfterPairs[Len(list) * Len(list)][list]

\* The first k atoms without those that are not kept.
KeptOf[k \in Nat] ==
    [x \in [list : Seq(Atoms), kept : SUBSET Nat] |->
        IF k = 0 THEN <<>>
        ELSE IF k \in x.kept THEN Append(KeptOf[k - 1][x], x.list[k])
        ELSE KeptOf[k - 1][x]]

\* Mutant of AllInverted: the check is left out.
AllInvertedNever(subs) == FALSE

\* There is no positive assertion.
AllInverted(subs) == \A k \in DOMAIN subs : subs[k].inverted

\* The list without its item at i.
Without(s, i) == [k \in 1..(Len(s) - 1) |-> s[IF k < i THEN k ELSE k + 1]]

\* One AND clause: it goes, or it has less atoms.  One without a regular atom makes
\* the query be refused; a clause of the wrong class has not the method.
PruneClause ==
    /\ stage = "prune" /\ clause <= Len(tree.subs)
    /\ LET c == tree.subs[clause]
           left == PruneAnd(c.subs)
           subs == KeptOf[Len(c.subs)][[list |-> c.subs, kept |-> left.kept]]
       IN  IF c.cls # "AND"
             THEN stage' = "crashed" /\ UNCHANGED <<tree, clause>>
           ELSE IF left.empty
             THEN tree' = [tree EXCEPT !.subs = Without(@, clause)] /\ UNCHANGED <<stage, clause>>
           ELSE IF AllInverted(subs)
             THEN stage' = "refused" /\ UNCHANGED <<tree, clause>>
           ELSE /\ tree' = [tree EXCEPT !.subs[clause].subs = subs]
                /\ clause' = clause + 1 /\ UNCHANGED stage

Pruned ==
    /\ stage = "prune" /\ clause > Len(tree.subs)
    /\ stage' = IF tree.subs = <<>> THEN "empty" ELSE "accepted"
    /\ UNCHANGED <<tree, clause>>

PruneNext == PruneClause \/ Pruned

\* What normalisation hands over: an OR of ANDs of atoms.  The class of an AND is
\* another where De Morgan's law made it of an OR.
Clauses == [type : {"AND"}, cls : {"AND", "OR"}, subs : Seq(Atoms)]
Trees == [type : {"OR"}, cls : {"OR"}, subs : Seq(Clauses)]

PruneInit == stage = "prune" /\ clause = 1 /\ tree \in Trees

\* Pruning by itself, from any tree that can be handed over.
PruneSpec == PruneInit /\ [][PruneNext]_pruneVars

-----------------------------------------------------------------------------
\* The flow is one that the atom, or the OR of ANDs, asks for.
AtomMatches(a, f) == IF a.inverted THEN f[a.field] \notin a.vals ELSE f[a.field] \in a.vals
OrMatches(t, f) ==
    \E i \in DOMAIN t.subs : \A k \in DOMAIN t.subs[i].subs : AtomMatches(t.subs[i].subs[k], f)

\* A query that is accepted has the form the search process wants: an OR of ANDs of
\* atoms, at least one of them not inverted in each ("We need to make certain that
\* there is at least one positive assertion in each AND clause", node.py:439-440).
AcceptedFits ==
    stage = "accepted" =>
        /\ tree.subs # <<>>
        /\ \A i \in DOMAIN tree.subs :
              LET subs == tree.subs[i].subs IN
              /\ \A k \in DOMAIN subs : IsAtom(subs[k])
              /\ \E k \in DOMAIN subs : ~ subs[k].inverted
=============================================================================
