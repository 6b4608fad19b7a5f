------------------------------- MODULE Query -------------------------------
(***************************************************************************)
(* The query of a search: its tokens become a tree (build_tree), the tree  *)
(* an OR of ANDs (normalize), and what cannot match is taken out (prune).  *)
(* The search head does it to check a query, every capture node again.     *)
(*                                                                         *)
(* A word of the query is an atom or a group; tokenize puts parentheses    *)
(* around all but a port with its direction.  An atom is the values a      *)
(* field of a flow may have: a port, an address, or a network; any two of  *)
(* a field are disjoint or nested.                                         *)
(***************************************************************************)
EXTENDS Prune

LOCAL INSTANCE SequencesExt

CONSTANTS MaxTokens    \* bound on the words, operators and parentheses

ASSUME QueryAssumption == MaxTokens \in Nat

Values == [srcip |-> 1..3, dstip |-> 1..2, srcport |-> 1..2, dstport |-> 1..2]
FlowKey == [srcip : Values.srcip, dstip : Values.dstip,
            srcport : Values.srcport, dstport : Values.dstport]

\* The trees.  type is the attribute that collapse_nots changes, cls the class.
None == [type |-> "none"]
Atom(field, vals) == [type |-> "ATOM", field |-> field, vals |-> vals, inverted |-> FALSE]
Logic(type, subs) == [type |-> type, cls |-> type, subs |-> subs]
With(t, sub) == [t EXCEPT !.subs = Append(@, sub)]

Ports(p) == Logic("OR", <<Atom("srcport", {p}), Atom("dstport", {p})>>)

\* "src port 1", "src port 2", "src a", "src n" for a network n with a in it,
\* "port 1" and "a:1".
QueryWord ==
    {Atom("srcport", {1}), Atom("srcport", {2}), Atom("srcip", {1}), Atom("srcip", {1, 2}),
     Ports(1),
     Logic("OR", <<Logic("AND", <<Atom("srcip", {1}), Ports(1)>>),
                   Logic("AND", <<Atom("dstip", {1}), Ports(1)>>)>>)}

\* The fields of a flow, and what these words ask for.
QueryField == {"srcip", "dstip", "srcport", "dstport"}
QueryAsked == [field \in QueryField |-> {{1}, {2}, {1, 2}}]

VARIABLES
    tokens,   \* how many were read
    atoms,    \* how many atoms their words have (history)
    levels,   \* of each open parenthesis: left, and the path from the root to subtree
    asked     \* the tree of the query

queryVars == <<stage, tokens, atoms, levels, asked, tree, clause>>

NewLevel == [left |-> None, path |-> <<>>]

QueryInit ==
    /\ stage = "parse" /\ tokens = 0 /\ atoms = 0 /\ levels = <<NewLevel>>
    /\ asked = None /\ tree = None /\ clause = 1

-----------------------------------------------------------------------------
Top == levels[Len(levels)]
SetTop(level) == levels' = [levels EXCEPT ![Len(levels)] = level]

Reading ==
    /\ stage = "parse" /\ tokens < MaxTokens
    /\ tokens' = tokens + 1
    /\ UNCHANGED <<asked, tree, clause>>

\* What an AND or OR does to its level, which has something in left.  After an AND
\* or a NOT the new node gets the last one as its child, and so becomes the root:
\* what was above the last one is left behind.
Operator(level, op) ==
    LET path == level.path IN
    [left |-> None,
     path |-> IF path = <<>> THEN <<Logic(op, <<level.left>>)>>
              ELSE IF Last(path).type = "OR" THEN Append(path, Logic(op, <<level.left>>))
              ELSE <<Logic(op, <<With(Last(path), level.left)>>)>>]

\* The root at the end of a level; None if there was nothing.
Root(level) ==
    IF level.path = <<>> THEN level.left
    ELSE FoldRight(With, Front(level.path),
                   IF level.left = None THEN Last(level.path) ELSE With(Last(level.path), level.left))

RECURSIVE Leaves(_)
\* The number of atoms of a tree.
Leaves(t) == IF IsAtom(t) THEN 1 ELSE FoldSeq(LAMBDA s, sum : Leaves(s) + sum, 0, t.subs)

\* tokenize puts no parentheses around it.
Bare(w) == IsAtom(w) /\ w.field \in {"srcport", "dstport"}

\* An atom after something stands for an AND, but does not come back after it:
\* an atom has no subtrees, which makes delayed false.
ReadWord(w) ==
    /\ Reading /\ (Top.left = None \/ Bare(w))
    /\ atoms' = atoms + Leaves(w)
    /\ SetTop(IF Top.left = None THEN [Top EXCEPT !.left = w] ELSE Operator(Top, "AND"))
    /\ UNCHANGED stage

ReadOperator(op) ==
    /\ Reading /\ Top.left # None
    /\ SetTop(Operator(Top, op))
    /\ UNCHANGED <<stage, atoms>>

ReadNot ==
    /\ Reading /\ Top.left = None
    /\ SetTop([Top EXCEPT !.path = Append(@, Logic("NOT", <<>>))])
    /\ UNCHANGED <<stage, atoms>>

OpenParen ==
    /\ Reading
    /\ levels' = Append(levels, NewLevel)
    /\ UNCHANGED <<stage, atoms>>

CloseParen ==
    /\ Reading /\ Len(levels) > 1
    /\ Root(Top) # None /\ levels[Len(levels) - 1].left = None
    /\ levels' = [Front(levels) EXCEPT ![Len(levels) - 1].left = Root(Top)]
    /\ UNCHANGED <<stage, atoms>>

\* An operator without anything before it, a NOT or a group after something, an
\* empty group, or parentheses that do not match: there is always a wrong token.
BadToken ==
    /\ stage = "parse" /\ tokens < MaxTokens
    /\ stage' = "refused" /\ tokens' = 0 /\ atoms' = 0 /\ levels' = <<>>
    /\ UNCHANGED <<asked, tree, clause>>

EndOfText ==
    /\ stage = "parse" /\ tokens > 0 /\ Len(levels) = 1
    /\ stage' = "parsed" /\ asked' = Root(Top) /\ levels' = <<>> /\ tokens' = 0
    /\ UNCHANGED <<atoms, tree, clause>>

\* A query of white space only: there is no tree, which parse_search lets pass, and
\* search_node calls normalize of None.
NoTokens ==
    /\ stage = "parse" /\ tokens = 0
    /\ stage' = "crashed" /\ levels' = <<>>
    /\ UNCHANGED <<tokens, atoms, asked, tree, clause>>

-----------------------------------------------------------------------------
Flip(type, invert) == IF ~ invert THEN type ELSE IF type = "AND" THEN "OR" ELSE "AND"

RECURSIVE Nots(_, _)
\* A tree without its NOTs.  What a NOT was applied to comes after its siblings.
Nots(t, invert) ==
    IF IsAtom(t) THEN [t EXCEPT !.inverted = invert]
    ELSE IF t.type = "NOT" THEN Nots(t.subs[1], ~ invert)
    ELSE LET moved(s) == s.type = "NOT"
             kept(s) == ~ moved(s)
             done(ss) == [i \in DOMAIN ss |-> Nots(ss[i], invert)]
         IN  [type |-> Flip(t.type, invert), cls |-> t.cls,
              subs |-> done(SelectSeq(t.subs, kept)) \o done(SelectSeq(t.subs, moved))]

RECURSIVE NotsFit(_)
NotsFit(t) ==
    IsAtom(t) \/ /\ t.type = "NOT" => Len(t.subs) = 1
                 /\ \A i \in DOMAIN t.subs : NotsFit(t.subs[i])

RECURSIVE Copy(_)
\* A copy is made by the class, whose type it gets.
Copy(t) ==
    IF IsAtom(t) THEN t
    ELSE Logic(t.cls, [i \in DOMAIN t.subs |-> Copy(t.subs[i])])

\* AND over the first OR of its subtrees: the OR becomes the root, and has a copy of
\* the AND for each of its subtrees, for the last one the AND itself.
Distribute(t) ==
    LET k == SelectInSeq(t.subs, LAMBDA s : s.type = "OR")
        or == t.subs[k]
        and == [t EXCEPT !.subs = RemoveAt(@, k)]
    IN  [or EXCEPT !.subs = [i \in DOMAIN @ |->
            With(IF i < Len(@) THEN Copy(and) ELSE and, @[i])]]

RECURSIVE Collapse(_)
Collapse(t) ==
    IF IsAtom(t) THEN t
    ELSE LET add(subs, s) == LET c == Collapse(s) IN
                             IF c.type = t.type THEN subs \o c.subs ELSE Append(subs, c)
             flat == [t EXCEPT !.subs = FoldLeft(add, <<>>, @)]
         IN  IF flat.type = "AND" /\ \E i \in DOMAIN flat.subs : flat.subs[i].type = "OR"
               THEN Collapse(Distribute(flat))
               ELSE flat

\* Collapsed, with an OR at the root and an AND around every atom below it.
Normal(t) ==
    LET c == Collapse(Nots(t, FALSE))
        root == IF c.type = "OR" THEN c ELSE Logic("OR", <<c>>)
        isAnd(s) == s.type = "AND"
        others == SelectSeq(root.subs, LAMBDA s : ~ isAnd(s))
    IN  [root EXCEPT !.subs = SelectSeq(@, isAnd)
                              \o [i \in DOMAIN others |-> Logic("AND", <<others[i]>>)]]

\* A search that is a NOT, or has one without anything after it, is refused.  A root
\* of the wrong class has not the methods that are called.
Normalize ==
    /\ stage = "parsed"
    /\ atoms' = 0
    /\ IF asked.type = "NOT" \/ ~ NotsFit(asked)
         THEN stage' = "refused" /\ UNCHANGED tree
         ELSE /\ tree' = Normal(asked)
              /\ stage' = IF tree'.cls = "OR" THEN "prune" ELSE "crashed"
    /\ UNCHANGED <<tokens, levels, asked, clause>>

-----------------------------------------------------------------------------
PruneQuery ==
    /\ PruneNext
    /\ UNCHANGED <<tokens, atoms, levels, asked>>

QueryNext ==
    \/ \E w \in QueryWord : ReadWord(w)
    \/ \E op \in {"AND", "OR"} : ReadOperator(op)
    \/ ReadNot \/ OpenParen \/ CloseParen \/ BadToken \/ EndOfText \/ NoTokens
    \/ Normalize \/ PruneQuery

QuerySpec == QueryInit /\ [][QueryNext]_queryVars

-----------------------------------------------------------------------------
QueryTypeOK ==
    /\ stage \in {"parse", "parsed", "prune", "accepted", "refused", "empty", "crashed"}
    /\ tokens \in 0..MaxTokens /\ atoms \in Nat /\ clause \in Nat \ {0}
    /\ stage \in {"prune", "accepted", "empty"} => tree \in Trees

RECURSIVE Matches(_, _)
\* The flow is one that the tree asks for.
Matches(t, f) ==
    IF IsAtom(t) THEN (f[t.field] \in t.vals) # t.inverted
    ELSE IF t.type = "NOT" THEN ~ Matches(t.subs[1], f)
    ELSE IF t.type = "AND" THEN \A i \in DOMAIN t.subs : Matches(t.subs[i], f)
    ELSE \E i \in DOMAIN t.subs : Matches(t.subs[i], f)

RECURSIVE OrNegated(_)
\* De Morgan's law has made an OR of an AND, or an AND over an OR of an OR; t is
\* without NOTs.  The node keeps its class, and a copy of it is what it was before.
OrNegated(t) ==
    /\ ~ IsAtom(t)
    /\ \/ t.type # t.cls /\ (t.type = "OR" \/ \E i \in DOMAIN t.subs : t.subs[i].type = "OR")
       \/ \E i \in DOMAIN t.subs : OrNegated(t.subs[i])

RECURSIVE GroupNegated(_)
\* De Morgan's law was applied at all.
GroupNegated(t) ==
    /\ ~ IsAtom(t)
    /\ t.type # t.cls \/ \E i \in DOMAIN t.subs : GroupNegated(t.subs[i])

\* Every atom of the words is in the tree: "Build a parse tree of Node objects from
\* the given sequence of tokens, and return the root node" (parse.py:179-180).
AtomsKept == stage = "parsed" => Leaves(asked) = atoms

\* Normalisation and pruning keep what a query asks for, with NOTs of atoms, of
\* ORs and of NOTs: the distribution over several ORs and the pruning of atoms that
\* contain or exclude each other neither lose a flow nor add one, and "Optimized
\* search tree is empty" is said only of a query that no flow can match.  A method
\* is missing only where De Morgan's law was applied, or where no tree was asked for
\* (collapse_nots, collapse, prune).
QueryKept ==
    /\ stage \in {"accepted", "empty"} /\ ~ OrNegated(Nots(asked, FALSE)) =>
           \A f \in FlowKey : Matches(asked, f) <=> Matches(tree, f)
    /\ stage = "crashed" => asked = None \/ GroupNegated(Nots(asked, FALSE))
=============================================================================
