---------------------------- MODULE MCSearchPage ----------------------------
(* An instance of SearchPage: every search is one of all nodes.            *)
EXTENDS SearchPage

AllNodes == [s \in Search |-> Node]
=============================================================================
