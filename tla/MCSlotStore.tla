---------------------------- MODULE MCSlotStore ----------------------------
(***************************************************************************)
(* An instance of SlotStore: two disks of which the second is half as      *)
(* large.                                                                  *)
(***************************************************************************)
EXTENDS SlotStore, TLC

CONSTANTS d1, d2

TwoDiskSlots == 1..3
TwoDisks == [s \in TwoDiskSlots |-> IF s = 3 THEN d2 ELSE d1]
TwoDiskInc == [d \in {d1, d2} |-> IF d = d2 THEN 2 ELSE 1]

WriterSymmetry == Permutations(Writer)
=============================================================================
