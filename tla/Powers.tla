------------------------------- MODULE Powers -------------------------------
(***************************************************************************)
(* Powers of two, as a function defined by recursion.                      *)
(***************************************************************************)
EXTENDS Naturals

\* 1 << k
Pow2[k \in Nat] == IF k = 0 THEN 1 ELSE 2 * Pow2[k - 1]
=============================================================================
