------------------------------ MODULE MCViews ------------------------------
(***************************************************************************)
(* Small instances of Views: two programs, two scenarios, one draft.       *)
(***************************************************************************)
EXTENDS Views, TLC

CONSTANTS b1, b2, s1, s2, d1
Symmetric == Permutations({b1, b2}) \cup Permutations({s1, s2})
=============================================================================
