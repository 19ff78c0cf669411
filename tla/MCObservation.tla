--------------------------- MODULE MCObservation ---------------------------
(***************************************************************************)
(* Small instances of Observation: hooks that run at once.                 *)
(***************************************************************************)
EXTENDS Observation, TLC

CONSTANTS c1, c2, c3

Symmetry == Permutations(Clients)
=============================================================================
