---------------------------- MODULE MCWorkItems ----------------------------
(***************************************************************************)
(* A small instance of WorkItems: two processes of one agent, and two      *)
(* items of which one is handed off with a reference to the other.         *)
(***************************************************************************)
EXTENDS WorkItems, TLC

CONSTANTS c1, c2, bot
MCAuthor == c1 :> bot @@ c2 :> bot
MCRelated == 1 :> {2} @@ 2 :> {}
Symmetric == Permutations({c1, c2})
=============================================================================
