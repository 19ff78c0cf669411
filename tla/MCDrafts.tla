----------------------------- MODULE MCDrafts ------------------------------
(***************************************************************************)
(* A small instance of Drafts: two processes; a draft whose document wants *)
(* the one free row, with an edited version under the same key and one     *)
(* under another; a draft the schemas refuse until it is edited; another   *)
(* caller who takes the row and gives it back.                             *)
(***************************************************************************)
EXTENDS Drafts, TLC

CONSTANTS c1, c2, x, y,
          claim,     \* wants the row
          reworded,  \* the same under another key
          recycled,  \* another document under claim's key
          broken,    \* refused by the schemas
          take, free \* other callers' proposals

MCStaged == x :> claim @@ y :> broken
MCKeyOf == claim :> "k1" @@ recycled :> "k1" @@ reworded :> "k2" @@ broken :> "k3"
           @@ take :> "k4" @@ free :> "k5"

\* The row is free (0) or taken (1); freeing it is always possible.
MCEvaluate(p, s) ==
  IF p = free THEN [outcome |-> "COMMITTED", store |-> 0]
  ELSE IF s = 0 THEN [outcome |-> "COMMITTED", store |-> 1]
  ELSE [outcome |-> "TRANSACTION_CONFLICT", store |-> s]

Symmetry == Permutations({c1, c2})
=============================================================================
