-------------------------- MODULE MCKernelCommit ---------------------------
(***************************************************************************)
(* Small instances of KernelCommit for TLC: two processes, two tables, and *)
(* proposals that race for one row, share an idempotency key, or are too   *)
(* large to be looked at.                                                  *)
(***************************************************************************)
EXTENDS KernelCommit, TLC

CONSTANTS c1, c2, k1, k2, k3,
          claim,      \* takes the free row of table 1
          rival,      \* wants the same row under another key, and marks table 2
          other,      \* shares claim's key and does something else
          oversized,  \* shares rival's key and is refused on its size
          late        \* wants the row too, under a third key

MCClients == {c1, c2}
MCProposals == {claim, rival, other, oversized, late}
MCRaceProposals == {claim, rival, other}
MCKeyOf ==
  claim :> k1 @@ other :> k1 @@ rival :> k2 @@ oversized :> k2 @@ late :> k3
MCRaceKeyOf == claim :> k1 @@ other :> k1 @@ rival :> k2
MCPreflight == {oversized}
MCInitStore == <<0, 0>>

MCEvaluate(p, s) ==
  CASE p \in {claim, rival, late} /\ s[1] # 0 ->
         [outcome |-> "TRANSACTION_CONFLICT", store |-> s]
    [] p \in {claim, late} /\ s[1] = 0 -> [outcome |-> "COMMITTED", store |-> <<1, s[2]>>]
    [] p = rival /\ s[1] = 0 -> [outcome |-> "FACT_CONFLICT", store |-> <<2, 1>>]
    [] p = other /\ s[2] = 1 -> [outcome |-> "VALIDATION_ERROR", store |-> s]
    [] OTHER -> [outcome |-> "COMMITTED", store |-> <<s[1], 1>>]
=============================================================================
