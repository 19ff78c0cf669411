---------------------------- MODULE SharedLedger ----------------------------
(***************************************************************************)
(* What the kernel promises to the clients that share one workspace: a     *)
(* single append-only ledger of accepted proposals and one materialized    *)
(* store.  A proposal is accepted atomically, against the store its        *)
(* predecessor left behind, and an idempotency key is accepted at most     *)
(* once, however many processes submit it and however often they retry.    *)
(*                                                                         *)
(* Everything else the kernel does (rejections, retries, locks, crashes)   *)
(* is invisible here: KernelCommit implements this specification.          *)
(***************************************************************************)
EXTENDS Naturals, Sequences

CONSTANTS
  Proposals,        \* the proposals clients may submit, one per content hash
  Keys,             \* idempotency keys
  KeyOf,            \* the key each proposal carries
  Stores,           \* contents of the materialized tables
  InitStore,        \* the store of a freshly created workspace
  Evaluate(_, _)    \* what a proposal does to a store: [outcome, store]

Accepting == {"COMMITTED", "FACT_CONFLICT"}
Rejecting == {"VALIDATION_ERROR", "TRANSACTION_CONFLICT"}

VARIABLES
  entries,          \* accepted proposals, in ledger order
  state             \* the materialized store

shared == <<entries, state>>

Init ==
  /\ entries = <<>>
  /\ state = InitStore

\* A proposal whose key was never accepted becomes the next ledger entry and
\* its effect becomes the new store, in one step.
Accept(p) ==
  /\ \A i \in DOMAIN entries : KeyOf[entries[i]] # KeyOf[p]
  /\ Evaluate(p, state).outcome \in Accepting
  /\ entries' = Append(entries, p)
  /\ state' = Evaluate(p, state).store

Next == \E p \in Proposals : Accept(p)

Spec == Init /\ [][Next]_shared
=============================================================================
