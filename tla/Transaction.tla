---------------------------- MODULE Transaction -----------------------------
(***************************************************************************)
(* What the reducers of the kernel work on: a transaction                  *)
(*   [store, events, opened, error]                                        *)
(* holds the tables as the open transaction has changed them, the events   *)
(* it has emitted, the conflicts it has opened, and the outcome of the     *)
(* failure that will roll everything back, or NONE.  A table maps the ids  *)
(* of its rows to the rows.                                                *)
(***************************************************************************)
EXTENDS Naturals, Sequences

NONE == "NONE"
CONFLICT == "TRANSACTION_CONFLICT"
INVALID == "VALIDATION_ERROR"

\* A row inserted or replaced in a table.
Put(table, id, row) ==
  [k \in DOMAIN table \cup {id} |-> IF k = id THEN row ELSE table[k]]

Fail(txn, outcome) == [txn EXCEPT !.error = outcome]
Emit(txn, event) == [txn EXCEPT !.events = Append(@, event)]
=============================================================================
