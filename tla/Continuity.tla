----------------------------- MODULE Continuity -----------------------------
(***************************************************************************)
(* The reducers for decision records, open questions and work items.       *)
(*                                                                         *)
(* They live in the same store and the same transaction as the claims.     *)
(* Each event carries the transition it made, so that replay can compare   *)
(* the event it regenerates with the one that was recorded.                *)
(***************************************************************************)
EXTENDS Transaction

Dispositions == {"SUPERSEDED", "REVERSED"}
WorkItemStatuses == {"TODO", "DOING", "BLOCKED", "DONE", "DROPPED"}

-----------------------------------------------------------------------------
(* Decisions: a chain of replacements ending in the active one.            *)

NewDecision(refs) == [status |-> "ACTIVE", version |-> 1, by |-> NONE, refs |-> refs]

RecordDecision(txn, op) ==
  IF op.decision \in DOMAIN txn.store.decisions THEN Fail(txn, INVALID)
  ELSE Emit([txn EXCEPT !.store.decisions = Put(@, op.decision, NewDecision(op.refs))],
              [type |-> "DECISION_RECORDED", decision |-> op.decision, refs |-> op.refs])

SupersedeDecision(txn, op) ==
  LET target == txn.store.decisions[op.target]
      closed == [target EXCEPT !.status = op.disposition, !.version = @ + 1, !.by = op.decision]
  IN IF op.disposition \notin Dispositions THEN Fail(txn, INVALID)
     ELSE IF op.target \notin DOMAIN txn.store.decisions \/ target.status # "ACTIVE"
     THEN Fail(txn, CONFLICT)
     ELSE IF op.decision \in DOMAIN txn.store.decisions THEN Fail(txn, INVALID)
     ELSE Emit([txn EXCEPT !.store.decisions =
                    [Put(@, op.decision, NewDecision(op.refs)) EXCEPT
                       ![op.target] = closed]],
                 [type |-> "DECISION_SUPERSEDED", target |-> op.target,
                  disposition |-> op.disposition, decision |-> op.decision, refs |-> op.refs,
                  from |-> target.version, to |-> target.version + 1])

-----------------------------------------------------------------------------
(* Questions: open until answered or dropped, once.                        *)

OpenQuestion(txn, op) ==
  IF op.question \in DOMAIN txn.store.questions THEN Fail(txn, INVALID)
  ELSE Emit([txn EXCEPT !.store.questions =
                 Put(@, op.question, [status |-> "OPEN", version |-> 1,
                                         answer |-> {}, refs |-> op.refs])],
              [type |-> "QUESTION_OPENED", question |-> op.question, refs |-> op.refs])

\* Answering and dropping close the same row; only an answer points anywhere.
CloseQuestion(txn, id, status, answer) ==
  LET target == txn.store.questions[id]
      closed == [target EXCEPT !.status = status, !.version = @ + 1, !.answer = answer]
      type == IF status = "ANSWERED" THEN "QUESTION_ANSWERED" ELSE "QUESTION_DROPPED"
  IN IF id \notin DOMAIN txn.store.questions \/ target.status # "OPEN" THEN Fail(txn, CONFLICT)
     ELSE Emit([txn EXCEPT !.store.questions[id] = closed],
                 [type |-> type, target |-> id, answer |-> answer,
                  from |-> target.version, to |-> target.version + 1])

AnswerQuestion(txn, op) == CloseQuestion(txn, op.target, "ANSWERED", {op.answer})
DropQuestion(txn, op) == CloseQuestion(txn, op.target, "DROPPED", {})

-----------------------------------------------------------------------------
(* Work items: any status may follow any other, but only a blocked item    *)
(* has a blocker.                                                          *)

CreateWorkItem(txn, op) ==
  IF op.item \in DOMAIN txn.store.work THEN Fail(txn, INVALID)
  ELSE Emit([txn EXCEPT !.store.work =
                 Put(@, op.item, [status |-> "TODO", version |-> 1,
                                     blocked |-> FALSE, refs |-> op.refs])],
              [type |-> "WORK_ITEM_CREATED", item |-> op.item, refs |-> op.refs])

UpdateWorkItemStatus(txn, op) ==
  LET target == txn.store.work[op.target]
      updated == [target EXCEPT !.status = op.status, !.version = @ + 1, !.blocked = op.blocked]
  IN IF op.status \notin WorkItemStatuses \/ (op.status = "BLOCKED") # op.blocked
     THEN Fail(txn, INVALID)
     ELSE IF op.target \notin DOMAIN txn.store.work THEN Fail(txn, CONFLICT)
     ELSE Emit([txn EXCEPT !.store.work[op.target] = updated],
                 [type |-> "WORK_ITEM_STATUS_UPDATED", target |-> op.target,
                  was |-> target.status, status |-> op.status, blocked |-> op.blocked,
                  from |-> target.version, to |-> target.version + 1])
=============================================================================
