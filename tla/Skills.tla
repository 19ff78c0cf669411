------------------------------- MODULE Skills -------------------------------
(***************************************************************************)
(* Shared skills: version-guarded proposals on the product database.       *)
(*                                                                         *)
(* A call of skills.py reads a row, builds a proposal and commits it.      *)
(* commit_product_proposal reads the state hash, then the receipt of the   *)
(* key, each in a statement of its own, and only then opens a transaction; *)
(* a rejection is recorded in a second one.  Others may run in between.    *)
(*                                                                         *)
(* The module follows one skill: no operation on a skill touches another.  *)
(* The state hash is the table it is a hash of.  Timestamps have the       *)
(* resolution of a second, so several calls may share one.  Audit rows are *)
(* written in the transaction of what they tell and are left out.          *)
(***************************************************************************)
EXTENDS Naturals, Sequences, SequencesExt

CONSTANTS
  Clients,          \* processes
  NoClient,         \* nobody holds the write lock
  Contents,         \* content hashes of skill records
  Actors,           \* who vouches for a test or an approval
  Packages,         \* records that packages bring in, with the status they had
  Direct,           \* proposals that callers of the store build themselves
  MaxVersion, MaxTime, MaxCalls

ASSUME SkillsAssumption == NoClient \notin Clients
ASSUME DirectAssumption ==
  \A p \in Direct :
    /\ Len(p.ops) \in Nat /\ DOMAIN p.ops = 1 .. Len(p.ops)
    /\ \A i \in DOMAIN p.ops :
         p.ops[i].op \in {"CREATE", "REVISE", "TEST", "APPROVE", "DEPRECATE"}
\* Versions are numbers, and nobody names a key that is the digest of an
\* operation but for that operation.
ASSUME VersionsAssumption ==
  /\ \A record \in Packages : record.version \in Nat
  /\ \A p \in Direct : \A i \in DOMAIN p.ops :
       p.ops[i].op = "CREATE" => p.ops[i].record.version \in Nat
ASSUME KeysAssumption ==
  \A p \in Direct : "op" \in DOMAIN p.key => p.ops = <<p.key>>

VARIABLES
  skills,           \* the skills table: version -> [status, content, stamp]
  receipts,         \* product_receipts with their proposals, by rowid
  lock,             \* who holds the write lock
  now,              \* utc_now()
  task,             \* where each client stands in a call
  calls,            \* calls started, bounded by MaxCalls
  raced             \* history: whether two calls ever overlapped

tables == <<skills, receipts>>
vars == <<tables, lock, now, task, calls, raced>>

Statuses == <<"DRAFT", "TESTED", "APPROVED", "DEPRECATED">>
Idle == [at |-> "idle"]
NoSkills == [v \in {} |-> Idle]
RecordOf(version, status, content, stamp) ==
  [version |-> version, status |-> status, content |-> content, stamp |-> stamp]
Row(record) == [status |-> record.status, content |-> record.content, stamp |-> record.stamp]

At(c, label) == task[c].at = label
Become(c, t) == task' = [task EXCEPT ![c] = t]
Goto(c, label) == Become(c, [task[c] EXCEPT !.at = label])
Answer(c, outcome) == Become(c, [at |-> "done", proposal |-> task[c].proposal, outcome |-> outcome])

Init ==
  /\ skills = NoSkills
  /\ receipts = <<>>
  /\ lock = NoClient
  /\ now = 1
  /\ task = [c \in Clients |-> Idle]
  /\ calls = 0
  /\ raced = FALSE

-----------------------------------------------------------------------------
(* The operations, on a table s under construction.                        *)

Latest(s) == CHOOSE v \in DOMAIN s : \A w \in DOMAIN s : w <= v

\* The approved versions but v become deprecated at time t.
DeprecateOthers(s, v, t) ==
  [w \in DOMAIN s |-> IF w # v /\ s[w].status = "APPROVED"
                      THEN [s[w] EXCEPT !.status = "DEPRECATED", !.stamp = t]
                      ELSE s[w]]
Add(s, record) == [w \in DOMAIN s \cup {record.version} |->
                     IF w = record.version THEN Row(record) ELSE s[w]]

\* A slip: an approved version comes in beside another one.
PutSkillBeside(s, record) == IF record.version \in DOMAIN s THEN s ELSE Add(s, record)
\* put_skill: a version that is there stays as it is.
PutSkill(s, record) ==
  IF record.version \in DOMAIN s THEN s
  ELSE Add(IF record.status = "APPROVED" THEN DeprecateOthers(s, record.version, now) ELSE s,
           record)

\* A slip: the time of the change is the time of the transaction.
UpdateSkillStatusNow(s, v, status, t) ==
  [IF status = "APPROVED" THEN DeprecateOthers(s, v, now) ELSE s
     EXCEPT ![v].status = status, ![v].stamp = now]
\* update_skill_status
UpdateSkillStatus(s, v, status, t) ==
  [IF status = "APPROVED" THEN DeprecateOthers(s, v, t) ELSE s
     EXCEPT ![v].status = status, ![v].stamp = t]

\* What an operation is refused for, "" if nothing.
PutError(s, record) ==
  IF record.version \in DOMAIN s /\ s[record.version].content # record.content
  THEN "VALIDATION_ERROR" ELSE ""
\* A slip: a revision is only checked against the row it revises.
ReviseErrorOldRow(s, op) ==
  IF op.version \notin DOMAIN s THEN "VALIDATION_ERROR" ELSE ""
ReviseError(s, op) ==
  CASE op.version \notin DOMAIN s -> "VALIDATION_ERROR"
    [] op.version \in DOMAIN s /\ Latest(s) # op.version -> "TRANSACTION_CONFLICT"
    [] op.version \in DOMAIN s /\ Latest(s) = op.version ->
         IF op.record.version # op.version + 1 THEN "VALIDATION_ERROR" ELSE PutError(s, op.record)
StatusError(s, op) ==
  IF op.version \notin DOMAIN s THEN "VALIDATION_ERROR"
  ELSE IF s[op.version].status # op.expected THEN "TRANSACTION_CONFLICT" ELSE ""
OperationError(s, op) ==
  CASE op.op = "CREATE" -> PutError(s, op.record)
    [] op.op = "REVISE" -> ReviseError(s, op)
    [] OTHER -> StatusError(s, op)

\* _apply_product_skill_operation
ApplyOperation(s, op, t) ==
  CASE op.op \in {"CREATE", "REVISE"} -> PutSkill(s, op.record)
    [] op.op = "TEST" -> UpdateSkillStatus(s, op.version, "TESTED", t)
    [] op.op = "APPROVE" -> UpdateSkillStatus(s, op.version, "APPROVED", t)
    [] op.op = "DEPRECATE" -> UpdateSkillStatus(s, op.version, "DEPRECATED", t)

-----------------------------------------------------------------------------
(* The calls of skills.py.                                                 *)

Propose(c, proposal) ==
  /\ At(c, "idle")
  /\ calls < MaxCalls
  /\ calls' = calls + 1
  /\ raced' = (raced \/ \E b \in Clients : ~At(b, "idle"))
  /\ Become(c, [at |-> "hash", proposal |-> proposal])
  /\ UNCHANGED <<tables, lock, now>>

\* _commit_skill_operation: identity and key are digests of the operation.
Single(op, at) == [id |-> op, key |-> op, at |-> at, expected |-> <<>>, ops |-> <<op>>]

\* create_skill, of a new record or of one from a package.
CreateSkill(c, record) ==
  /\ record.version \notin DOMAIN skills
  /\ Propose(c, Single([op |-> "CREATE", record |-> record], record.stamp))
ReviseSkill(c, content) ==
  /\ DOMAIN skills # {}
  /\ LET v == Latest(skills)
         record == RecordOf(v + 1, "DRAFT", content, now)
     IN /\ v < MaxVersion
        /\ Propose(c, Single([op |-> "REVISE", version |-> v, record |-> record], now))
MarkSkillTested(c, v, by) ==
  /\ skills[v].status \notin {"TESTED", "APPROVED"}
  /\ Propose(c, Single([op |-> "TEST", version |-> v, expected |-> "DRAFT", by |-> by], now))
ApproveSkill(c, v, by) ==
  /\ skills[v].status = "TESTED"
  /\ Propose(c, Single([op |-> "APPROVE", version |-> v, expected |-> "TESTED", by |-> by], now))
DeprecateSkill(c, v) ==
  /\ skills[v].status # "DEPRECATED"
  /\ Propose(c, Single([op |-> "DEPRECATE", version |-> v, expected |-> skills[v].status], now))

-----------------------------------------------------------------------------
(* commit_product_proposal                                                 *)

Known(key) == \E i \in DOMAIN receipts : receipts[i].proposal.key = key
ReceiptOf(key) == receipts[CHOOSE i \in DOMAIN receipts : receipts[i].proposal.key = key]
\* UNIQUE constraints of product_proposals.
Reused(p) == \E i \in DOMAIN receipts :
               \/ receipts[i].proposal.key = p.key
               \/ receipts[i].proposal.id = p.id

\* The state hash is read first.
ReadState(c) ==
  /\ At(c, "hash")
  /\ Become(c, [at |-> "lookup", proposal |-> task[c].proposal, before |-> skills])
  /\ UNCHANGED <<tables, lock, now, calls, raced>>

\* The key is known: its own proposal gets the receipt, another is refused.
AnswerPrior(c) ==
  LET p == task[c].proposal
  IN /\ At(c, "lookup")
     /\ Known(p.key)
     /\ Answer(c, IF ReceiptOf(p.key).proposal = p THEN ReceiptOf(p.key).outcome
                  ELSE "VALIDATION_ERROR")
     /\ UNCHANGED <<tables, lock, now, calls, raced>>

Stale(c) == task[c].proposal.expected \notin {<<>>, <<task[c].before>>}
Refuse(c, outcome) ==
  Become(c, [at |-> "reject", proposal |-> task[c].proposal, before |-> task[c].before,
             outcome |-> outcome])

\* A slip: the state the caller expects is not compared.
ProceedAnyState(c) ==
  /\ At(c, "lookup")
  /\ ~Known(task[c].proposal.key)
  /\ Goto(c, "begin")
  /\ UNCHANGED <<tables, lock, now, calls, raced>>
\* The state is the expected one, or the caller expects none.
Proceed(c) ==
  /\ At(c, "lookup")
  /\ ~Known(task[c].proposal.key)
  /\ IF Stale(c) THEN Refuse(c, "TRANSACTION_CONFLICT") ELSE Goto(c, "begin")
  /\ UNCHANGED <<tables, lock, now, calls, raced>>

\* BEGIN IMMEDIATE, and the row of the proposal.
Begin(c) ==
  /\ At(c, "begin")
  /\ lock = NoClient
  /\ IF Reused(task[c].proposal)
     THEN Refuse(c, "VALIDATION_ERROR") /\ UNCHANGED lock
     ELSE /\ Become(c, [at |-> "apply", proposal |-> task[c].proposal,
                        before |-> task[c].before, work |-> skills, next |-> 1])
          /\ lock' = c
  /\ UNCHANGED <<tables, now, calls, raced>>

\* One operation of the proposal; the first that is refused rolls all back.
Apply(c) ==
  LET t == task[c]
      op == t.proposal.ops[t.next]
      error == OperationError(t.work, op)
  IN /\ At(c, "apply")
     /\ t.next <= Len(t.proposal.ops)
     /\ IF error = ""
        THEN /\ Become(c, [t EXCEPT !.work = ApplyOperation(t.work, op, t.proposal.at),
                                    !.next = t.next + 1])
             /\ UNCHANGED lock
        ELSE Refuse(c, error) /\ lock' = NoClient
     /\ UNCHANGED <<tables, now, calls, raced>>

Receipt(c, outcome, after) ==
  [proposal |-> task[c].proposal, outcome |-> outcome, before |-> task[c].before, after |-> after]

\* The receipt, and COMMIT.
Commit(c) ==
  /\ At(c, "apply")
  /\ task[c].next > Len(task[c].proposal.ops)
  /\ skills' = task[c].work
  /\ receipts' = Append(receipts, Receipt(c, "COMMITTED", task[c].work))
  /\ lock' = NoClient
  /\ Answer(c, "COMMITTED")
  /\ UNCHANGED <<now, calls, raced>>

\* _persist_product_rejection: by now the key may have a receipt, and
\* whosever it is, it is the answer.
LookAgain(c) ==
  LET key == task[c].proposal.key
  IN /\ At(c, "reject")
     /\ IF Known(key) THEN Answer(c, ReceiptOf(key).outcome) ELSE Goto(c, "record")
     /\ UNCHANGED <<tables, lock, now, calls, raced>>

\* The rejection, in a transaction of its own.
RecordRejection(c) ==
  /\ At(c, "record")
  /\ lock = NoClient
  /\ IF Reused(task[c].proposal)
     THEN Answer(c, "ERROR") /\ UNCHANGED receipts
     ELSE /\ receipts' = Append(receipts, Receipt(c, task[c].outcome, task[c].before))
          /\ Answer(c, task[c].outcome)
  /\ UNCHANGED <<skills, lock, now, calls, raced>>

\* The caller has its answer.
Return(c) ==
  /\ At(c, "done")
  /\ Become(c, Idle)
  /\ UNCHANGED <<tables, lock, now, calls, raced>>

\* The process dies, or its busy timeout ends the call: SQLite rolls back.
Crash(c) ==
  /\ ~At(c, "idle")
  /\ Become(c, Idle)
  /\ lock' = IF lock = c THEN NoClient ELSE lock
  /\ UNCHANGED <<tables, now, calls, raced>>

Tick ==
  /\ now < MaxTime
  /\ now' = now + 1
  /\ UNCHANGED <<tables, lock, task, calls, raced>>

Next ==
  \/ \E c \in Clients :
       \/ \E content \in Contents : CreateSkill(c, RecordOf(1, "DRAFT", content, now))
       \/ \E record \in Packages : CreateSkill(c, record)
       \/ \E content \in Contents : ReviseSkill(c, content)
       \/ \E v \in DOMAIN skills, by \in Actors : MarkSkillTested(c, v, by) \/ ApproveSkill(c, v, by)
       \/ \E v \in DOMAIN skills : DeprecateSkill(c, v)
       \/ \E proposal \in Direct : Propose(c, proposal)
       \/ ReadState(c) \/ AnswerPrior(c) \/ Proceed(c) \/ Begin(c) \/ Apply(c) \/ Commit(c)
       \/ LookAgain(c) \/ RecordRejection(c) \/ Return(c) \/ Crash(c)
  \/ Tick

Spec == Init /\ [][Next]_vars

-----------------------------------------------------------------------------
(* verify_skill_replay: the table from the committed proposals alone.      *)

ReplayPut(s, record) ==
  Add(IF record.status = "APPROVED"
      THEN [w \in DOMAIN s |-> IF s[w].status = "APPROVED"
                               THEN [s[w] EXCEPT !.status = "DEPRECATED"] ELSE s[w]]
      ELSE s,
      record)
SetRow(s, v, status, t) == [s EXCEPT ![v].status = status, ![v].stamp = t]
\* _replay_skill_operation
ReplayOperation(s, op, t) ==
  CASE op.op = "CREATE" -> ReplayPut(s, op.record)
    [] op.op = "REVISE" -> Add(s, op.record)
    [] op.op = "TEST" -> SetRow(s, op.version, "TESTED", t)
    [] op.op = "APPROVE" -> SetRow(DeprecateOthers(s, op.version, t), op.version, "APPROVED", t)
    [] op.op = "DEPRECATE" -> SetRow(s, op.version, "DEPRECATED", t)

\* The table after each operation of a proposal.
ReplayOperations(s, p) ==
  LET after[n \in 0 .. Len(p.ops)] ==
        IF n = 0 THEN s ELSE ReplayOperation(after[n - 1], p.ops[n], p.at)
  IN after
ReplayReceipt(s, receipt) ==
  IF receipt.outcome = "COMMITTED"
  THEN ReplayOperations(s, receipt.proposal)[Len(receipt.proposal.ops)]
  ELSE s
\* The table after each receipt.
ReplayReceipts(rows) ==
  LET after[n \in 0 .. Len(rows)] ==
        IF n = 0 THEN NoSkills ELSE ReplayReceipt(after[n - 1], rows[n])
  IN after
Replay == ReplayReceipts(receipts)[Len(receipts)]

\* Where the operations stand that were committed.
Committed == {i \in DOMAIN receipts : receipts[i].outcome = "COMMITTED"}
History == UNION {{i} \X DOMAIN receipts[i].proposal.ops : i \in Committed}
OperationAt(at) == receipts[at[1]].proposal.ops[at[2]]

-----------------------------------------------------------------------------
(***************************************************************************)
(* Properties.                                                             *)
(***************************************************************************)
Puts == {at \in History : OperationAt(at).op \in {"CREATE", "REVISE"}}
\* No record came in approved, and no version came in twice.
Plain ==
  /\ \A at \in Puts : OperationAt(at).record.status # "APPROVED"
  /\ \A at, other \in Puts :
       OperationAt(at).record.version = OperationAt(other).record.version => at = other

\* At most one version is approved, so the index one_approved_skill_version
\* never refuses what the reducers do; not even inside a transaction.
OneApproved ==
  LET approved(s) == {v \in DOMAIN s : s[v].status = "APPROVED"}
  IN /\ \A v, w \in approved(skills) : v = w
     /\ \A c \in Clients : At(c, "apply") =>
          \A v, w \in approved(task[c].work) : v = w

\* verify_skill_replay, which a session start fails closed on: as long as
\* nothing approved is imported and no version is created twice, the committed
\* proposals alone give the table, however the calls raced, retried or died.
\* (An import that replaces an approved version leaves the two apart for good:
\* the replay does not date the deprecation of the one replaced.)
ReplayOfPlain == Plain => Replay = skills

\* What was committed is kept: every version that a committed CREATE or REVISE
\* brought has the content it brought, although two callers may bring it; and
\* no revision is lost: of two who revise the same version, one is told so.  Who
\* is told COMMITTED finds its operations committed, in a receipt that may be
\* another attempt's; a caller that names its own key, only when no other call
\* ran meanwhile.
NothingCommittedIsLost ==
  /\ \A at \in Puts :
       LET record == OperationAt(at).record
       IN record.version \in DOMAIN skills /\ skills[record.version].content = record.content
  /\ \A at, other \in Puts :
       /\ OperationAt(at).op = "REVISE"
       /\ OperationAt(other).op = "REVISE"
       /\ OperationAt(at).version = OperationAt(other).version
       => at = other
  /\ \A c \in Clients :
       /\ At(c, "done")
       /\ task[c].outcome = "COMMITTED"
       /\ task[c].proposal \in Direct => ~raced
       => \E i \in Committed : receipts[i].proposal.ops = task[c].proposal.ops

\* Without races the receipts are one history of states: each tells the state
\* before it, a guarded proposal found the state it named, and the last is the
\* table as it is.
ReceiptsChain ==
  ~raced =>
    /\ \A i \in DOMAIN receipts :
         /\ receipts[i].before = IF i = 1 THEN NoSkills ELSE receipts[i - 1].after
         /\ receipts[i].outcome = "COMMITTED" =>
              receipts[i].proposal.expected \in {<<>>, <<receipts[i].before>>}
    /\ skills = IF receipts = <<>> THEN NoSkills ELSE receipts[Len(receipts)].after
=============================================================================
