---------------------------- MODULE SkillsProofs ----------------------------
(***************************************************************************)
(* What Skills guarantees for any number of processes, versions, contents, *)
(* packages and direct proposals: one version is approved at most; as long *)
(* as no calls overlap, the receipts are one history of states; what was   *)
(* committed is kept; and plain histories replay to the table.             *)
(***************************************************************************)
EXTENDS Skills, SequenceTheorems, WellFoundedInduction, TLAPS

\* A table: a function to rows.
IsTable(s) == s = [v \in DOMAIN s |-> Row(s[v])]
OnlyOne(s) ==
  \A v, w \in DOMAIN s : s[v].status = "APPROVED" /\ s[w].status = "APPROVED" => v = w
GoodTable(s) == IsTable(s) /\ OnlyOne(s)

\* Proposals that the reducers know how to apply.
Sound(p) ==
  /\ Len(p.ops) \in Nat /\ DOMAIN p.ops = 1 .. Len(p.ops)
  /\ \A i \in DOMAIN p.ops :
       p.ops[i].op \in {"CREATE", "REVISE", "TEST", "APPROVE", "DEPRECATE"}

\* An operation the reducers know and do not refuse.
Doable(s, op) ==
  /\ op.op \in {"CREATE", "REVISE", "TEST", "APPROVE", "DEPRECATE"}
  /\ OperationError(s, op) = ""

\* What a task is at each label.
Calling(t) == [at |-> t.at, proposal |-> t.proposal]
Deciding(t) == [at |-> t.at, proposal |-> t.proposal, before |-> t.before]
Applying(t) == [at |-> t.at, proposal |-> t.proposal, before |-> t.before,
                work |-> t.work, next |-> t.next]
Refused(t) == [at |-> t.at, proposal |-> t.proposal, before |-> t.before,
               outcome |-> t.outcome]
Answered(t) == [at |-> t.at, proposal |-> t.proposal, outcome |-> t.outcome]
GoodTask(t) ==
  \/ t = Idle
  \/ t = Calling(t) /\ t.at = "hash" /\ Sound(t.proposal)
  \/ t = Deciding(t) /\ t.at \in {"lookup", "begin"} /\ Sound(t.proposal)
  \/ t = Applying(t) /\ t.at = "apply" /\ Sound(t.proposal)
       /\ t.next \in Nat \ {0} /\ GoodTable(t.work)
  \/ t = Refused(t) /\ t.at \in {"reject", "record"} /\ t.outcome # "COMMITTED"
  \/ t = Answered(t) /\ t.at = "done"

\* The invariant behind OneApproved.
TableInv ==
  /\ GoodTable(skills)
  /\ task = [c \in Clients |-> task[c]]
  /\ \A c \in Clients : GoodTask(task[c])

-----------------------------------------------------------------------------
(* The reducers keep a table a table, with one approved version.           *)

\* Changing status and stamp of a row.
LEMMA RowChanged ==
  ASSUME NEW r, r = Row(r), NEW status, NEW t
  PROVE  [r EXCEPT !.status = status, !.stamp = t] =
           [status |-> status, content |-> r.content, stamp |-> t]
<1>1. PICK old, content, stamp : r = [status |-> old, content |-> content, stamp |-> stamp]
  BY DEF Row
<1>2. [r EXCEPT !.status = status] = [status |-> status, content |-> content, stamp |-> stamp]
  BY <1>1
<1>3. PICK m : m = [r EXCEPT !.status = status]
  OBVIOUS
<1>4. m = [status |-> status, content |-> content, stamp |-> stamp]
  BY <1>2, <1>3
<1>5. [m EXCEPT !.stamp = t] = [status |-> status, content |-> content, stamp |-> t]
  BY <1>4
<1> QED
  BY <1>1, <1>3, <1>5

\* DeprecateOthers leaves v alone and no other version approved.
LEMMA OthersDeprecated ==
  ASSUME NEW s, IsTable(s), NEW v, NEW t
  PROVE  LET d == DeprecateOthers(s, v, t)
         IN /\ IsTable(d)
            /\ DOMAIN d = DOMAIN s
            /\ \A w \in DOMAIN s : w # v => d[w].status # "APPROVED"
<1> DEFINE d == DeprecateOthers(s, v, t)
<1>1. DOMAIN d = DOMAIN s
  BY DEF DeprecateOthers
<1>2. ASSUME NEW w \in DOMAIN s
      PROVE  d[w] = Row(d[w]) /\ (w # v => d[w].status # "APPROVED")
  <2>1. s[w] = Row(s[w])
    BY DEF IsTable
  <2>2. CASE w # v /\ s[w].status = "APPROVED"
    <3>1. d[w] = [s[w] EXCEPT !.status = "DEPRECATED", !.stamp = t]
      BY <2>2 DEF DeprecateOthers
    <3>2. d[w] = [status |-> "DEPRECATED", content |-> s[w].content, stamp |-> t]
      BY <3>1, <2>1, RowChanged
    <3> QED
      BY <3>2 DEF Row
  <2>3. CASE ~(w # v /\ s[w].status = "APPROVED")
    <3>1. d[w] = s[w]
      BY <2>3 DEF DeprecateOthers
    <3> QED
      BY <3>1, <2>1, <2>3
  <2> QED
    BY <2>2, <2>3
<1>3. d = [w \in DOMAIN d |-> Row(d[w])]
  <2>1. d = [w \in DOMAIN d |-> d[w]]
    BY DEF DeprecateOthers
  <2> QED
    BY <1>1, <1>2, <2>1
<1> QED
  BY <1>1, <1>2, <1>3 DEF IsTable

\* put_skill: an approved record comes in after the others are deprecated.
LEMMA PutKeeps ==
  ASSUME NEW s, GoodTable(s), NEW record
  PROVE  GoodTable(PutSkill(s, record))
<1> DEFINE base == IF record.status = "APPROVED"
                   THEN DeprecateOthers(s, record.version, now) ELSE s
           r == PutSkill(s, record)
<1>1. CASE record.version \in DOMAIN s
  BY <1>1 DEF PutSkill
<1>2. CASE record.version \notin DOMAIN s
  <2>1. /\ IsTable(base)
        /\ DOMAIN base = DOMAIN s
        /\ record.status = "APPROVED" =>
             \A w \in DOMAIN s : base[w].status # "APPROVED"
        /\ record.status # "APPROVED" => base = s
    BY <1>2, OthersDeprecated DEF GoodTable
  <2>2. r = Add(base, record)
    BY <1>2 DEF PutSkill
  <2> HIDE DEF base, r
  <2>3. r = [w \in DOMAIN s \cup {record.version} |->
               IF w = record.version THEN Row(record) ELSE base[w]]
    BY <2>1, <2>2 DEF Add
  <2>4. /\ DOMAIN r = DOMAIN s \cup {record.version}
        /\ r[record.version] = Row(record)
        /\ \A w \in DOMAIN s : r[w] = base[w]
    BY <2>3, <1>2
  <2>5. Row(record) = Row(Row(record)) /\ Row(record).status = record.status
    BY DEF Row
  <2>6. \A w \in DOMAIN r : r[w] = Row(r[w])
    BY <2>1, <2>4, <2>5 DEF IsTable
  <2>7. IsTable(r)
    <3>1. r = [w \in DOMAIN r |-> r[w]]
      BY <2>3
    <3> QED
      BY <3>1, <2>6 DEF IsTable
  <2>8. OnlyOne(r)
    BY <2>1, <2>4, <2>5 DEF OnlyOne, GoodTable
  <2> QED
    BY <2>7, <2>8 DEF GoodTable, r
<1> QED
  BY <1>1, <1>2

\* update_skill_status: an approval deprecates the others first, another
\* status approves nothing.
LEMMA UpdateKeeps ==
  ASSUME NEW s, GoodTable(s), NEW v \in DOMAIN s, NEW status, NEW t
  PROVE  GoodTable(UpdateSkillStatus(s, v, status, t))
<1> DEFINE base == IF status = "APPROVED" THEN DeprecateOthers(s, v, t) ELSE s
           row == [status |-> status, content |-> base[v].content, stamp |-> t]
           r == UpdateSkillStatus(s, v, status, t)
<1>1. /\ IsTable(base)
      /\ DOMAIN base = DOMAIN s
      /\ status = "APPROVED" => \A w \in DOMAIN s : w # v => base[w].status # "APPROVED"
      /\ status # "APPROVED" => base = s
  BY OthersDeprecated DEF GoodTable
<1>2. base[v] = Row(base[v])
  BY <1>1 DEF IsTable
<1>3. [base[v] EXCEPT !.status = status, !.stamp = t] = row
  BY <1>2, RowChanged
<1>4. r = [base EXCEPT ![v] = [base[v] EXCEPT !.status = status, !.stamp = t]]
  <2>1. r = [base EXCEPT ![v].status = status, ![v].stamp = t]
    BY DEF UpdateSkillStatus
  <2> HIDE DEF base, r
  <2> QED
    BY <2>1, <1>1
<1> HIDE DEF base, r
<1>5. r = [base EXCEPT ![v] = row]
  BY <1>3, <1>4
<1> HIDE DEF row
<1>6. /\ DOMAIN r = DOMAIN s
      /\ r[v] = row
      /\ \A w \in DOMAIN s : w # v => r[w] = base[w]
      /\ r = [w \in DOMAIN r |-> r[w]]
  BY <1>1, <1>5
<1>7. row = Row(row) /\ row.status = status
  BY DEF row, Row
<1>8. \A w \in DOMAIN r : r[w] = Row(r[w])
  BY <1>1, <1>6, <1>7 DEF IsTable
<1>9. IsTable(r)
  BY <1>6, <1>8 DEF IsTable
<1>10. OnlyOne(r)
  BY <1>1, <1>6, <1>7 DEF OnlyOne, GoodTable
<1> QED
  BY <1>9, <1>10 DEF GoodTable, r

\* _apply_product_skill_operation, once its checks have passed.
LEMMA OperationKeeps ==
  ASSUME NEW s, GoodTable(s), NEW op, NEW t, Doable(s, op)
  PROVE  GoodTable(ApplyOperation(s, op, t))
<1>1. CASE op.op \in {"CREATE", "REVISE"}
  <2>1. ApplyOperation(s, op, t) = PutSkill(s, op.record)
    BY <1>1 DEF ApplyOperation
  <2> QED
    BY <2>1, PutKeeps
<1>2. CASE op.op \in {"TEST", "APPROVE", "DEPRECATE"}
  <2>1. op.version \in DOMAIN s
    BY <1>2 DEF Doable, OperationError, StatusError
  <2>2. \E status : ApplyOperation(s, op, t) = UpdateSkillStatus(s, op.version, status, t)
    BY <1>2 DEF ApplyOperation
  <2> QED
    BY <2>1, <2>2, UpdateKeeps
<1> QED
  BY <1>1, <1>2 DEF Doable

-----------------------------------------------------------------------------
(* Steps of a call that leave the tables alone.                            *)

\* A call that works for a state works for the one that is there.
Standing(t) ==
  /\ t.at \in {"lookup", "begin", "apply", "reject", "record"} => t.before = skills
  /\ t.at \in {"begin", "apply"} => t.proposal.expected \in {<<>>, <<skills>>}

\* A step within a call, from one task to the next.
Within(c, t) ==
  /\ Become(c, t)
  /\ GoodTask(t)
  /\ Standing(task[c]) => Standing(t)
  /\ UNCHANGED <<skills, receipts, raced>>
  /\ ~At(c, "idle")

\* The state hash is read: the call stands from here on.
LEMMA ReadStateWithin ==
  ASSUME TableInv, NEW c \in Clients, ReadState(c)
  PROVE  \E t : Within(c, t)
<1> DEFINE t == [at |-> "lookup", proposal |-> task[c].proposal, before |-> skills]
<1>1. Sound(task[c].proposal)
  BY DEF TableInv, GoodTask, ReadState, At, Idle
<1>2. GoodTask(t)
  BY <1>1 DEF GoodTask, Deciding
<1>3. Standing(t)
  BY DEF Standing
<1> QED
  BY <1>2, <1>3 DEF ReadState, Within, tables, At

\* An answer ends what a call stands for.
LEMMA AnswerWithin ==
  ASSUME NEW c \in Clients, NEW outcome, Answer(c, outcome), ~At(c, "idle"),
         UNCHANGED <<skills, receipts, raced>>
  PROVE  \E t : Within(c, t)
<1> DEFINE t == [at |-> "done", proposal |-> task[c].proposal, outcome |-> outcome]
<1>1. GoodTask(t) /\ Standing(t)
  BY DEF GoodTask, Answered, Standing
<1> QED
  BY <1>1 DEF Answer, Within

\* A refusal keeps the state the call stood for.
LEMMA RefuseWithin ==
  ASSUME NEW c \in Clients, NEW outcome, Refuse(c, outcome),
         outcome # "COMMITTED", task[c].at \in {"lookup", "begin", "apply"},
         UNCHANGED <<skills, receipts, raced>>
  PROVE  \E t : Within(c, t)
<1> DEFINE t == [at |-> "reject", proposal |-> task[c].proposal, before |-> task[c].before,
                 outcome |-> outcome]
<1>1. GoodTask(t) /\ (Standing(task[c]) => Standing(t))
  BY DEF GoodTask, Refused, Standing
<1> QED
  BY <1>1 DEF Refuse, Within, At

\* The prior receipt, and the comparison of states.
LEMMA LookupWithin ==
  ASSUME TableInv, NEW c \in Clients, AnswerPrior(c) \/ Proceed(c)
  PROVE  \E t : Within(c, t)
<1>1. task[c] = Deciding(task[c]) /\ Sound(task[c].proposal) /\ task[c].at = "lookup"
  BY DEF TableInv, GoodTask, AnswerPrior, Proceed, At, Idle
<1>2. CASE AnswerPrior(c)
  BY <1>1, <1>2, AnswerWithin DEF AnswerPrior, tables, At
<1>3. CASE Proceed(c) /\ Stale(c)
  BY <1>1, <1>3, RefuseWithin DEF Proceed, tables
<1>4. CASE Proceed(c) /\ ~Stale(c)
  <2> DEFINE t == [at |-> "begin", proposal |-> task[c].proposal, before |-> task[c].before]
  <2>1. [task[c] EXCEPT !.at = "begin"] = t
    BY <1>1 DEF Deciding
  <2>2. GoodTask(t)
    BY <1>1 DEF GoodTask, Deciding
  <2>3. Standing(task[c]) => Standing(t)
    BY <1>1, <1>4 DEF Standing, Stale
  <2> QED
    BY <1>1, <1>4, <2>1, <2>2, <2>3 DEF Proceed, Goto, Within, tables, At
<1> QED
  BY <1>2, <1>3, <1>4

\* The transaction starts from the table as it is.
LEMMA BeginWithin ==
  ASSUME TableInv, NEW c \in Clients, Begin(c)
  PROVE  \E t : Within(c, t)
<1>1. task[c] = Deciding(task[c]) /\ Sound(task[c].proposal) /\ task[c].at = "begin"
  BY DEF TableInv, GoodTask, Begin, At, Idle
<1>2. CASE Reused(task[c].proposal)
  BY <1>1, <1>2, RefuseWithin DEF Begin, tables
<1>3. CASE ~Reused(task[c].proposal)
  <2> DEFINE t == [at |-> "apply", proposal |-> task[c].proposal,
                   before |-> task[c].before, work |-> skills, next |-> 1]
  <2>1. GoodTask(t)
    BY <1>1 DEF GoodTask, Applying, TableInv
  <2>2. Standing(task[c]) => Standing(t)
    BY <1>1 DEF Standing
  <2> QED
    BY <1>1, <1>3, <2>1, <2>2 DEF Begin, Within, tables, At
<1> QED
  BY <1>2, <1>3

\* A refused operation is told apart from a commit.
LEMMA ErrorIsNone ==
  ASSUME NEW s, NEW op
  PROVE  OperationError(s, op) # "COMMITTED"
<1>1. PutError(s, op.record) # "COMMITTED"
  BY DEF PutError
<1>2. ReviseError(s, op) # "COMMITTED"
  BY <1>1 DEF ReviseError
<1>3. StatusError(s, op) # "COMMITTED"
  BY DEF StatusError
<1> QED
  BY <1>1, <1>2, <1>3 DEF OperationError

\* One operation.
LEMMA ApplyWithin ==
  ASSUME TableInv, NEW c \in Clients, Apply(c)
  PROVE  \E t : Within(c, t)
<1>1. PICK old : old = task[c]
  OBVIOUS
<1>2. PICK op : op = old.proposal.ops[old.next]
  OBVIOUS
<1>3. PICK work : work = ApplyOperation(old.work, op, old.proposal.at)
  OBVIOUS
<1> DEFINE t == [at |-> "apply", proposal |-> old.proposal, before |-> old.before,
                 work |-> work, next |-> old.next + 1]
<1>4. /\ old = Applying(old) /\ Sound(old.proposal) /\ old.at = "apply"
      /\ old.next \in Nat \ {0} /\ GoodTable(old.work)
  <2>1. old.at = "apply" /\ GoodTask(old)
    BY <1>1 DEF TableInv, Apply, At
  <2> QED
    BY <2>1 DEF GoodTask, Idle
<1>5. CASE OperationError(old.work, op) # ""
  BY <1>1, <1>2, <1>4, <1>5, ErrorIsNone, RefuseWithin DEF Apply, tables
<1>6. CASE OperationError(old.work, op) = ""
  <2>1. old.next \in DOMAIN old.proposal.ops
    <3>1. old.next <= Len(old.proposal.ops)
      BY <1>1 DEF Apply
    <3> QED
      BY <1>4, <3>1 DEF Sound
  <2>2. Doable(old.work, op)
    BY <1>2, <1>4, <1>6, <2>1 DEF Sound, Doable
  <2>3. GoodTable(work)
    BY <1>3, <1>4, <2>2, OperationKeeps
  <2>4. [old EXCEPT !.work = work, !.next = old.next + 1] = t
    <3>1. PICK m : m = [old EXCEPT !.work = work]
      OBVIOUS
    <3>2. m = [at |-> "apply", proposal |-> old.proposal, before |-> old.before,
               work |-> work, next |-> old.next]
      BY <1>4, <3>1 DEF Applying
    <3>3. [m EXCEPT !.next = old.next + 1] = t
      BY <3>2
    <3> QED
      BY <3>1, <3>3
  <2>5. GoodTask(t)
    BY <1>4, <2>3 DEF GoodTask, Applying
  <2>6. Standing(old) => Standing(t)
    BY <1>4 DEF Standing
  <2> HIDE DEF t
  <2>7. Become(c, t)
    BY <1>1, <1>2, <1>3, <1>6, <2>4 DEF Apply
  <2> QED
    BY <1>1, <1>4, <2>5, <2>6, <2>7 DEF Apply, Within, tables, At
<1> QED
  BY <1>5, <1>6

\* A rejection looks for the receipt of its key again.
LEMMA LookAgainWithin ==
  ASSUME TableInv, NEW c \in Clients, LookAgain(c)
  PROVE  \E t : Within(c, t)
<1>1. task[c] = Refused(task[c]) /\ task[c].at = "reject" /\ task[c].outcome # "COMMITTED"
  BY DEF TableInv, GoodTask, LookAgain, At, Idle
<1>2. CASE Known(task[c].proposal.key)
  BY <1>1, <1>2, AnswerWithin DEF LookAgain, tables, At
<1>3. CASE ~Known(task[c].proposal.key)
  <2> DEFINE t == [at |-> "record", proposal |-> task[c].proposal, before |-> task[c].before,
                   outcome |-> task[c].outcome]
  <2>1. [task[c] EXCEPT !.at = "record"] = t
    BY <1>1 DEF Refused
  <2>2. GoodTask(t)
    BY <1>1 DEF GoodTask, Refused
  <2>3. Standing(task[c]) => Standing(t)
    BY <1>1 DEF Standing
  <2> QED
    BY <1>1, <1>3, <2>1, <2>2, <2>3 DEF LookAgain, Goto, Within, tables, At
<1> QED
  BY <1>2, <1>3

\* Return and death end the call.
LEMMA EndWithin ==
  ASSUME TableInv, NEW c \in Clients, Return(c) \/ Crash(c)
  PROVE  \E t : Within(c, t)
<1>1. Become(c, Idle) /\ ~At(c, "idle") /\ UNCHANGED <<skills, receipts, raced>>
  BY DEF Return, Crash, tables, At
<1>2. GoodTask(Idle) /\ Standing(Idle)
  BY DEF GoodTask, Standing, Idle
<1> QED
  BY <1>1, <1>2 DEF Within

-----------------------------------------------------------------------------
(* One version is approved.                                                *)

\* A step of one client, wherever it leads.
LEMMA BecomeGood ==
  ASSUME TableInv, NEW c \in Clients, NEW t, Become(c, t), GoodTask(t), GoodTable(skills')
  PROVE  TableInv'
<1>1. /\ task' = [b \in Clients |-> task'[b]]
      /\ task'[c] = t
      /\ \A b \in Clients \ {c} : task'[b] = task[b]
  BY DEF TableInv, Become
<1>2. \A b \in Clients : GoodTask(task'[b])
  BY <1>1 DEF TableInv
<1> QED
  BY <1>1, <1>2 DEF TableInv

\* The initial table is empty.
LEMMA InitTable == Init => TableInv
<1> SUFFICES ASSUME Init PROVE TableInv
  OBVIOUS
<1>1. GoodTable(NoSkills)
  BY DEF GoodTable, IsTable, OnlyOne, NoSkills
<1>2. GoodTask(Idle)
  BY DEF GoodTask
<1> QED
  BY <1>1, <1>2 DEF Init, TableInv

\* A proposal of one operation is one the reducers know.
LEMMA SingleSound ==
  ASSUME NEW op, NEW at, op.op \in {"CREATE", "REVISE", "TEST", "APPROVE", "DEPRECATE"}
  PROVE  Sound(Single(op, at))
<1>1. Single(op, at).ops = <<op>>
  BY DEF Single
<1>2. Len(<<op>>) = 1 /\ DOMAIN <<op>> = 1 .. 1 /\ <<op>>[1] = op
  OBVIOUS
<1> QED
  BY <1>1, <1>2 DEF Sound

\* Every call that starts makes a proposal the reducers know.
Calls(c) ==
  \/ \E content \in Contents : CreateSkill(c, RecordOf(1, "DRAFT", content, now))
  \/ \E record \in Packages : CreateSkill(c, record)
  \/ \E content \in Contents : ReviseSkill(c, content)
  \/ \E v \in DOMAIN skills, by \in Actors : MarkSkillTested(c, v, by) \/ ApproveSkill(c, v, by)
  \/ \E v \in DOMAIN skills : DeprecateSkill(c, v)
  \/ \E proposal \in Direct : Propose(c, proposal)
LEMMA CallsPropose ==
  ASSUME NEW c \in Clients, Calls(c)
  PROVE  \E proposal : Sound(proposal) /\ Propose(c, proposal)
<1>1. ASSUME NEW record, CreateSkill(c, record)
      PROVE  \E proposal : Sound(proposal) /\ Propose(c, proposal)
  BY <1>1, SingleSound DEF CreateSkill
<1>2. ASSUME NEW content \in Contents, ReviseSkill(c, content)
      PROVE  \E proposal : Sound(proposal) /\ Propose(c, proposal)
  BY <1>2, SingleSound DEF ReviseSkill
<1>3. ASSUME NEW v \in DOMAIN skills, NEW by \in Actors,
             MarkSkillTested(c, v, by) \/ ApproveSkill(c, v, by)
      PROVE  \E proposal : Sound(proposal) /\ Propose(c, proposal)
  BY <1>3, SingleSound DEF MarkSkillTested, ApproveSkill
<1>4. ASSUME NEW v \in DOMAIN skills, DeprecateSkill(c, v)
      PROVE  \E proposal : Sound(proposal) /\ Propose(c, proposal)
  BY <1>4, SingleSound DEF DeprecateSkill
<1>5. ASSUME NEW proposal \in Direct, Propose(c, proposal)
      PROVE  \E p : Sound(p) /\ Propose(c, p)
  BY <1>5, DirectAssumption DEF Sound
<1> QED
  BY <1>1, <1>2, <1>3, <1>4, <1>5 DEF Calls

\* A rejection that is recorded writes no skill.
LEMMA RecordRejectionTask ==
  ASSUME NEW c \in Clients, RecordRejection(c)
  PROVE  /\ \E outcome : Answer(c, outcome)
         /\ UNCHANGED <<skills, raced>>
         /\ At(c, "record")
         /\ \/ UNCHANGED receipts
            \/ \E outcome : receipts' = Append(receipts, Receipt(c, outcome, task[c].before))
BY DEF RecordRejection

\* An answer is a task.
LEMMA AnswerGood ==
  ASSUME TableInv, NEW c \in Clients, NEW outcome, Answer(c, outcome), GoodTable(skills')
  PROVE  TableInv'
<1> DEFINE t == [at |-> "done", proposal |-> task[c].proposal, outcome |-> outcome]
<1>1. GoodTask(t)
  BY DEF GoodTask, Answered
<1> QED
  BY <1>1, BecomeGood DEF Answer

\* The steps of a call that write nothing.
Proceeds(c) ==
  \/ ReadState(c) \/ AnswerPrior(c) \/ Proceed(c) \/ Begin(c) \/ Apply(c)
  \/ LookAgain(c) \/ Return(c) \/ Crash(c)
LEMMA StepsWithin ==
  ASSUME TableInv, NEW c \in Clients, Proceeds(c)
  PROVE  \E t : Within(c, t)
BY ReadStateWithin, LookupWithin, BeginWithin, ApplyWithin, LookAgainWithin, EndWithin
   DEF Proceeds

\* Whatever happens next is one of these.
LEMMA NextCases ==
  Next => \/ \E c \in Clients : Calls(c) \/ Proceeds(c) \/ Commit(c) \/ RecordRejection(c)
          \/ Tick
BY DEF Next, Calls, Proceeds

\* Every step keeps the table a table with one approved version.
LEMMA NextTable == TableInv /\ [Next]_vars => TableInv'
<1> SUFFICES ASSUME TableInv, [Next]_vars PROVE TableInv'
  OBVIOUS
<1>1. GoodTable(skills)
  BY DEF TableInv
<1>2. CASE UNCHANGED <<skills, task>>
  BY <1>2 DEF TableInv
<1>3. ASSUME NEW c \in Clients, Calls(c)
      PROVE  TableInv'
  <2>1. PICK proposal : Sound(proposal) /\ Propose(c, proposal)
    BY <1>3, CallsPropose
  <2>2. GoodTask([at |-> "hash", proposal |-> proposal])
    BY <2>1 DEF GoodTask, Calling
  <2> QED
    BY <1>1, <2>1, <2>2, BecomeGood DEF Propose, tables
<1>4. ASSUME NEW c \in Clients, Proceeds(c)
      PROVE  TableInv'
  BY <1>1, <1>4, StepsWithin, BecomeGood DEF Within
<1>5. ASSUME NEW c \in Clients, Commit(c)
      PROVE  TableInv'
  <2>1. task[c].at = "apply" /\ GoodTask(task[c])
    BY <1>5 DEF Commit, At, TableInv
  <2>2. GoodTable(task[c].work)
    BY <2>1 DEF GoodTask, Idle
  <2>3. GoodTable(skills') /\ Answer(c, "COMMITTED")
    BY <1>5, <2>2 DEF Commit
  <2> QED
    BY <2>3, AnswerGood
<1>6. ASSUME NEW c \in Clients, RecordRejection(c)
      PROVE  TableInv'
  BY <1>1, <1>6, RecordRejectionTask, AnswerGood
<1> QED
  BY <1>2, <1>3, <1>4, <1>5, <1>6, NextCases DEF vars, tables, Tick

\* At most one version of a skill is approved, in the table and inside every
\* transaction: put_skill and update_skill_status never leave it to the index.
THEOREM AtMostOneApproved == Spec => []OneApproved
<1>1. TableInv => OneApproved
  <2> SUFFICES ASSUME TableInv PROVE OneApproved
    OBVIOUS
  <2>1. OnlyOne(skills)
    BY DEF TableInv, GoodTable
  <2>2. ASSUME NEW c \in Clients, At(c, "apply")
        PROVE  OnlyOne(task[c].work)
    BY <2>2 DEF TableInv, GoodTask, GoodTable, At, Idle
  <2> QED
    BY <2>1, <2>2 DEF OneApproved, OnlyOne
<1> QED
  BY InitTable, NextTable, <1>1, PTL DEF Spec

-----------------------------------------------------------------------------
(* The receipts are one history of states, as long as no calls overlap.    *)

\* The invariant behind ReceiptsChain: without an overlap one call runs at a
\* time, and it works for the state that is there.
ChainInv ==
  /\ \E S : receipts \in Seq(S)
  /\ ~raced =>
       /\ \A b, c \in Clients : ~At(b, "idle") /\ ~At(c, "idle") => b = c
       /\ \A c \in Clients : Standing(task[c])
  /\ ReceiptsChain
Inv == TableInv /\ ChainInv

\* Where one client goes, the others stay.
LEMMA OthersStay ==
  ASSUME TableInv, NEW c \in Clients, NEW t, Become(c, t)
  PROVE  /\ task'[c] = t
         /\ \A b \in Clients \ {c} : task'[b] = task[b]
BY DEF TableInv, Become

\* A step within a call leaves the chain as it is.
LEMMA WithinChain ==
  ASSUME Inv, NEW c \in Clients, NEW t, Within(c, t)
  PROVE  ChainInv'
<1>1. /\ task'[c] = t
      /\ \A b \in Clients \ {c} : task'[b] = task[b]
      /\ UNCHANGED <<skills, receipts, raced>>
      /\ Standing(task[c]) => Standing(t)
      /\ ~At(c, "idle")
  BY OthersStay DEF Inv, Within
<1>2. ASSUME ~raced'
      PROVE  /\ \A a, b \in Clients : ~At(a, "idle")' /\ ~At(b, "idle")' => a = b
             /\ \A b \in Clients : Standing(task[b])'
  <2>1. \A a, b \in Clients : ~At(a, "idle")' /\ ~At(b, "idle")' => a = b
    BY <1>1, <1>2 DEF Inv, ChainInv, At
  <2>2. \A b \in Clients : Standing(task'[b])
    BY <1>1, <1>2 DEF Inv, ChainInv
  <2>3. \A b \in Clients : Standing(task[b])'
    BY <1>1, <2>2 DEF Standing
  <2> QED
    BY <2>1, <2>3
<1>3. ReceiptsChain'
  BY <1>1 DEF Inv, ChainInv, ReceiptsChain
<1> QED
  BY <1>1, <1>2, <1>3 DEF Inv, ChainInv

\* The first call of several to start finds nobody else running.
LEMMA ProposeChain ==
  ASSUME Inv, NEW c \in Clients, NEW proposal, Propose(c, proposal)
  PROVE  ChainInv'
<1> DEFINE t == [at |-> "hash", proposal |-> proposal]
<1>1. /\ task'[c] = t
      /\ \A b \in Clients \ {c} : task'[b] = task[b]
      /\ UNCHANGED <<skills, receipts>>
      /\ raced' = (raced \/ \E b \in Clients : ~At(b, "idle"))
  BY OthersStay DEF Inv, Propose, tables
<1>2. ASSUME ~raced'
      PROVE  /\ ~raced
             /\ \A a, b \in Clients : ~At(a, "idle")' /\ ~At(b, "idle")' => a = b
             /\ \A b \in Clients : Standing(task[b])'
  <2>1. ~raced /\ \A b \in Clients : At(b, "idle")
    BY <1>1, <1>2
  <2>2. \A b \in Clients \ {c} : task'[b].at = "idle"
    BY <1>1, <2>1 DEF At
  <2>3. task'[c].at = "hash"
    BY <1>1
  <2> QED
    BY <2>1, <2>2, <2>3 DEF At, Standing
<1>3. ReceiptsChain'
  BY <1>1, <1>2 DEF Inv, ChainInv, ReceiptsChain
<1> QED
  BY <1>1, <1>2, <1>3 DEF Inv, ChainInv

\* Appending to the receipts.
LEMMA ReceiptAppended ==
  ASSUME NEW S, NEW s \in Seq(S), NEW e
  PROVE  /\ Append(s, e) \in Seq(S \cup {e})
         /\ Len(s) \in Nat
         /\ Len(Append(s, e)) = Len(s) + 1
         /\ DOMAIN s = 1 .. Len(s)
         /\ DOMAIN Append(s, e) = 1 .. Len(s) + 1
         /\ \A i \in 1 .. Len(s) : Append(s, e)[i] = s[i]
         /\ Append(s, e)[Len(s) + 1] = e
         /\ Append(s, e) # <<>>
         /\ s = <<>> <=> Len(s) = 0
<1>1. s \in Seq(S \cup {e})
  OBVIOUS
<1> QED
  BY <1>1, AppendProperties

\* A receipt that starts from the table and ends in the next one extends the
\* chain; the call that writes it is over.
LEMMA ExtendChain ==
  ASSUME Inv, NEW c \in Clients, NEW outcome, Answer(c, outcome), ~At(c, "idle"),
         NEW r, receipts' = Append(receipts, r), raced' = raced,
         ~raced => /\ r.before = skills
                   /\ r.after = skills'
                   /\ r.outcome = "COMMITTED" => r.proposal.expected \in {<<>>, <<skills>>}
  PROVE  ChainInv'
<1>1. PICK S : receipts \in Seq(S)
  BY DEF Inv, ChainInv
<1>n. PICK n : n = Len(receipts)
  OBVIOUS
<1>2. /\ receipts' \in Seq(S \cup {r})
      /\ n \in Nat
      /\ Len(receipts') = n + 1
      /\ DOMAIN receipts = 1 .. n
      /\ DOMAIN receipts' = 1 .. n + 1
      /\ \A i \in 1 .. n : receipts'[i] = receipts[i]
      /\ receipts'[n + 1] = r
      /\ receipts' # <<>>
      /\ receipts = <<>> <=> n = 0
  BY <1>1, <1>n, ReceiptAppended
<1>3. /\ task'[c] = [at |-> "done", proposal |-> task[c].proposal, outcome |-> outcome]
      /\ \A b \in Clients \ {c} : task'[b] = task[b]
  BY OthersStay DEF Inv, Answer
<1>4. ASSUME ~raced'
      PROVE  /\ \A a, b \in Clients : ~At(a, "idle")' /\ ~At(b, "idle")' => a = b
             /\ \A b \in Clients : Standing(task[b])'
  <2>1. \A b \in Clients \ {c} : task'[b].at = "idle"
    BY <1>3, <1>4 DEF Inv, ChainInv, At
  <2>2. task'[c].at = "done"
    BY <1>3
  <2> QED
    BY <2>1, <2>2 DEF At, Standing
<1>5. ASSUME ~raced'
      PROVE  /\ \A i \in DOMAIN receipts' :
                  /\ receipts'[i].before = IF i = 1 THEN NoSkills ELSE receipts'[i - 1].after
                  /\ receipts'[i].outcome = "COMMITTED" =>
                       receipts'[i].proposal.expected \in {<<>>, <<receipts'[i].before>>}
             /\ skills' = receipts'[Len(receipts')].after
  <2>1. /\ ~raced
        /\ r.before = skills
        /\ r.after = skills'
        /\ r.outcome = "COMMITTED" => r.proposal.expected \in {<<>>, <<skills>>}
    BY <1>5
  <2>2. /\ \A i \in DOMAIN receipts :
             /\ receipts[i].before = IF i = 1 THEN NoSkills ELSE receipts[i - 1].after
             /\ receipts[i].outcome = "COMMITTED" =>
                  receipts[i].proposal.expected \in {<<>>, <<receipts[i].before>>}
        /\ skills = IF receipts = <<>> THEN NoSkills ELSE receipts[n].after
    BY <1>n, <2>1 DEF Inv, ChainInv, ReceiptsChain
  <2>3. skills' = receipts'[Len(receipts')].after
    BY <1>2, <2>1
  <2>4. ASSUME NEW i \in 1 .. n
        PROVE  /\ receipts'[i].before = IF i = 1 THEN NoSkills ELSE receipts'[i - 1].after
               /\ receipts'[i].outcome = "COMMITTED" =>
                    receipts'[i].proposal.expected \in {<<>>, <<receipts'[i].before>>}
    <3>1. i \in DOMAIN receipts /\ receipts'[i] = receipts[i]
      BY <1>2
    <3>2. i # 1 => receipts'[i - 1] = receipts[i - 1]
      BY <1>2
    <3> QED
      BY <2>2, <3>1, <3>2
  <2>5. r.before = IF n + 1 = 1 THEN NoSkills ELSE receipts'[n].after
    <3>1. CASE n = 0
      BY <1>2, <2>1, <2>2, <3>1
    <3>2. CASE n # 0
      <4>1. receipts'[n] = receipts[n]
        BY <1>2, <3>2
      <4> QED
        BY <1>2, <2>1, <2>2, <3>2, <4>1
    <3> QED
      BY <3>1, <3>2
  <2>6. ASSUME NEW i \in DOMAIN receipts'
        PROVE  /\ receipts'[i].before = IF i = 1 THEN NoSkills ELSE receipts'[i - 1].after
               /\ receipts'[i].outcome = "COMMITTED" =>
                    receipts'[i].proposal.expected \in {<<>>, <<receipts'[i].before>>}
    <3>1. CASE i \in 1 .. n
      BY <3>1, <2>4
    <3>2. CASE i = n + 1
      <4>1. receipts'[i] = r
        BY <1>2, <3>2
      <4>2. i - 1 = n
        BY <1>2, <3>2
      <4> QED
        BY <2>1, <2>5, <3>2, <4>1, <4>2
    <3> QED
      BY <1>2, <3>1, <3>2
  <2> QED
    BY <2>3, <2>6
<1>6. ReceiptsChain'
  BY <1>2, <1>5 DEF ReceiptsChain
<1> QED
  BY <1>2, <1>4, <1>6 DEF ChainInv

\* A commit: the state before is the one that is there.
LEMMA CommitChain ==
  ASSUME Inv, NEW c \in Clients, Commit(c)
  PROVE  ChainInv'
<1> DEFINE r == Receipt(c, "COMMITTED", task[c].work)
<1>1. /\ r.before = task[c].before
      /\ r.after = task[c].work
      /\ r.proposal = task[c].proposal
  BY DEF Receipt
<1>2. ~raced => /\ task[c].before = skills
                /\ task[c].proposal.expected \in {<<>>, <<skills>>}
  BY DEF Commit, At, Inv, ChainInv, Standing
<1>3. /\ skills' = task[c].work
      /\ receipts' = Append(receipts, r)
      /\ Answer(c, "COMMITTED")
      /\ ~At(c, "idle")
      /\ raced' = raced
  BY DEF Commit, At
<1> HIDE DEF r
<1> QED
  BY <1>1, <1>2, <1>3, ExtendChain

\* A rejection: the state before is also the state after.
LEMMA RejectionChain ==
  ASSUME Inv, NEW c \in Clients, RecordRejection(c)
  PROVE  ChainInv'
<1>1. ~raced => task[c].before = skills
  BY DEF RecordRejection, At, Inv, ChainInv, Standing
<1>2. ~At(c, "idle") /\ UNCHANGED <<skills, raced>>
  BY DEF RecordRejection, At
<1>3. CASE Reused(task[c].proposal)
  <2>1. Answer(c, "ERROR") /\ UNCHANGED receipts
    BY <1>3 DEF RecordRejection
  <2>2. PICK t : Within(c, t)
    BY <1>2, <2>1, AnswerWithin
  <2> QED
    BY <2>2, WithinChain
<1>4. CASE ~Reused(task[c].proposal)
  <2>1. PICK r : r = Receipt(c, task[c].outcome, task[c].before)
    OBVIOUS
  <2>2. receipts' = Append(receipts, r) /\ Answer(c, task[c].outcome)
    BY <1>4, <2>1 DEF RecordRejection
  <2>3. /\ r.before = task[c].before
        /\ r.after = task[c].before
        /\ r.outcome = task[c].outcome
    BY <2>1 DEF Receipt
  <2>4. task[c].outcome # "COMMITTED"
    <3>1. task[c].at = "record" /\ GoodTask(task[c])
      BY DEF RecordRejection, At, Inv, TableInv
    <3> QED
      BY <3>1 DEF GoodTask, Idle
  <2> QED
    BY <1>1, <1>2, <2>2, <2>3, <2>4, ExtendChain
<1> QED
  BY <1>3, <1>4

\* The initial chain is empty.
LEMMA InitChain == Init => ChainInv
<1> SUFFICES ASSUME Init PROVE ChainInv
  OBVIOUS
<1>1. <<>> \in Seq({})
  OBVIOUS
<1>2. Standing(Idle) /\ Idle.at = "idle"
  BY DEF Standing, Idle
<1>3. ReceiptsChain
  BY DEF Init, ReceiptsChain
<1> QED
  BY <1>1, <1>2, <1>3 DEF Init, ChainInv, At

\* Every step keeps the invariant.
LEMMA NextInv == Inv /\ [Next]_vars => Inv'
<1> SUFFICES ASSUME Inv, [Next]_vars PROVE Inv'
  OBVIOUS
<1>1. TableInv'
  BY NextTable DEF Inv
<1>2. ASSUME UNCHANGED <<skills, receipts, task, raced>>
      PROVE  ChainInv'
  BY <1>2 DEF Inv, ChainInv, Standing, At, ReceiptsChain
<1>3. ASSUME NEW c \in Clients, Calls(c)
      PROVE  ChainInv'
  BY <1>3, CallsPropose, ProposeChain
<1>4. ASSUME NEW c \in Clients, Proceeds(c)
      PROVE  ChainInv'
  BY <1>4, StepsWithin, WithinChain DEF Inv
<1>5. ChainInv'
  BY <1>2, <1>3, <1>4, CommitChain, RejectionChain, NextCases DEF vars, tables, Tick
<1> QED
  BY <1>1, <1>5 DEF Inv

\* Without overlapping calls the product receipts are one history of states:
\* each tells the state before it and a guarded proposal was applied to the
\* state it named, whatever was refused, retried or interrupted.
THEOREM ReceiptsAreOneHistory == Spec => []ReceiptsChain
<1>1. Init => Inv
  BY InitTable, InitChain DEF Inv
<1>2. Inv => ReceiptsChain
  BY DEF Inv, ChainInv
<1> QED
  BY <1>1, NextInv, <1>2, PTL DEF Spec

-----------------------------------------------------------------------------
(* What a proposal does to the table, operation by operation.              *)

IsPut(op) == op.op \in {"CREATE", "REVISE"}
Versioned(op) == op.op = "CREATE" => op.record.version \in Nat

\* Versions are numbers, and one of them is the last, if there are any.
Numbered(s) ==
  /\ DOMAIN s \subseteq Nat
  /\ DOMAIN s # {} => \E m \in DOMAIN s : \A w \in DOMAIN s : w <= m

\* Versions stay, with their contents.
Keeps(s, r) ==
  DOMAIN s \subseteq DOMAIN r /\ \A v \in DOMAIN s : r[v].content = s[v].content

\* What an operation brought is there.
Held(op, s) ==
  IsPut(op) => /\ op.record.version \in DOMAIN s
               /\ s[op.record.version].content = op.record.content
               /\ op.op = "REVISE" => op.record.version = op.version + 1

\* The latest version is the last one.
LEMMA LatestIsLast ==
  ASSUME NEW s, Numbered(s), DOMAIN s # {}
  PROVE  Latest(s) \in DOMAIN s /\ \A w \in DOMAIN s : w <= Latest(s)
BY DEF Numbered, Latest

\* Deprecation changes no content.
KeepsContents(s, d) == DOMAIN d = DOMAIN s /\ \A w \in DOMAIN s : d[w].content = s[w].content
LEMMA DeprecateKeeps ==
  ASSUME NEW s, IsTable(s), NEW v, NEW t
  PROVE  KeepsContents(s, DeprecateOthers(s, v, t))
<1>a. PICK d : d = DeprecateOthers(s, v, t)
  OBVIOUS
<1>1. DOMAIN d = DOMAIN s
  BY <1>a DEF DeprecateOthers
<1>2. ASSUME NEW w \in DOMAIN s PROVE d[w].content = s[w].content
  <2>1. s[w] = Row(s[w])
    BY DEF IsTable
  <2>2. CASE w # v /\ s[w].status = "APPROVED"
    <3>1. d[w] = [s[w] EXCEPT !.status = "DEPRECATED", !.stamp = t]
      BY <1>a, <2>2 DEF DeprecateOthers
    <3>2. d[w] = [status |-> "DEPRECATED", content |-> s[w].content, stamp |-> t]
      BY <3>1, <2>1, RowChanged
    <3> QED
      BY <3>2
  <2>3. CASE ~(w # v /\ s[w].status = "APPROVED")
    BY <1>a, <2>3 DEF DeprecateOthers
  <2> QED
    BY <2>2, <2>3
<1> QED
  BY <1>a, <1>1, <1>2 DEF KeepsContents

\* A version more.
LEMMA NumberedMore ==
  ASSUME NEW s, Numbered(s), NEW v \in Nat, NEW r, DOMAIN r = DOMAIN s \cup {v}
  PROVE  Numbered(r)
<1>1. CASE DOMAIN s = {}
  BY <1>1 DEF Numbered
<1>2. CASE DOMAIN s # {}
  <2>1. PICK m \in DOMAIN s : \A w \in DOMAIN s : w <= m
    BY <1>2 DEF Numbered
  <2>2. m \in Nat /\ DOMAIN s \subseteq Nat
    BY <2>1 DEF Numbered
  <2>3. CASE v <= m
    BY <2>1, <2>2, <2>3 DEF Numbered
  <2>4. CASE ~(v <= m)
    <3>1. \A w \in DOMAIN r : w <= v
      BY <2>1, <2>2, <2>4
    <3> QED
      BY <2>2, <3>1 DEF Numbered
  <2> QED
    BY <2>3, <2>4
<1> QED
  BY <1>1, <1>2

\* put_skill, of a record that is refused if its version has another content.
LEMMA PutDoes ==
  ASSUME NEW s, GoodTable(s), Numbered(s), NEW record, record.version \in Nat,
         PutError(s, record) = ""
  PROVE  /\ DOMAIN PutSkill(s, record) = DOMAIN s \cup {record.version}
         /\ Keeps(s, PutSkill(s, record)) /\ Numbered(PutSkill(s, record))
         /\ PutSkill(s, record)[record.version].content = record.content
         /\ record.version \notin DOMAIN s /\ record.status # "APPROVED"
              => PutSkill(s, record) = Add(s, record)
<1>a. PICK r, v : r = PutSkill(s, record) /\ v = record.version
  OBVIOUS
<1>1. CASE v \in DOMAIN s
  <2>1. r = s
    BY <1>a, <1>1 DEF PutSkill
  <2>2. s[v].content = record.content
    BY <1>a, <1>1 DEF PutError
  <2> QED
    BY <1>a, <1>1, <2>1, <2>2 DEF Keeps
<1>2. CASE v \notin DOMAIN s
  <2>1. PICK b : b = IF record.status = "APPROVED" THEN DeprecateOthers(s, v, now) ELSE s
    OBVIOUS
  <2>2. r = Add(b, record)
    BY <1>a, <1>2, <2>1 DEF PutSkill
  <2>3. DOMAIN b = DOMAIN s /\ \A w \in DOMAIN s : b[w].content = s[w].content
    <3>1. CASE record.status # "APPROVED"
      BY <2>1, <3>1
    <3>2. CASE record.status = "APPROVED"
      <4>1. b = DeprecateOthers(s, v, now)
        BY <2>1, <3>2
      <4>2. KeepsContents(s, b)
        BY <4>1, DeprecateKeeps DEF GoodTable
      <4> QED
        BY <4>2 DEF KeepsContents
    <3> QED
      BY <3>1, <3>2
  <2>4. /\ DOMAIN r = DOMAIN s \cup {v}
        /\ r[v] = Row(record)
        /\ \A w \in DOMAIN s : r[w] = b[w]
    BY <1>a, <1>2, <2>2, <2>3 DEF Add
  <2>5. Row(record).content = record.content
    BY DEF Row
  <2>6. Keeps(s, r)
    BY <2>3, <2>4 DEF Keeps
  <2>7. Numbered(r)
    BY <1>a, <2>4, NumberedMore
  <2>8. record.status # "APPROVED" => r = Add(s, record)
    BY <2>1, <2>2
  <2> QED
    BY <1>a, <2>4, <2>5, <2>6, <2>7, <2>8
<1> QED
  BY <1>1, <1>2

\* update_skill_status changes neither versions nor contents.
LEMMA UpdateDoes ==
  ASSUME NEW s, GoodTable(s), NEW v \in DOMAIN s, NEW status, NEW t
  PROVE  /\ DOMAIN UpdateSkillStatus(s, v, status, t) = DOMAIN s
         /\ Keeps(s, UpdateSkillStatus(s, v, status, t))
<1>a. PICK r : r = UpdateSkillStatus(s, v, status, t)
  OBVIOUS
<1>1. PICK b : b = IF status = "APPROVED" THEN DeprecateOthers(s, v, t) ELSE s
  OBVIOUS
<1>2. IsTable(b) /\ DOMAIN b = DOMAIN s /\ \A w \in DOMAIN s : b[w].content = s[w].content
  <2>1. CASE status # "APPROVED"
    BY <1>1, <2>1 DEF GoodTable
  <2>2. CASE status = "APPROVED"
    <3>1. b = DeprecateOthers(s, v, t)
      BY <1>1, <2>2
    <3>2. KeepsContents(s, b)
      BY <3>1, DeprecateKeeps DEF GoodTable
    <3>3. IsTable(b)
      BY <3>1, OthersDeprecated DEF GoodTable
    <3> QED
      BY <3>2, <3>3 DEF KeepsContents
  <2> QED
    BY <2>1, <2>2
<1>3. r = [b EXCEPT ![v] = [b[v] EXCEPT !.status = status, !.stamp = t]]
  <2>1. r = [b EXCEPT ![v].status = status, ![v].stamp = t]
    BY <1>a, <1>1 DEF UpdateSkillStatus
  <2> QED
    BY <1>2, <2>1
<1>4. [b[v] EXCEPT !.status = status, !.stamp = t].content = b[v].content
  <2>1. b[v] = Row(b[v])
    BY <1>2 DEF IsTable
  <2>2. [b[v] EXCEPT !.status = status, !.stamp = t] =
           [status |-> status, content |-> b[v].content, stamp |-> t]
    BY <2>1, RowChanged
  <2> QED
    BY <2>2
<1>5. DOMAIN r = DOMAIN b /\ \A w \in DOMAIN b : r[w].content = b[w].content
  <2>1. DOMAIN r = DOMAIN b /\ \A w \in DOMAIN b : w # v => r[w] = b[w]
    BY <1>3
  <2>2. r[v] = [b[v] EXCEPT !.status = status, !.stamp = t]
    BY <1>2, <1>3
  <2> QED
    BY <1>4, <2>1, <2>2
<1> QED
  BY <1>a, <1>2, <1>5 DEF Keeps

\* What an operation that is not refused makes of s: what it brings is there,
\* and nothing is gone; a revision brings a version that was not there; and the
\* replay of one that brings a new version, not approved, does the same.
Does(s, op, t, r) ==
  /\ DOMAIN r = DOMAIN s \cup {v \in {op.record.version} : IsPut(op)}
  /\ Keeps(s, r) /\ Numbered(r) /\ Held(op, r)
  /\ op.op = "REVISE" => op.version \in DOMAIN s /\ op.version + 1 \notin DOMAIN s
  /\ (IsPut(op) => op.record.status # "APPROVED" /\ op.record.version \notin DOMAIN s)
       => r = ReplayOperation(s, op, t)
LEMMA OperationDoes ==
  ASSUME NEW s, GoodTable(s), Numbered(s), NEW op, NEW t, Doable(s, op), Versioned(op)
  PROVE  Does(s, op, t, ApplyOperation(s, op, t))
<1>a. PICK r : r = ApplyOperation(s, op, t)
  OBVIOUS
<1>1. CASE IsPut(op)
  <2>1. /\ op.record.version \in Nat /\ PutError(s, op.record) = ""
        /\ op.op = "REVISE" => /\ op.record.version = op.version + 1
                               /\ op.version \in DOMAIN s /\ op.version + 1 \notin DOMAIN s
    <3>1. CASE op.op = "CREATE"
      BY <3>1 DEF Doable, OperationError, Versioned
    <3>2. CASE op.op = "REVISE"
      <4>1. ReviseError(s, op) = ""
        BY <3>2 DEF Doable, OperationError
      <4>2. op.version \in DOMAIN s /\ Latest(s) = op.version
        BY <4>1 DEF ReviseError
      <4>3. op.record.version = op.version + 1 /\ PutError(s, op.record) = ""
        BY <4>1, <4>2 DEF ReviseError
      <4>4. op.version \in Nat /\ \A w \in DOMAIN s : w \in Nat /\ w <= op.version
        BY <4>2, LatestIsLast DEF Numbered
      <4>5. op.version + 1 \notin DOMAIN s /\ op.version + 1 \in Nat
        BY <4>4
      <4>6. op.record.version \in Nat
        BY <4>3, <4>5
      <4> QED
        BY <3>2, <4>2, <4>3, <4>5, <4>6
    <3> QED
      BY <1>1, <3>1, <3>2 DEF IsPut
  <2>2. r = PutSkill(s, op.record)
    BY <1>a, <1>1 DEF ApplyOperation, IsPut
  <2>3. /\ DOMAIN r = DOMAIN s \cup {op.record.version} /\ Keeps(s, r) /\ Numbered(r)
        /\ r[op.record.version].content = op.record.content
        /\ op.record.version \notin DOMAIN s /\ op.record.status # "APPROVED" => r = Add(s, op.record)
    BY <2>1, <2>2, PutDoes
  <2>4. Held(op, r)
    BY <2>1, <2>3 DEF Held
  <2>5. op.record.status # "APPROVED" => ReplayOperation(s, op, t) = Add(s, op.record)
    <3>1. CASE op.op = "CREATE"
      BY <3>1 DEF ReplayOperation, ReplayPut
    <3>2. CASE op.op = "REVISE"
      BY <3>2 DEF ReplayOperation
    <3> QED
      BY <1>1, <3>1, <3>2 DEF IsPut
  <2> QED
    BY <1>a, <1>1, <2>1, <2>3, <2>4, <2>5 DEF Does
<1>2. CASE ~IsPut(op)
  <2>1. op.op \in {"TEST", "APPROVE", "DEPRECATE"}
    BY <1>2 DEF IsPut, Doable
  <2>2. op.version \in DOMAIN s
    BY <2>1 DEF Doable, OperationError, StatusError
  <2>3. \E status : r = UpdateSkillStatus(s, op.version, status, t)
    BY <1>a, <2>1 DEF ApplyOperation
  <2>4. DOMAIN r = DOMAIN s /\ Keeps(s, r)
    BY <2>2, <2>3, UpdateDoes
  <2>5. Numbered(r) /\ Held(op, r)
    BY <1>2, <2>4 DEF Numbered, Held
  <2>6. r = ReplayOperation(s, op, t)
    BY <1>a, <2>1 DEF ApplyOperation, ReplayOperation, UpdateSkillStatus, SetRow
  <2> QED
    BY <1>a, <1>2, <2>1, <2>4, <2>5, <2>6 DEF Does
<1> QED
  BY <1>1, <1>2

\* Induction over the numbers, for a set instead of a predicate.
LEMMA NatSetInduction ==
  ASSUME NEW S, 0 \in S, \A n \in Nat : n \in S => n + 1 \in S
  PROVE Nat \subseteq S
<1> DEFINE Bad == Nat \ S
<1> SUFFICES ASSUME Bad # {} PROVE FALSE
  OBVIOUS
<1>1. PICK n \in Bad : \A m \in Bad : ~ (<<m, n>> \in OpToRel(<, Nat))
  BY NatLessThanWellFounded, WFMin, Bad \subseteq Nat
<1>2. n \in Nat /\ n # 0
  BY <1>1
<1>3. n - 1 \in Nat /\ n - 1 < n /\ (n - 1) + 1 = n
  BY <1>2
<1>4. n - 1 \in Bad
  BY <1>1, <1>3
<1> QED
  BY <1>1, <1>2, <1>3, <1>4 DEF OpToRel

\* The replay of a proposal goes operation by operation.
LEMMA ReplayOperationsStep ==
  ASSUME NEW s, NEW p, Len(p.ops) \in Nat
  PROVE  LET t == ReplayOperations(s, p)
         IN t[0] = s /\ \A i \in 1 .. Len(p.ops) : t[i] = ReplayOperation(t[i - 1], p.ops[i], p.at)
<1> DEFINE N == Len(p.ops)
           Grows(f, n) == f = [i \in 0 .. n |-> IF i = 0 THEN s ELSE ReplayOperation(f[i - 1], p.ops[i], p.at)]
           S == {n \in Nat : \E f : Grows(f, n)}
<1>1. Nat \subseteq S
  <2>1. 0 \in S
    <3>1. Grows([i \in 0 .. 0 |-> s], 0)
      BY Z3
    <3> QED
      BY <3>1
  <2>2. ASSUME NEW m \in Nat, m \in S PROVE m + 1 \in S
    <3>a. PICK n : n = m + 1
      OBVIOUS
    <3>1. n \in Nat /\ n # 0 /\ n - 1 = m
      BY <3>a
    <3>2. PICK f : Grows(f, n - 1)
      BY <2>2, <3>1
    <3> DEFINE g == [i \in 0 .. n |-> IF i = n THEN ReplayOperation(f[n - 1], p.ops[n], p.at) ELSE f[i]]
    <3>3. \A i \in 0 .. n - 1 : g[i] = f[i]
      BY <3>1
    <3>4. ASSUME NEW i \in 0 .. n
          PROVE  g[i] = IF i = 0 THEN s ELSE ReplayOperation(g[i - 1], p.ops[i], p.at)
      <4>1. CASE i = n
        <5>1. g[i] = ReplayOperation(f[n - 1], p.ops[n], p.at)
          BY <4>1
        <5>2. g[i - 1] = f[n - 1]
          BY <3>1, <3>3, <4>1
        <5> QED
          BY <3>1, <4>1, <5>1, <5>2
      <4>2. CASE i # n
        <5>1. i \in 0 .. n - 1
          BY <3>1, <4>2
        <5>2. i # 0 => i - 1 \in 0 .. n - 1
          BY <3>1, <5>1
        <5>3. f[i] = IF i = 0 THEN s ELSE ReplayOperation(f[i - 1], p.ops[i], p.at)
          BY <3>2, <5>1
        <5> HIDE DEF g
        <5> QED
          BY <3>3, <5>1, <5>2, <5>3
      <4> QED
        BY <4>1, <4>2
    <3>5. Grows(g, n)
      <4>1. g = [i \in 0 .. n |-> g[i]]
        OBVIOUS
      <4> HIDE DEF g
      <4> QED
        BY <3>4, <4>1
    <3> QED
      BY <3>1, <3>5, <3>a
  <2> HIDE DEF S
  <2> QED
    BY <2>1, <2>2, NatSetInduction
<1>2. \E f : Grows(f, N)
  BY <1>1
<1>3. ReplayOperations(s, p) = CHOOSE f : Grows(f, N)
  BY DEF ReplayOperations
<1>4. Grows(ReplayOperations(s, p), N)
  BY <1>2, <1>3
<1> DEFINE t == ReplayOperations(s, p)
<1>5. \A i \in 0 .. N : t[i] = IF i = 0 THEN s ELSE ReplayOperation(t[i - 1], p.ops[i], p.at)
  <2> HIDE DEF t
  <2> QED
    BY <1>4 DEF t
<1> HIDE DEF t
<1> QED
  BY <1>5 DEF t

\* The replay of the receipts goes receipt by receipt.
LEMMA ReplayReceiptsStep ==
  ASSUME NEW R, Len(R) \in Nat
  PROVE  LET t == ReplayReceipts(R)
         IN t[0] = NoSkills /\ \A i \in 1 .. Len(R) : t[i] = ReplayReceipt(t[i - 1], R[i])
<1> DEFINE N == Len(R)
           Grows(f, n) == f = [i \in 0 .. n |-> IF i = 0 THEN NoSkills ELSE ReplayReceipt(f[i - 1], R[i])]
           S == {n \in Nat : \E f : Grows(f, n)}
<1>1. Nat \subseteq S
  <2>1. 0 \in S
    <3>1. Grows([i \in 0 .. 0 |-> NoSkills], 0)
      BY Z3
    <3> QED
      BY <3>1
  <2>2. ASSUME NEW m \in Nat, m \in S PROVE m + 1 \in S
    <3>a. PICK n : n = m + 1
      OBVIOUS
    <3>1. n \in Nat /\ n # 0 /\ n - 1 = m
      BY <3>a
    <3>2. PICK f : Grows(f, n - 1)
      BY <2>2, <3>1
    <3> DEFINE g == [i \in 0 .. n |-> IF i = n THEN ReplayReceipt(f[n - 1], R[n]) ELSE f[i]]
    <3>3. \A i \in 0 .. n - 1 : g[i] = f[i]
      BY <3>1
    <3>4. ASSUME NEW i \in 0 .. n
          PROVE  g[i] = IF i = 0 THEN NoSkills ELSE ReplayReceipt(g[i - 1], R[i])
      <4>1. CASE i = n
        <5>1. g[i] = ReplayReceipt(f[n - 1], R[n])
          BY <4>1
        <5>2. g[i - 1] = f[n - 1]
          BY <3>1, <3>3, <4>1
        <5> QED
          BY <3>1, <4>1, <5>1, <5>2
      <4>2. CASE i # n
        <5>1. i \in 0 .. n - 1
          BY <3>1, <4>2
        <5>2. i # 0 => i - 1 \in 0 .. n - 1
          BY <3>1, <5>1
        <5>3. f[i] = IF i = 0 THEN NoSkills ELSE ReplayReceipt(f[i - 1], R[i])
          BY <3>2, <5>1
        <5> HIDE DEF g
        <5> QED
          BY <3>3, <5>1, <5>2, <5>3
      <4> QED
        BY <4>1, <4>2
    <3>5. Grows(g, n)
      <4>1. g = [i \in 0 .. n |-> g[i]]
        OBVIOUS
      <4> HIDE DEF g
      <4> QED
        BY <3>4, <4>1
    <3> QED
      BY <3>1, <3>5, <3>a
  <2> HIDE DEF S
  <2> QED
    BY <2>1, <2>2, NatSetInduction
<1>2. \E f : Grows(f, N)
  BY <1>1
<1>3. ReplayReceipts(R) = CHOOSE f : Grows(f, N)
  BY DEF ReplayReceipts
<1>4. Grows(ReplayReceipts(R), N)
  BY <1>2, <1>3
<1> DEFINE t == ReplayReceipts(R)
<1>5. \A i \in 0 .. N : t[i] = IF i = 0 THEN NoSkills ELSE ReplayReceipt(t[i - 1], R[i])
  <2> HIDE DEF t
  <2> QED
    BY <1>4 DEF t
<1> HIDE DEF t
<1> QED
  BY <1>5 DEF t

-----------------------------------------------------------------------------
(* A proposal under way.                                                   *)

\* The first n operations bring new versions, none twice and none approved.
PlainIn(s, p, n) ==
  \A j \in 1 .. n : IsPut(p.ops[j]) =>
    /\ p.ops[j].record.status # "APPROVED" /\ p.ops[j].record.version \notin DOMAIN s
    /\ \A k \in 1 .. n : IsPut(p.ops[k]) /\ p.ops[k].record.version = p.ops[j].record.version => j = k

\* What n operations of p have made of the table s.
Worked(s, p, n, w) ==
  /\ Numbered(w) /\ Keeps(s, w)
  /\ \A j \in 1 .. n :
       /\ Held(p.ops[j], w)
       /\ p.ops[j].op = "REVISE" => p.ops[j].version + 1 \notin DOMAIN s
  /\ \A j, k \in 1 .. n :
       p.ops[j].op = "REVISE" /\ p.ops[k].op = "REVISE" /\ p.ops[j].version = p.ops[k].version => j = k
  /\ \A v \in DOMAIN w \ DOMAIN s : \E j \in 1 .. n : IsPut(p.ops[j]) /\ p.ops[j].record.version = v
  /\ PlainIn(s, p, n) => w = ReplayOperations(s, p)[n]

\* A transaction begins with the table as it is.
LEMMA WorkedNothing ==
  ASSUME NEW s, Numbered(s), NEW p, Sound(p)
  PROVE  Worked(s, p, 0, s)
<1>1. ReplayOperations(s, p)[0] = s
  BY ReplayOperationsStep DEF Sound
<1>2. 1 .. 0 = {}
  OBVIOUS
<1>3. Keeps(s, s)
  BY DEF Keeps
<1> QED
  BY <1>1, <1>2, <1>3 DEF Worked

\* What is held, and what there is, stays.
LEMMA HeldStays ==
  ASSUME NEW w, NEW r, Keeps(w, r)
  PROVE  /\ \A op : Held(op, w) => Held(op, r)
         /\ \A s : Keeps(s, w) => Keeps(s, r)
<1>1. \A op : Held(op, w) => Held(op, r)
  BY DEF Held, Keeps
<1>2. \A s : Keeps(s, w) => Keeps(s, r)
  BY DEF Keeps
<1> QED
  BY <1>1, <1>2

\* One operation more.
LEMMA WorkedStep ==
  ASSUME NEW s, NEW p, Sound(p), NEW n \in Nat, NEW w, Worked(s, p, n, w), GoodTable(w),
         n + 1 <= Len(p.ops), Doable(w, p.ops[n + 1]), Versioned(p.ops[n + 1])
  PROVE  Worked(s, p, n + 1, ApplyOperation(w, p.ops[n + 1], p.at))
<1>a. PICK op, r, m : op = p.ops[n + 1] /\ r = ApplyOperation(w, op, p.at) /\ m = n + 1
  OBVIOUS
<1>b. m \in Nat /\ m \in 1 .. Len(p.ops) /\ m - 1 = n /\ Len(p.ops) \in Nat
  BY <1>a DEF Sound
<1>c. \A j \in 1 .. m : j = m \/ j \in 1 .. n
  BY <1>a, <1>b
<1>d. Doable(w, op) /\ Versioned(op) /\ Numbered(w)
  BY <1>a DEF Worked
<1>e. Does(w, op, p.at, r)
  BY <1>a, <1>d, OperationDoes
<1>1. /\ DOMAIN r = DOMAIN w \cup {v \in {op.record.version} : IsPut(op)}
      /\ Keeps(w, r) /\ Numbered(r) /\ Held(op, r)
      /\ op.op = "REVISE" => op.version \in DOMAIN w /\ op.version + 1 \notin DOMAIN w
      /\ (IsPut(op) => op.record.status # "APPROVED" /\ op.record.version \notin DOMAIN w)
           => r = ReplayOperation(w, op, p.at)
  BY <1>e DEF Does
<1>2. Keeps(s, r)
  BY <1>1, HeldStays DEF Worked
<1>3. DOMAIN s \subseteq DOMAIN w
  BY DEF Worked, Keeps
<1>4. \A j \in 1 .. m :
        /\ Held(p.ops[j], r)
        /\ p.ops[j].op = "REVISE" => p.ops[j].version + 1 \notin DOMAIN s
  <2>1. \A j \in 1 .. n : Held(p.ops[j], r)
    BY <1>1, HeldStays DEF Worked
  <2> QED
    BY <1>1, <1>3, <1>a, <1>c, <2>1 DEF Worked
<1>5. \A j, k \in 1 .. m :
        p.ops[j].op = "REVISE" /\ p.ops[k].op = "REVISE" /\ p.ops[j].version = p.ops[k].version => j = k
  <2>1. ASSUME NEW j \in 1 .. n, p.ops[j].op = "REVISE", op.op = "REVISE"
        PROVE  p.ops[j].version # op.version
    <3>1. Held(p.ops[j], w)
      BY DEF Worked
    <3>2. p.ops[j].version + 1 \in DOMAIN w
      BY <2>1, <3>1 DEF Held, IsPut
    <3> QED
      BY <1>1, <2>1, <3>2
  <2> QED
    BY <1>a, <1>c, <2>1 DEF Worked
<1>6. \A v \in DOMAIN r \ DOMAIN s : \E j \in 1 .. m : IsPut(p.ops[j]) /\ p.ops[j].record.version = v
  <2>1. \A v \in DOMAIN w \ DOMAIN s : \E j \in 1 .. m : IsPut(p.ops[j]) /\ p.ops[j].record.version = v
    BY <1>a DEF Worked
  <2>2. ASSUME NEW v \in DOMAIN r \ DOMAIN w PROVE \E j \in 1 .. m : IsPut(p.ops[j]) /\ p.ops[j].record.version = v
    <3>1. m \in 1 .. m
      BY <1>b
    <3> QED
      BY <1>1, <1>a, <2>2, <3>1
  <2> QED
    BY <2>1, <2>2
<1>7. ASSUME PlainIn(s, p, m) PROVE r = ReplayOperations(s, p)[m]
  <2>1. PlainIn(s, p, n)
    BY <1>7, <1>a DEF PlainIn
  <2>2. w = ReplayOperations(s, p)[n]
    BY <2>1 DEF Worked
  <2>3. ReplayOperations(s, p)[m] = ReplayOperation(ReplayOperations(s, p)[m - 1], p.ops[m], p.at)
    BY <1>b, ReplayOperationsStep
  <2>4. IsPut(op) => op.record.status # "APPROVED" /\ op.record.version \notin DOMAIN w
    <3>1. ASSUME IsPut(op) PROVE op.record.status # "APPROVED" /\ op.record.version \notin DOMAIN s
      BY <1>7, <1>a, <1>b, <3>1 DEF PlainIn
    <3>2. ASSUME IsPut(op), op.record.version \in DOMAIN w \ DOMAIN s PROVE FALSE
      <4>1. PICK j \in 1 .. n : IsPut(p.ops[j]) /\ p.ops[j].record.version = op.record.version
        BY <3>2 DEF Worked
      <4>2. j \in 1 .. m /\ m \in 1 .. m /\ j # m
        BY <1>a, <1>b, <4>1
      <4> QED
        BY <1>7, <1>a, <3>2, <4>1, <4>2 DEF PlainIn
    <3> QED
      BY <3>1, <3>2
  <2> QED
    BY <1>1, <1>a, <1>b, <2>2, <2>3, <2>4
<1>8. Worked(s, p, m, r)
  BY <1>1, <1>2, <1>4, <1>5, <1>6, <1>7 DEF Worked
<1> QED
  BY <1>8, <1>a

-----------------------------------------------------------------------------
(* The table and the receipts.                                             *)

CommittedIn(R) == {i \in DOMAIN R : R[i].outcome = "COMMITTED"}
OpsOf(R, i) == R[i].proposal.ops

\* As Plain, of any receipts.
PlainHistory(R) ==
  \A i \in CommittedIn(R) : \A j \in DOMAIN OpsOf(R, i) : IsPut(OpsOf(R, i)[j]) =>
    /\ OpsOf(R, i)[j].record.status # "APPROVED"
    /\ \A k \in CommittedIn(R) : \A l \in DOMAIN OpsOf(R, k) :
         /\ IsPut(OpsOf(R, k)[l])
         /\ OpsOf(R, k)[l].record.version = OpsOf(R, i)[j].record.version
         => i = k /\ j = l

\* What was committed is in the table, every version was brought by a commit,
\* no version was revised twice, and a plain history replays.
Stored(R, s) ==
  /\ Numbered(s)
  /\ \A i \in CommittedIn(R) : \A j \in DOMAIN OpsOf(R, i) : Held(OpsOf(R, i)[j], s)
  /\ \A i, k \in CommittedIn(R) : \A j \in DOMAIN OpsOf(R, i), l \in DOMAIN OpsOf(R, k) :
       /\ OpsOf(R, i)[j].op = "REVISE" /\ OpsOf(R, k)[l].op = "REVISE"
       /\ OpsOf(R, i)[j].version = OpsOf(R, k)[l].version
       => i = k /\ j = l
  /\ \A v \in DOMAIN s : \E i \in CommittedIn(R) : \E j \in DOMAIN OpsOf(R, i) :
       IsPut(OpsOf(R, i)[j]) /\ OpsOf(R, i)[j].record.version = v
  /\ PlainHistory(R) => s = ReplayReceipts(R)[Len(R)]

\* A receipt more.
More(R, r, Q) ==
  /\ Len(R) \in Nat /\ Len(Q) = Len(R) + 1
  /\ DOMAIN R = 1 .. Len(R) /\ DOMAIN Q = 1 .. Len(R) + 1
  /\ \A i \in 1 .. Len(R) : Q[i] = R[i]
  /\ Q[Len(R) + 1] = r

LEMMA AppendIsMore ==
  ASSUME NEW S, NEW R \in Seq(S), NEW r
  PROVE  More(R, r, Append(R, r))
BY ReceiptAppended DEF More

\* The replay of more receipts goes on from that of the first.
LEMMA ReplayGoesOn ==
  ASSUME NEW R, NEW r, NEW Q, More(R, r, Q)
  PROVE  ReplayReceipts(Q)[Len(Q)] = ReplayReceipt(ReplayReceipts(R)[Len(R)], r)
<1>a. PICK n, A, B : n = Len(R) /\ A = ReplayReceipts(R) /\ B = ReplayReceipts(Q)
  OBVIOUS
<1>1. /\ n \in Nat /\ Len(Q) = n + 1 /\ Len(Q) \in Nat /\ Q[n + 1] = r
      /\ \A i \in 1 .. n : Q[i] = R[i]
  BY <1>a DEF More
<1>2. A[0] = NoSkills /\ \A i \in 1 .. n : A[i] = ReplayReceipt(A[i - 1], R[i])
  BY <1>a, <1>1, ReplayReceiptsStep
<1>3. B[0] = NoSkills /\ \A i \in 1 .. n + 1 : B[i] = ReplayReceipt(B[i - 1], Q[i])
  BY <1>a, <1>1, ReplayReceiptsStep
<1> DEFINE S == {m \in Nat : m <= n => A[m] = B[m]}
<1>4. 0 \in S
  BY <1>2, <1>3
<1>5. ASSUME NEW m \in Nat, m \in S PROVE m + 1 \in S
  <2>1. CASE m + 1 <= n
    <3>1. m + 1 \in 1 .. n /\ m + 1 \in 1 .. n + 1 /\ (m + 1) - 1 = m /\ m <= n
      BY <1>1, <2>1
    <3>2. A[m] = B[m]
      BY <1>5, <3>1
    <3>3. A[m + 1] = ReplayReceipt(A[m], R[m + 1])
      BY <1>2, <3>1
    <3>4. B[m + 1] = ReplayReceipt(B[m], Q[m + 1])
      BY <1>3, <3>1
    <3> QED
      BY <1>1, <3>1, <3>2, <3>3, <3>4
  <2>2. CASE ~(m + 1 <= n)
    BY <2>2
  <2> QED
    BY <2>1, <2>2
<1>6. Nat \subseteq S
  <2> HIDE DEF S
  <2> QED
    BY <1>4, <1>5, NatSetInduction
<1>7. A[n] = B[n]
  BY <1>1, <1>6
<1>8. B[n + 1] = ReplayReceipt(B[n], r)
  <2>1. n + 1 \in 1 .. n + 1 /\ (n + 1) - 1 = n
    BY <1>1
  <2> QED
    BY <1>1, <1>3, <2>1
<1> QED
  BY <1>a, <1>1, <1>7, <1>8

\* A rejection adds nothing to the history.
LEMMA StoredRefusal ==
  ASSUME NEW R, NEW s, Stored(R, s), NEW r, r.outcome # "COMMITTED", NEW Q, More(R, r, Q)
  PROVE  Stored(Q, s)
<1>1. CommittedIn(Q) = CommittedIn(R) /\ \A i \in CommittedIn(R) : OpsOf(Q, i) = OpsOf(R, i)
  BY DEF More, CommittedIn, OpsOf
<1>2. PlainHistory(Q) <=> PlainHistory(R)
  BY <1>1 DEF PlainHistory
<1>3. ReplayReceipts(Q)[Len(Q)] = ReplayReceipts(R)[Len(R)]
  BY ReplayGoesOn DEF ReplayReceipt
<1> QED
  BY <1>1, <1>2, <1>3 DEF Stored

\* A commit adds its operations.
LEMMA StoredCommit ==
  ASSUME NEW R, NEW s, Stored(R, s), NEW r, r.outcome = "COMMITTED", NEW Q, More(R, r, Q),
         Sound(r.proposal), NEW w, Worked(s, r.proposal, Len(r.proposal.ops), w)
  PROVE  Stored(Q, w)
<1>a. PICK p, n, e : p = r.proposal /\ n = Len(p.ops) /\ e = Len(R) + 1
  OBVIOUS
<1>1. /\ CommittedIn(Q) = CommittedIn(R) \cup {e}
      /\ e \notin CommittedIn(R)
      /\ \A i \in CommittedIn(R) : OpsOf(Q, i) = OpsOf(R, i)
      /\ OpsOf(Q, e) = p.ops /\ DOMAIN p.ops = 1 .. n
  BY <1>a DEF More, CommittedIn, OpsOf, Sound
<1>2. /\ Worked(s, p, n, w) /\ n \in Nat /\ Keeps(s, w)
      /\ DOMAIN s \subseteq DOMAIN w
  BY <1>a DEF Sound, Worked, Keeps
<1>3. Numbered(w)
  BY <1>2 DEF Worked
<1>4. \A i \in CommittedIn(Q) : \A j \in DOMAIN OpsOf(Q, i) : Held(OpsOf(Q, i)[j], w)
  <2>1. \A i \in CommittedIn(R) : \A j \in DOMAIN OpsOf(R, i) : Held(OpsOf(R, i)[j], w)
    BY <1>2, HeldStays DEF Stored
  <2>2. \A j \in DOMAIN OpsOf(Q, e) : Held(OpsOf(Q, e)[j], w)
    BY <1>1, <1>2 DEF Worked
  <2> QED
    BY <1>1, <2>1, <2>2
<1>5. \A i, k \in CommittedIn(Q) : \A j \in DOMAIN OpsOf(Q, i), l \in DOMAIN OpsOf(Q, k) :
        /\ OpsOf(Q, i)[j].op = "REVISE" /\ OpsOf(Q, k)[l].op = "REVISE"
        /\ OpsOf(Q, i)[j].version = OpsOf(Q, k)[l].version
        => i = k /\ j = l
  <2>1. ASSUME NEW i \in CommittedIn(R), NEW j \in DOMAIN OpsOf(R, i), NEW l \in 1 .. n,
               OpsOf(R, i)[j].op = "REVISE", p.ops[l].op = "REVISE"
        PROVE  OpsOf(R, i)[j].version # p.ops[l].version
    <3>a. PICK old, op : old = OpsOf(R, i)[j] /\ op = p.ops[l]
      OBVIOUS
    <3>1. Held(old, s)
      BY <3>a DEF Stored
    <3>2. old.version + 1 \in DOMAIN s
      BY <2>1, <3>1, <3>a DEF Held, IsPut
    <3>3. op.version + 1 \notin DOMAIN s
      BY <1>2, <2>1, <3>a DEF Worked
    <3> QED
      BY <3>2, <3>3, <3>a
  <2>2. ASSUME NEW j \in 1 .. n, NEW l \in 1 .. n, p.ops[j].op = "REVISE", p.ops[l].op = "REVISE",
               p.ops[j].version = p.ops[l].version
        PROVE  j = l
    BY <1>2, <2>2 DEF Worked
  <2>3. ASSUME NEW i \in CommittedIn(R), NEW k \in CommittedIn(R),
               NEW j \in DOMAIN OpsOf(R, i), NEW l \in DOMAIN OpsOf(R, k),
               OpsOf(R, i)[j].op = "REVISE", OpsOf(R, k)[l].op = "REVISE",
               OpsOf(R, i)[j].version = OpsOf(R, k)[l].version
        PROVE  i = k /\ j = l
    BY <2>3 DEF Stored
  <2>4. ASSUME NEW i \in CommittedIn(Q), NEW k \in CommittedIn(Q),
               NEW j \in DOMAIN OpsOf(Q, i), NEW l \in DOMAIN OpsOf(Q, k),
               OpsOf(Q, i)[j].op = "REVISE", OpsOf(Q, k)[l].op = "REVISE",
               OpsOf(Q, i)[j].version = OpsOf(Q, k)[l].version
        PROVE  i = k /\ j = l
    <3>1. CASE i \in CommittedIn(R) /\ k \in CommittedIn(R)
      BY <1>1, <2>3, <2>4, <3>1
    <3>2. CASE i \in CommittedIn(R) /\ k = e
      BY <1>1, <2>1, <2>4, <3>2
    <3>3. CASE i = e /\ k \in CommittedIn(R)
      BY <1>1, <2>1, <2>4, <3>3
    <3>4. CASE i = e /\ k = e
      BY <1>1, <2>2, <2>4, <3>4
    <3> QED
      BY <1>1, <3>1, <3>2, <3>3, <3>4
  <2> QED
    BY <2>4
<1>6. \A v \in DOMAIN w : \E i \in CommittedIn(Q) : \E j \in DOMAIN OpsOf(Q, i) :
        IsPut(OpsOf(Q, i)[j]) /\ OpsOf(Q, i)[j].record.version = v
  <2>1. ASSUME NEW v \in DOMAIN s
        PROVE  \E i \in CommittedIn(Q) : \E j \in DOMAIN OpsOf(Q, i) :
                 IsPut(OpsOf(Q, i)[j]) /\ OpsOf(Q, i)[j].record.version = v
    <3>1. PICK i \in CommittedIn(R) : \E j \in DOMAIN OpsOf(R, i) :
                 IsPut(OpsOf(R, i)[j]) /\ OpsOf(R, i)[j].record.version = v
      BY DEF Stored
    <3> QED
      BY <1>1, <3>1
  <2>2. ASSUME NEW v \in DOMAIN w \ DOMAIN s
        PROVE  \E i \in CommittedIn(Q) : \E j \in DOMAIN OpsOf(Q, i) :
                 IsPut(OpsOf(Q, i)[j]) /\ OpsOf(Q, i)[j].record.version = v
    <3>1. PICK j \in 1 .. n : IsPut(p.ops[j]) /\ p.ops[j].record.version = v
      BY <1>2 DEF Worked
    <3> QED
      BY <1>1, <3>1
  <2> QED
    BY <2>1, <2>2
<1>7. ASSUME PlainHistory(Q) PROVE w = ReplayReceipts(Q)[Len(Q)]
  <2>1. PlainHistory(R)
    BY <1>1, <1>7 DEF PlainHistory
  <2>2. s = ReplayReceipts(R)[Len(R)]
    BY <2>1 DEF Stored
  <2>3. PlainIn(s, p, n)
    <3> SUFFICES ASSUME NEW j \in 1 .. n, IsPut(p.ops[j])
                 PROVE  /\ p.ops[j].record.status # "APPROVED" /\ p.ops[j].record.version \notin DOMAIN s
                        /\ \A k \in 1 .. n : IsPut(p.ops[k]) /\ p.ops[k].record.version = p.ops[j].record.version
                             => j = k
      BY DEF PlainIn
    <3>1. /\ p.ops[j].record.status # "APPROVED"
          /\ \A k \in CommittedIn(Q) : \A l \in DOMAIN OpsOf(Q, k) :
               /\ IsPut(OpsOf(Q, k)[l])
               /\ OpsOf(Q, k)[l].record.version = p.ops[j].record.version
               => e = k /\ j = l
      <4>1. e \in CommittedIn(Q) /\ j \in DOMAIN OpsOf(Q, e) /\ OpsOf(Q, e)[j] = p.ops[j]
        BY <1>1
      <4> QED
        BY <1>7, <4>1 DEF PlainHistory
    <3>2. ASSUME p.ops[j].record.version \in DOMAIN s PROVE FALSE
      <4>1. PICK i \in CommittedIn(R) : \E l \in DOMAIN OpsOf(R, i) :
                   IsPut(OpsOf(R, i)[l]) /\ OpsOf(R, i)[l].record.version = p.ops[j].record.version
        BY <3>2 DEF Stored
      <4> QED
        BY <1>1, <3>1, <4>1
    <3>3. \A k \in 1 .. n : IsPut(p.ops[k]) /\ p.ops[k].record.version = p.ops[j].record.version => j = k
      BY <1>1, <3>1
    <3> QED
      BY <3>1, <3>2, <3>3
  <2>4. w = ReplayOperations(s, p)[n]
    BY <1>2, <2>3 DEF Worked
  <2>5. ReplayReceipt(s, r) = ReplayOperations(s, p)[n]
    BY <1>a DEF ReplayReceipt
  <2> QED
    BY <2>2, <2>4, <2>5, ReplayGoesOn
<1> QED
  BY <1>3, <1>4, <1>5, <1>6, <1>7 DEF Stored

-----------------------------------------------------------------------------
(* Who may say what.                                                       *)

\* A proposal of a direct caller, or one whose key is its only operation.
Meant(p) ==
  /\ p \in Direct \/ ("op" \in DOMAIN p.key /\ p.ops = <<p.key>>)
  /\ \A i \in DOMAIN p.ops : Versioned(p.ops[i])

\* What a call may rely on: what it has made, if it holds the lock, and what it
\* was told.  While nothing has raced, the key it has looked for stays unknown.
Fits(c, t) ==
  /\ t.at # "idle" => Meant(t.proposal)
  /\ t.at = "apply" => /\ lock = c /\ t.next <= Len(t.proposal.ops) + 1
                       /\ Worked(skills, t.proposal, t.next - 1, t.work)
  /\ t.at = "done" /\ t.outcome = "COMMITTED" /\ (t.proposal \in Direct => ~raced) =>
       \E i \in CommittedIn(receipts) : OpsOf(receipts, i) = t.proposal.ops
  /\ ~raced /\ t.at \in {"begin", "apply", "reject", "record"} => ~Known(t.proposal.key)

KeptInv ==
  /\ Stored(receipts, skills)
  /\ \A i \in DOMAIN receipts : Meant(receipts[i].proposal)
  /\ \A c \in Clients : Fits(c, task[c])

LEMMA KeptInit == Init => KeptInv
<1> SUFFICES ASSUME Init PROVE KeptInv
  OBVIOUS
<1>1. receipts = <<>> /\ skills = NoSkills /\ \A c \in Clients : task[c] = Idle
  BY DEF Init
<1>2. DOMAIN receipts = {} /\ CommittedIn(receipts) = {} /\ Len(receipts) = 0
  BY <1>1 DEF CommittedIn
<1>3. DOMAIN skills = {} /\ Numbered(skills)
  BY <1>1 DEF NoSkills, Numbered
<1>4. ReplayReceipts(receipts)[Len(receipts)] = skills
  BY <1>1, <1>2, ReplayReceiptsStep
<1>5. Stored(receipts, skills)
  BY <1>2, <1>3, <1>4 DEF Stored
<1>6. \A c \in Clients : Fits(c, Idle)
  BY DEF Fits, Idle
<1> QED
  BY <1>1, <1>2, <1>5, <1>6 DEF KeptInv

\* A call that stands still fits as long as nobody takes its transaction from
\* it, or commits under it.
LEMMA StillFits ==
  ASSUME NEW c \in Clients, NEW t, Fits(c, t), UNCHANGED <<skills, receipts>>,
         raced => raced', lock = c => lock' = c
  PROVE  Fits(c, t)'
BY DEF Fits, Known

\* One client moves and writes neither skills nor receipts.
LEMMA MoveKeeps ==
  ASSUME Inv, KeptInv, NEW c \in Clients, NEW t, Become(c, t), Fits(c, t)',
         UNCHANGED <<skills, receipts>>, raced => raced',
         \A b \in Clients \ {c} : lock = b => lock' = b
  PROVE  KeptInv'
<1>1. /\ task'[c] = t
      /\ \A b \in Clients \ {c} : task'[b] = task[b]
  BY OthersStay DEF Inv
<1>2. ASSUME NEW b \in Clients PROVE Fits(b, task[b])'
  <2>1. CASE b = c
    BY <1>1, <2>1 DEF Fits, Known
  <2>2. CASE b # c
    <3>a. PICK u : u = task[b]
      OBVIOUS
    <3>1. Fits(b, u)'
      BY <2>2, <3>a, StillFits DEF KeptInv
    <3>2. u = task'[b]
      BY <1>1, <2>2, <3>a
    <3> QED
      BY <3>1, <3>2 DEF Fits, Known
  <2> QED
    BY <2>1, <2>2
<1> QED
  BY <1>2 DEF KeptInv

\* An operation as the key of its own proposal.
LEMMA SingleMeant ==
  ASSUME NEW op, NEW at, "op" \in DOMAIN op, Versioned(op)
  PROVE  Meant(Single(op, at))
<1>1. Single(op, at).ops = <<op>> /\ Single(op, at).key = op
  BY DEF Single
<1>2. DOMAIN <<op>> = {1} /\ <<op>>[1] = op
  OBVIOUS
<1> QED
  BY <1>1, <1>2 DEF Meant

\* Every call that starts means what it proposes.
LEMMA CallsMean ==
  ASSUME NEW c \in Clients, Calls(c)
  PROVE  \E proposal : Meant(proposal) /\ Propose(c, proposal)
<1>1. ASSUME NEW record, record.version \in Nat, CreateSkill(c, record)
      PROVE  \E proposal : Meant(proposal) /\ Propose(c, proposal)
  <2>1. PICK op : op = [op |-> "CREATE", record |-> record]
    OBVIOUS
  <2>2. "op" \in DOMAIN op /\ Versioned(op)
    BY <1>1, <2>1 DEF Versioned
  <2> QED
    BY <1>1, <2>1, <2>2, SingleMeant DEF CreateSkill
<1>2. ASSUME NEW content \in Contents, ReviseSkill(c, content)
      PROVE  \E proposal : Meant(proposal) /\ Propose(c, proposal)
  <2>1. PICK op : /\ \E v, record : op = [op |-> "REVISE", version |-> v, record |-> record]
                  /\ Propose(c, Single(op, now))
    BY <1>2 DEF ReviseSkill
  <2>2. "op" \in DOMAIN op /\ Versioned(op)
    BY <2>1 DEF Versioned
  <2> QED
    BY <2>1, <2>2, SingleMeant
<1>3. ASSUME NEW v \in DOMAIN skills, NEW by \in Actors,
             MarkSkillTested(c, v, by) \/ ApproveSkill(c, v, by)
      PROVE  \E proposal : Meant(proposal) /\ Propose(c, proposal)
  <2>1. PICK op : /\ \E name, expected :
                       name \in {"TEST", "APPROVE"} /\ op = [op |-> name, version |-> v, expected |-> expected, by |-> by]
                  /\ Propose(c, Single(op, now))
    BY <1>3 DEF MarkSkillTested, ApproveSkill
  <2>2. "op" \in DOMAIN op /\ Versioned(op)
    BY <2>1 DEF Versioned
  <2> QED
    BY <2>1, <2>2, SingleMeant
<1>4. ASSUME NEW v \in DOMAIN skills, DeprecateSkill(c, v)
      PROVE  \E proposal : Meant(proposal) /\ Propose(c, proposal)
  <2>1. PICK op : /\ \E expected : op = [op |-> "DEPRECATE", version |-> v, expected |-> expected]
                  /\ Propose(c, Single(op, now))
    BY <1>4 DEF DeprecateSkill
  <2>2. "op" \in DOMAIN op /\ Versioned(op)
    BY <2>1 DEF Versioned
  <2> QED
    BY <2>1, <2>2, SingleMeant
<1>5. ASSUME NEW proposal \in Direct, Propose(c, proposal)
      PROVE  \E p : Meant(p) /\ Propose(c, p)
  BY <1>5, VersionsAssumption DEF Meant, Versioned
<1>6. \A content : RecordOf(1, "DRAFT", content, now).version \in Nat
  BY DEF RecordOf
<1> QED
  BY <1>1, <1>2, <1>3, <1>4, <1>5, <1>6, VersionsAssumption DEF Calls

LEMMA ProposeKeeps ==
  ASSUME Inv, KeptInv, NEW c \in Clients, Calls(c)
  PROVE  KeptInv'
<1>1. PICK proposal : Meant(proposal) /\ Propose(c, proposal)
  BY CallsMean
<1>2. PICK t : t = [at |-> "hash", proposal |-> proposal]
  OBVIOUS
<1>3. /\ Become(c, t) /\ UNCHANGED <<skills, receipts, lock>>
      /\ raced => raced'
  BY <1>1, <1>2 DEF Propose, tables
<1>4. Fits(c, t)'
  BY <1>1, <1>2 DEF Fits, Meant
<1> QED
  BY <1>3, <1>4, MoveKeeps

\* What a refused call stands on.
LEMMA RefusalFits ==
  ASSUME NEW c \in Clients, NEW p, Meant(p), NEW before, NEW outcome,
         ~raced => ~Known(p.key), NEW label \in {"reject", "record"}
  PROVE  Fits(c, [at |-> label, proposal |-> p, before |-> before, outcome |-> outcome])
BY DEF Fits

\* The receipt of a known key.
LEMMA KnownReceipt ==
  ASSUME NEW key, Known(key)
  PROVE  \E i \in DOMAIN receipts : ReceiptOf(key) = receipts[i] /\ receipts[i].proposal.key = key
BY DEF Known, ReceiptOf

LEMMA LookupKeeps ==
  ASSUME Inv, KeptInv, NEW c \in Clients, ReadState(c) \/ AnswerPrior(c) \/ Proceed(c)
  PROVE  KeptInv'
<1>a. PICK p : p = task[c].proposal
  OBVIOUS
<1>1. /\ UNCHANGED <<skills, receipts, lock, raced>> /\ task[c].at \in {"hash", "lookup"}
      /\ task[c].at = "lookup" => task[c] = Deciding(task[c])
  BY DEF ReadState, AnswerPrior, Proceed, tables, At, Inv, TableInv, GoodTask, Idle
<1>2. Meant(p)
  BY <1>1, <1>a DEF KeptInv, Fits
<1>3. CASE ReadState(c)
  <2>1. PICK t : t = [at |-> "lookup", proposal |-> p, before |-> skills]
    OBVIOUS
  <2>2. Become(c, t) /\ Fits(c, t)
    BY <1>2, <1>3, <1>a, <2>1 DEF ReadState, Fits
  <2>3. Fits(c, t)'
    BY <1>1, <2>2, StillFits
  <2> QED
    BY <1>1, <2>2, <2>3, MoveKeeps
<1>4. CASE AnswerPrior(c)
  <2>1. PICK outcome : outcome = IF ReceiptOf(p.key).proposal = p THEN ReceiptOf(p.key).outcome
                                 ELSE "VALIDATION_ERROR"
    OBVIOUS
  <2>2. PICK t : t = [at |-> "done", proposal |-> p, outcome |-> outcome]
    OBVIOUS
  <2>3. Become(c, t) /\ Known(p.key)
    BY <1>4, <1>a, <2>1, <2>2 DEF AnswerPrior, Answer
  <2>4. outcome = "COMMITTED" => \E i \in CommittedIn(receipts) : OpsOf(receipts, i) = p.ops
    <3>1. PICK i \in DOMAIN receipts : ReceiptOf(p.key) = receipts[i]
      BY <2>3, KnownReceipt
    <3> QED
      BY <2>1, <3>1 DEF CommittedIn, OpsOf
  <2>5. Fits(c, t)
    BY <1>2, <2>2, <2>4 DEF Fits
  <2>6. Fits(c, t)'
    BY <1>1, <2>5, StillFits
  <2> QED
    BY <1>1, <2>3, <2>6, MoveKeeps
<1>5. CASE Proceed(c) /\ Stale(c)
  <2>1. PICK t : t = [at |-> "reject", proposal |-> p, before |-> task[c].before,
                      outcome |-> "TRANSACTION_CONFLICT"]
    OBVIOUS
  <2>2. Become(c, t) /\ ~Known(p.key)
    BY <1>5, <1>a, <2>1 DEF Proceed, Refuse
  <2>3. Fits(c, t)
    BY <1>2, <2>1, <2>2, RefusalFits
  <2>4. Fits(c, t)'
    BY <1>1, <2>3, StillFits
  <2> QED
    BY <1>1, <2>2, <2>4, MoveKeeps
<1>6. CASE Proceed(c) /\ ~Stale(c)
  <2>1. PICK t : t = [task[c] EXCEPT !.at = "begin"]
    OBVIOUS
  <2>2. Become(c, t) /\ ~Known(p.key) /\ At(c, "lookup")
    BY <1>6, <1>a, <2>1 DEF Proceed, Goto
  <2>3. t.at = "begin" /\ t.proposal = p
    BY <1>1, <1>a, <2>1, <2>2 DEF At, Deciding
  <2>4. Fits(c, t)
    BY <1>2, <2>2, <2>3 DEF Fits
  <2>5. Fits(c, t)'
    BY <1>1, <2>4, StillFits
  <2> QED
    BY <1>1, <2>2, <2>5, MoveKeeps
<1> QED
  BY <1>3, <1>4, <1>5, <1>6

LEMMA BeginKeeps ==
  ASSUME Inv, KeptInv, NEW c \in Clients, Begin(c)
  PROVE  KeptInv'
<1>a. PICK p : p = task[c].proposal
  OBVIOUS
<1>1. /\ UNCHANGED <<skills, receipts, raced>> /\ task[c].at = "begin" /\ lock = NoClient /\ Sound(p)
  BY <1>a DEF Begin, tables, At, Inv, TableInv, GoodTask, Idle
<1>2. Meant(p) /\ (~raced => ~Known(p.key))
  BY <1>1, <1>a DEF KeptInv, Fits
<1>3. \A b \in Clients : lock # b
  BY <1>1, SkillsAssumption
<1>4. CASE Reused(p)
  <2>1. PICK t : t = [at |-> "reject", proposal |-> p, before |-> task[c].before,
                      outcome |-> "VALIDATION_ERROR"]
    OBVIOUS
  <2>2. Become(c, t) /\ UNCHANGED lock
    BY <1>4, <1>a, <2>1 DEF Begin, Refuse
  <2>3. Fits(c, t)
    BY <1>2, <2>1, <2>2, RefusalFits
  <2>4. Fits(c, t)'
    BY <1>1, <2>2, <2>3, StillFits
  <2> QED
    BY <1>1, <2>2, <2>4, MoveKeeps
<1>5. CASE ~Reused(p)
  <2>1. PICK t : t = [at |-> "apply", proposal |-> p, before |-> task[c].before, work |-> skills, next |-> 1]
    OBVIOUS
  <2>2. Become(c, t) /\ lock' = c
    BY <1>5, <1>a, <2>1 DEF Begin
  <2>3. Worked(skills, p, 0, skills)
    BY <1>1, WorkedNothing DEF KeptInv, Stored
  <2>4. t.at = "apply" /\ t.proposal = p /\ t.next - 1 = 0 /\ t.work = skills /\ t.next = 1
    BY <2>1
  <2>b. 1 <= Len(p.ops) + 1
    BY <1>1 DEF Sound
  <2>5. Fits(c, t)'
    BY <1>1, <1>2, <2>2, <2>3, <2>4, <2>b DEF Fits, Known
  <2> QED
    BY <1>1, <1>3, <2>2, <2>5, MoveKeeps
<1> QED
  BY <1>4, <1>5

LEMMA ApplyKeeps ==
  ASSUME Inv, KeptInv, NEW c \in Clients, Apply(c)
  PROVE  KeptInv'
<1>a. PICK old, p, m : old = task[c] /\ p = old.proposal /\ m = old.next
  OBVIOUS
<1>b. PICK op, n : op = p.ops[m] /\ n = m - 1
  OBVIOUS
<1>1. /\ UNCHANGED <<skills, receipts, raced>> /\ old.at = "apply"
      /\ m <= Len(p.ops)
  BY <1>a DEF Apply, tables, At
<1>2. old = Applying(old) /\ Sound(p) /\ m \in Nat \ {0} /\ GoodTable(old.work)
  <2>1. GoodTask(old)
    BY <1>a DEF Inv, TableInv
  <2> QED
    BY <1>1, <1>a, <2>1 DEF GoodTask, Idle
<1>3. n \in Nat /\ m = n + 1 /\ m <= Len(p.ops) /\ m \in DOMAIN p.ops /\ (m + 1) - 1 = n + 1
  BY <1>1, <1>2, <1>b DEF Sound
<1>4. Meant(p) /\ lock = c /\ Worked(skills, p, n, old.work) /\ (~raced => ~Known(p.key))
  BY <1>1, <1>a, <1>b DEF KeptInv, Fits
<1>5. CASE OperationError(old.work, op) # ""
  <2>1. PICK t : t = [at |-> "reject", proposal |-> p, before |-> old.before,
                      outcome |-> OperationError(old.work, op)]
    OBVIOUS
  <2>2. Become(c, t) /\ lock' = NoClient
    BY <1>5, <1>a, <1>b, <2>1 DEF Apply, Refuse
  <2>3. t.at = "reject" /\ t.proposal = p
    BY <2>1
  <2>4. Fits(c, t)'
    BY <1>1, <1>4, <2>3 DEF Fits, Known, Meant
  <2> QED
    BY <1>1, <1>4, <2>2, <2>4, MoveKeeps
<1>6. CASE OperationError(old.work, op) = ""
  <2>1. PICK work : work = ApplyOperation(old.work, op, p.at)
    OBVIOUS
  <2>2. PICK t : t = [old EXCEPT !.work = work, !.next = m + 1]
    OBVIOUS
  <2>3. Become(c, t) /\ UNCHANGED lock
    BY <1>6, <1>a, <1>b, <2>1, <2>2 DEF Apply
  <2>4. t.at = "apply" /\ t.proposal = p /\ t.work = work /\ t.next = m + 1
    BY <1>1, <1>2, <1>a, <2>2 DEF Applying
  <2>5. t.next - 1 = n + 1 /\ t.next <= Len(p.ops) + 1
    <3>1. m + 1 <= Len(p.ops) + 1
      BY <1>2, <1>3 DEF Sound
    <3> QED
      BY <1>3, <2>4, <3>1
  <2>6. Doable(old.work, op) /\ Versioned(op)
    BY <1>2, <1>3, <1>4, <1>6, <1>b DEF Doable, Sound, Meant
  <2>7. Worked(skills, p, n + 1, work)
    BY <1>2, <1>3, <1>4, <1>b, <2>1, <2>6, WorkedStep
  <2>8. Fits(c, t)
    BY <1>4, <2>4, <2>5, <2>7 DEF Fits
  <2>9. Fits(c, t)'
    BY <1>1, <2>3, <2>8, StillFits
  <2> QED
    BY <1>1, <2>3, <2>9, MoveKeeps
<1> QED
  BY <1>5, <1>6

LEMMA LookAgainKeeps ==
  ASSUME Inv, KeptInv, NEW c \in Clients, LookAgain(c)
  PROVE  KeptInv'
<1>a. PICK old, p : old = task[c] /\ p = old.proposal
  OBVIOUS
<1>1. /\ UNCHANGED <<skills, receipts, raced, lock>> /\ old.at = "reject"
      /\ old = Refused(old)
  BY <1>a DEF LookAgain, tables, At, Inv, TableInv, GoodTask, Idle
<1>2. Meant(p) /\ (~raced => ~Known(p.key))
  BY <1>1, <1>a DEF KeptInv, Fits
<1>3. CASE Known(p.key)
  <2>1. PICK outcome : outcome = ReceiptOf(p.key).outcome
    OBVIOUS
  <2>2. PICK t : t = [at |-> "done", proposal |-> p, outcome |-> outcome]
    OBVIOUS
  <2>3. Become(c, t)
    BY <1>3, <1>a, <2>1, <2>2 DEF LookAgain, Answer
  <2>4. ASSUME outcome = "COMMITTED", p \notin Direct
        PROVE  \E i \in CommittedIn(receipts) : OpsOf(receipts, i) = p.ops
    <3>1. PICK i \in DOMAIN receipts : ReceiptOf(p.key) = receipts[i] /\ receipts[i].proposal.key = p.key
      BY <1>3, KnownReceipt
    <3>2. PICK q : q = receipts[i].proposal
      OBVIOUS
    <3>3. Meant(q) /\ q.key = p.key
      BY <3>1, <3>2 DEF KeptInv
    <3>4. "op" \in DOMAIN p.key /\ p.ops = <<p.key>>
      BY <1>2, <2>4 DEF Meant
    <3>5. q.ops = p.ops
      BY <3>3, <3>4, KeysAssumption DEF Meant
    <3> QED
      BY <2>1, <2>4, <3>1, <3>2, <3>5 DEF CommittedIn, OpsOf
  <2>5. Fits(c, t)
    BY <1>2, <1>3, <2>2, <2>4 DEF Fits
  <2>6. Fits(c, t)'
    BY <1>1, <2>5, StillFits
  <2> QED
    BY <1>1, <2>3, <2>6, MoveKeeps
<1>4. CASE ~Known(p.key)
  <2>1. PICK t : t = [old EXCEPT !.at = "record"]
    OBVIOUS
  <2>2. Become(c, t)
    BY <1>4, <1>a, <2>1 DEF LookAgain, Goto
  <2>3. t.at = "record" /\ t.proposal = p
    BY <1>1, <1>a, <2>1 DEF Refused
  <2>4. Fits(c, t)
    BY <1>2, <2>3 DEF Fits
  <2>5. Fits(c, t)'
    BY <1>1, <2>4, StillFits
  <2> QED
    BY <1>1, <2>2, <2>5, MoveKeeps
<1> QED
  BY <1>3, <1>4

LEMMA EndKeeps ==
  ASSUME Inv, KeptInv, NEW c \in Clients, Return(c) \/ Crash(c)
  PROVE  KeptInv'
<1>1. /\ Become(c, Idle) /\ UNCHANGED <<skills, receipts, raced>>
      /\ \A b \in Clients \ {c} : lock = b => lock' = b
  BY DEF Return, Crash, tables
<1>2. Fits(c, Idle)'
  BY DEF Fits, Idle
<1> QED
  BY <1>1, <1>2, MoveKeeps

\* A call writes its receipt, and is done: nobody else holds the lock if it
\* writes the table.
LEMMA ReceiptKeeps ==
  ASSUME Inv, KeptInv, NEW c \in Clients, ~At(c, "idle"), NEW outcome, Answer(c, outcome),
         NEW r, receipts' = Append(receipts, r), r.proposal = task[c].proposal,
         outcome = "COMMITTED" => r.outcome = "COMMITTED",
         Stored(receipts', skills'), UNCHANGED raced,
         \A b \in Clients \ {c} : At(b, "apply") => UNCHANGED <<skills, lock>>
  PROVE  KeptInv'
<1>a. PICK p : p = task[c].proposal
  OBVIOUS
<1>1. PICK t : t = [at |-> "done", proposal |-> p, outcome |-> outcome]
  OBVIOUS
<1>2. /\ task'[c] = t
      /\ \A b \in Clients \ {c} : task'[b] = task[b]
  BY <1>1, <1>a, OthersStay DEF Inv, Answer
<1>3. Meant(p)
  BY <1>a DEF KeptInv, Fits, At
<1>4. PICK n : n = Len(receipts) + 1
  OBVIOUS
<1>5. More(receipts, r, receipts')
  BY AppendIsMore DEF Inv, ChainInv
<1>6. /\ \A i \in DOMAIN receipts : i \in DOMAIN receipts' /\ receipts'[i] = receipts[i]
      /\ n \in DOMAIN receipts' /\ receipts'[n] = r
      /\ \A i \in DOMAIN receipts' : i \in DOMAIN receipts \/ i = n
  BY <1>4, <1>5 DEF More
<1>7. \A i \in DOMAIN receipts' : Meant(receipts'[i].proposal)
  BY <1>3, <1>6, <1>a DEF KeptInv
<1>8. Fits(c, t)'
  <2>1. ASSUME outcome = "COMMITTED"
        PROVE  n \in CommittedIn(receipts') /\ OpsOf(receipts', n) = p.ops
    BY <1>6, <1>a, <2>1 DEF CommittedIn, OpsOf
  <2> QED
    BY <1>1, <1>3, <2>1 DEF Fits, Meant
<1>9. ASSUME NEW b \in Clients \ {c} PROVE Fits(b, task[b])'
  <2>a. PICK u : u = task[b]
    OBVIOUS
  <2>1. Fits(b, u)
    BY <2>a DEF KeptInv
  <2>2. u.at # "idle" => Meant(u.proposal)
    BY <2>1 DEF Fits
  <2>3. u.at = "apply" => /\ lock' = b /\ u.next <= Len(u.proposal.ops) + 1
                          /\ Worked(skills', u.proposal, u.next - 1, u.work)
    BY <2>1, <2>a DEF Fits, At
  <2>4. ASSUME u.at = "done", u.outcome = "COMMITTED", u.proposal \in Direct => ~raced'
        PROVE  \E i \in CommittedIn(receipts') : OpsOf(receipts', i) = u.proposal.ops
    <3>1. PICK i \in CommittedIn(receipts) : OpsOf(receipts, i) = u.proposal.ops
      BY <2>1, <2>4 DEF Fits
    <3> QED
      BY <1>6, <3>1 DEF CommittedIn, OpsOf
  <2>5. ~raced' => u.at = "idle"
    BY <2>a DEF Inv, ChainInv, At
  <2>6. Fits(b, u)'
    BY <2>2, <2>3, <2>4, <2>5 DEF Fits, Meant
  <2>7. u = task'[b]
    BY <1>2, <2>a
  <2> QED
    BY <2>6, <2>7 DEF Fits, Known
<1>10. \A b \in Clients : Fits(b, task[b])'
  <2>1. Fits(c, task[c])'
    BY <1>2, <1>8 DEF Fits, Known
  <2> QED
    BY <1>9, <2>1
<1> QED
  BY <1>7, <1>10 DEF KeptInv, Meant

LEMMA CommitKeeps ==
  ASSUME Inv, KeptInv, NEW c \in Clients, Commit(c)
  PROVE  KeptInv'
<1>a. PICK old, p, m : old = task[c] /\ p = old.proposal /\ m = old.next
  OBVIOUS
<1>b. PICK r : r = Receipt(c, "COMMITTED", old.work)
  OBVIOUS
<1>1. /\ old.at = "apply" /\ m > Len(p.ops) /\ skills' = old.work
      /\ receipts' = Append(receipts, r) /\ Answer(c, "COMMITTED") /\ UNCHANGED raced
      /\ ~At(c, "idle")
  BY <1>a, <1>b DEF Commit, At
<1>2. r.proposal = p /\ r.outcome = "COMMITTED"
  BY <1>a, <1>b DEF Receipt
<1>3. Sound(p) /\ m \in Nat \ {0}
  <2>1. GoodTask(old)
    BY <1>a DEF Inv, TableInv
  <2> QED
    BY <1>1, <1>a, <2>1 DEF GoodTask, Idle
<1>4. lock = c /\ m <= Len(p.ops) + 1 /\ Worked(skills, p, m - 1, old.work)
  BY <1>1, <1>a DEF KeptInv, Fits
<1>5. m - 1 = Len(p.ops)
  BY <1>1, <1>3, <1>4 DEF Sound
<1>6. Stored(receipts', skills')
  <2>1. More(receipts, r, receipts')
    BY <1>1, AppendIsMore DEF Inv, ChainInv
  <2> QED
    BY <1>1, <1>2, <1>3, <1>4, <1>5, <2>1, StoredCommit DEF KeptInv
<1>7. \A b \in Clients \ {c} : ~At(b, "apply")
  BY <1>4 DEF KeptInv, Fits, At
<1> QED
  BY <1>1, <1>2, <1>6, <1>7, <1>a, ReceiptKeeps

LEMMA RejectionKeeps ==
  ASSUME Inv, KeptInv, NEW c \in Clients, RecordRejection(c)
  PROVE  KeptInv'
<1>a. PICK old, p : old = task[c] /\ p = old.proposal
  OBVIOUS
<1>1. UNCHANGED <<skills, lock, raced>> /\ old.at = "record" /\ ~At(c, "idle")
  BY <1>a DEF RecordRejection, At
<1>2. old.outcome # "COMMITTED" /\ Meant(p)
  BY <1>1, <1>a DEF Inv, TableInv, GoodTask, Idle, KeptInv, Fits
<1>3. CASE Reused(p)
  <2>1. PICK t : t = [at |-> "done", proposal |-> p, outcome |-> "ERROR"]
    OBVIOUS
  <2>2. Become(c, t) /\ UNCHANGED receipts
    BY <1>3, <1>a, <2>1 DEF RecordRejection, Answer
  <2>3. Fits(c, t)'
    BY <1>2, <2>1 DEF Fits, Meant
  <2> QED
    BY <1>1, <2>2, <2>3, MoveKeeps
<1>4. CASE ~Reused(p)
  <2>1. PICK r : r = Receipt(c, old.outcome, old.before)
    OBVIOUS
  <2>2. receipts' = Append(receipts, r) /\ Answer(c, old.outcome)
    BY <1>4, <1>a, <2>1 DEF RecordRejection
  <2>3. r.proposal = p /\ r.outcome = old.outcome
    BY <1>a, <2>1 DEF Receipt
  <2>4. More(receipts, r, receipts')
    BY <2>2, AppendIsMore DEF Inv, ChainInv
  <2>5. Stored(receipts', skills)
    BY <1>2, <2>3, <2>4, StoredRefusal DEF KeptInv
  <2>6. Stored(receipts', skills')
    BY <1>1, <2>5
  <2> QED
    BY <1>1, <1>2, <1>a, <2>2, <2>3, <2>6, ReceiptKeeps
<1> QED
  BY <1>3, <1>4

LEMMA KeptStep == Inv /\ KeptInv /\ [Next]_vars => KeptInv'
<1> SUFFICES ASSUME Inv, KeptInv, [Next]_vars PROVE KeptInv'
  OBVIOUS
<1>1. ASSUME UNCHANGED <<skills, receipts, lock, task, raced>> PROVE KeptInv'
  BY <1>1 DEF KeptInv, Fits, Known, Stored, PlainHistory, CommittedIn, OpsOf
<1>2. ASSUME NEW c \in Clients, Proceeds(c) PROVE KeptInv'
  BY <1>2, LookupKeeps, BeginKeeps, ApplyKeeps, LookAgainKeeps, EndKeeps DEF Proceeds
<1> QED
  BY <1>1, <1>2, ProposeKeeps, CommitKeeps, RejectionKeeps, NextCases DEF vars, tables, Tick

LEMMA KeptAlways == Spec => []KeptInv
<1>1. Init => Inv
  BY InitTable, InitChain DEF Inv
<1> QED
  BY <1>1, KeptInit, NextInv, KeptStep, PTL DEF Spec

\* The model's names for what the invariant speaks of.
LEMMA HistoryIs ==
  /\ Committed = CommittedIn(receipts)
  /\ \A i, j : <<i, j>> \in History <=> i \in Committed /\ j \in DOMAIN OpsOf(receipts, i)
  /\ \A at \in History : at = <<at[1], at[2]>>
  /\ \A i, j : OperationAt(<<i, j>>) = OpsOf(receipts, i)[j]
BY DEF Committed, CommittedIn, History, OperationAt, OpsOf

\* What was committed is kept, no version is revised twice, and who is told
\* COMMITTED finds its operations committed, whatever calls race for a version
\* or a key, are refused, retried, or die.
THEOREM CommittedIsKept == Spec => []NothingCommittedIsLost
<1>1. KeptInv => NothingCommittedIsLost
  <2> SUFFICES ASSUME KeptInv PROVE NothingCommittedIsLost
    OBVIOUS
  <2>0. Stored(receipts, skills)
    BY DEF KeptInv
  <2>1. ASSUME NEW at \in Puts
        PROVE  LET record == OperationAt(at).record
               IN record.version \in DOMAIN skills /\ skills[record.version].content = record.content
    <3>1. PICK i, j : at = <<i, j>> /\ i \in CommittedIn(receipts) /\ j \in DOMAIN OpsOf(receipts, i)
      BY HistoryIs DEF Puts
    <3>2. OperationAt(at) = OpsOf(receipts, i)[j]
      BY <3>1, HistoryIs
    <3>3. Held(OperationAt(at), skills)
      BY <2>0, <3>1, <3>2 DEF Stored
    <3> QED
      BY <3>3 DEF Puts, Held, IsPut
  <2>2. ASSUME NEW at \in Puts, NEW other \in Puts,
               OperationAt(at).op = "REVISE", OperationAt(other).op = "REVISE",
               OperationAt(at).version = OperationAt(other).version
        PROVE  at = other
    <3>1. PICK i, j : at = <<i, j>> /\ i \in CommittedIn(receipts) /\ j \in DOMAIN OpsOf(receipts, i)
      BY HistoryIs DEF Puts
    <3>2. PICK k, l : other = <<k, l>> /\ k \in CommittedIn(receipts) /\ l \in DOMAIN OpsOf(receipts, k)
      BY HistoryIs DEF Puts
    <3>3. OperationAt(at) = OpsOf(receipts, i)[j] /\ OperationAt(other) = OpsOf(receipts, k)[l]
      BY <3>1, <3>2, HistoryIs
    <3> QED
      BY <2>0, <2>2, <3>1, <3>2, <3>3 DEF Stored
  <2>3. ASSUME NEW c \in Clients, At(c, "done"), task[c].outcome = "COMMITTED",
               task[c].proposal \in Direct => ~raced
        PROVE  \E i \in Committed : receipts[i].proposal.ops = task[c].proposal.ops
    BY <2>3, HistoryIs DEF KeptInv, Fits, At, OpsOf
  <2> QED
    BY <2>1, <2>2, <2>3 DEF NothingCommittedIsLost
<1> QED
  BY <1>1, KeptAlways, PTL

\* verify_skill_replay succeeds: as long as nothing approved is imported and no
\* version is created twice, the committed proposals alone give the table.
THEOREM PlainHistoriesReplay == Spec => []ReplayOfPlain
<1>1. KeptInv => ReplayOfPlain
  <2> SUFFICES ASSUME KeptInv, Plain PROVE Replay = skills
    BY DEF ReplayOfPlain
  <2>1. PlainHistory(receipts)
    <3> SUFFICES ASSUME NEW i \in CommittedIn(receipts), NEW j \in DOMAIN OpsOf(receipts, i),
                        IsPut(OpsOf(receipts, i)[j])
                 PROVE  /\ OpsOf(receipts, i)[j].record.status # "APPROVED"
                        /\ \A k \in CommittedIn(receipts) : \A l \in DOMAIN OpsOf(receipts, k) :
                             /\ IsPut(OpsOf(receipts, k)[l])
                             /\ OpsOf(receipts, k)[l].record.version = OpsOf(receipts, i)[j].record.version
                             => i = k /\ j = l
      BY DEF PlainHistory
    <3>1. <<i, j>> \in Puts /\ OperationAt(<<i, j>>) = OpsOf(receipts, i)[j]
      BY HistoryIs DEF Puts, IsPut
    <3>2. ASSUME NEW k \in CommittedIn(receipts), NEW l \in DOMAIN OpsOf(receipts, k),
                 IsPut(OpsOf(receipts, k)[l]),
                 OpsOf(receipts, k)[l].record.version = OpsOf(receipts, i)[j].record.version
          PROVE  i = k /\ j = l
      <4>1. <<k, l>> \in Puts /\ OperationAt(<<k, l>>) = OpsOf(receipts, k)[l]
        BY <3>2, HistoryIs DEF Puts, IsPut
      <4>2. <<i, j>> = <<k, l>>
        BY <3>1, <3>2, <4>1 DEF Plain
      <4> QED
        BY <4>2
    <3> QED
      BY <3>1, <3>2 DEF Plain
  <2> QED
    BY <2>1 DEF KeptInv, Stored, Replay
<1> QED
  BY <1>1, KeptAlways, PTL
=============================================================================
