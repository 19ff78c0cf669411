------------------------------- MODULE Drafts -------------------------------
(***************************************************************************)
(* The review queue: drafts live in the product database, the proposals    *)
(* they carry are committed to the ledger of the kernel database, and no   *)
(* transaction spans the two.                                              *)
(*                                                                         *)
(* commit_draft, edit_draft and reject_draft read the draft and check its  *)
(* status first, and write in a transaction of their own later; commit     *)
(* goes through the kernel in between.  Any other call may run between two *)
(* of these steps, and a process may die there.                            *)
(*                                                                         *)
(* The kernel is the SharedLedger that KernelCommit implements, together   *)
(* with the oldest receipt of every key, which is what a retry gets back.  *)
(* No code gives a draft an expiry date, so expire_drafts changes nothing. *)
(***************************************************************************)
EXTENDS Naturals, Sequences

CONSTANTS
  Clients,          \* processes: CLI, MCP server, web review
  Drafts,           \* the drafts extraction may stage
  Documents,        \* kernel proposals, as drafted or as edited
  Staged,           \* the document each draft is staged with
  Invalid,          \* documents the contract schemas refuse
  Foreign,          \* proposals other callers commit directly
  Keys, KeyOf,      \* the idempotency key of each document and proposal
  Stores, InitStore,
  Evaluate(_, _),   \* the kernel's verdict: [outcome, store]
  MaxCalls          \* bound on the calls of one behaviour

\* Drafts are staged with documents; nobody else proposes what a draft says, nor
\* does the kernel take what its schemas refuse.
ASSUME DraftsAssumption ==
  /\ Staged \in [Drafts -> Documents]
  /\ Invalid \subseteq Documents
  /\ Foreign \cap Documents = {}

VARIABLES
  drafts,           \* the rows staged so far: [status, version, document, receipt]
  audit,            \* the DRAFT_UPDATED rows of product_audit, in order
  entries, store,   \* the kernel's ledger and tables
  receipts,         \* the oldest receipt of each key: [document, outcome]
  task,             \* what each client is in the middle of
  calls,            \* calls started, bounded by MaxCalls
  raced             \* history: drafts a call worked on while another call ran

kernel == <<entries, store, receipts>>
vars == <<drafts, audit, kernel, task, calls, raced>>

Kernel == INSTANCE SharedLedger WITH Proposals <- Documents \cup Foreign, state <- store

Open == {"DRAFT", "REVIEWED"}
Final == {"COMMITTED", "REJECTED", "EXPIRED"}
Idle == [at |-> "idle"]
NoReceipt == [ok |-> FALSE]

At(c, label) == task[c].at = label
Become(c, t) == task' = [task EXCEPT ![c] = t]

Init ==
  /\ drafts = [d \in {} |-> Idle]
  /\ audit = <<>>
  /\ Kernel!Init
  /\ receipts = [k \in {} |-> Idle]
  /\ task = [c \in Clients |-> Idle]
  /\ calls = 0
  /\ raced = {}

-----------------------------------------------------------------------------
(* Calls: the draft is read, with no transaction open.                     *)

\* put_draft: extraction stages a draft.
Stage(d) ==
  /\ d \notin DOMAIN drafts
  /\ drafts' = [e \in DOMAIN drafts \cup {d} |->
                  IF e # d THEN drafts[e]
                  ELSE [status |-> "DRAFT", version |-> 1, document |-> Staged[d],
                        receipt |-> NoReceipt]]
  /\ UNCHANGED <<audit, kernel, task, calls, raced>>

Call(c, t) ==
  /\ At(c, "idle")
  /\ calls < MaxCalls
  /\ calls' = calls + 1
  /\ Become(c, t)
  /\ LET others == {b \in Clients : ~At(b, "idle")}
     IN raced' = IF others = {} THEN raced ELSE raced \cup {t.draft} \cup {task[b].draft : b \in others}
  /\ UNCHANGED <<drafts, audit, kernel>>

\* commit_draft goes on with the document it has read.
CommitDraft(c, d) ==
  /\ drafts[d].status \in Open
  /\ Call(c, [at |-> "commit", draft |-> d, document |-> drafts[d].document])

\* edit_draft: the caller names the version it has looked at, the current one
\* or an older one.
EditDraft(c, d, document, version) ==
  /\ drafts[d].status \in Open
  /\ document \notin Invalid
  /\ Call(c, [at |-> "edit", draft |-> d, document |-> document, expected |-> version])

\* reject_draft: a failed draft may still be rejected.
RejectDraft(c, d) ==
  /\ drafts[d].status \notin Final
  /\ Call(c, [at |-> "reject", draft |-> d])

-----------------------------------------------------------------------------
(* The kernel's part of commit_draft.                                      *)

Answered(k) == k \in DOMAIN receipts
Record(document, outcome) ==
  receipts' = [k \in DOMAIN receipts \cup {KeyOf[document]} |->
                 IF Answered(k) THEN receipts[k]
                 ELSE [document |-> document, outcome |-> outcome]]
Accepted(document) == document \in {entries[i] : i \in DOMAIN entries}

\* A slip: whatever has a receipt counts as committed.
StatusForAny(outcome) == "COMMITTED"
StatusFor(outcome) == IF outcome \in Kernel!Accepting THEN "COMMITTED" ELSE "FAILED"
ToFinish(c, status) ==
  Become(c, [at |-> "finish", draft |-> task[c].draft, document |-> task[c].document,
             status |-> status])

\* validate_proposal refuses the document, without a receipt.
Refuse(c) ==
  /\ At(c, "commit")
  /\ task[c].document \in Invalid
  /\ ToFinish(c, "FAILED")
  /\ UNCHANGED <<drafts, audit, kernel, calls, raced>>

\* The key has a receipt: the same document gets it back, another is refused.
AnswerPrior(c) ==
  LET document == task[c].document
      prior == receipts[KeyOf[document]]
  IN /\ At(c, "commit")
     /\ document \notin Invalid
     /\ Answered(KeyOf[document])
     /\ ToFinish(c, IF prior.document = document THEN StatusFor(prior.outcome) ELSE "FAILED")
     /\ UNCHANGED <<drafts, audit, kernel, calls, raced>>

\* The proposal enters the ledger, its receipt with it.
Accept(c) ==
  LET document == task[c].document
  IN /\ At(c, "commit")
     /\ document \notin Invalid
     /\ ~Answered(KeyOf[document])
     /\ Kernel!Accept(document)
     /\ Record(document, Evaluate(document, store).outcome)
     /\ ToFinish(c, "COMMITTED")
     /\ UNCHANGED <<drafts, audit, calls, raced>>

\* The proposal is refused; the receipt comes in a second transaction.
Reject(c) ==
  LET document == task[c].document
  IN /\ At(c, "commit")
     /\ document \notin Invalid
     /\ ~Answered(KeyOf[document])
     /\ Evaluate(document, store).outcome \in Kernel!Rejecting
     /\ Become(c, [at |-> "refused", draft |-> task[c].draft, document |-> document,
                   outcome |-> Evaluate(document, store).outcome])
     /\ UNCHANGED <<drafts, audit, kernel, calls, raced>>
RecordRejection(c) ==
  /\ At(c, "refused")
  /\ Record(task[c].document, task[c].outcome)
  /\ ToFinish(c, "FAILED")
  /\ UNCHANGED <<drafts, audit, entries, store, calls, raced>>

\* Somebody else's proposal enters the ledger.
ForeignCommit(p) ==
  /\ ~Answered(KeyOf[p])
  /\ Kernel!Accept(p)
  /\ Record(p, Evaluate(p, store).outcome)
  /\ UNCHANGED <<drafts, audit, task, calls, raced>>

-----------------------------------------------------------------------------
(* The second half of each call: one transaction of the product database.  *)

\* update_draft: the row as it is now gets the new status, whatever its status
\* has become, and the audit records the change.
UpdateDraft(d, status, version, document, receipt) ==
  /\ drafts' = [drafts EXCEPT ![d] = [status |-> status, version |-> version,
                                      document |-> document, receipt |-> receipt]]
  /\ audit' = Append(audit, [draft |-> d, from |-> drafts[d].status, to |-> status,
                             previous |-> drafts[d].version, version |-> version,
                             receipt |-> receipt])

\* commit_draft's last write.
Finish(c) ==
  LET d == task[c].draft
  IN /\ At(c, "finish")
     /\ UpdateDraft(d, task[c].status, drafts[d].version, drafts[d].document,
                    [ok |-> task[c].status = "COMMITTED", document |-> task[c].document])
     /\ Become(c, Idle)
     /\ UNCHANGED <<kernel, calls, raced>>

\* A slip: the version is not compared.
EditAnyVersion(c) ==
  LET d == task[c].draft
  IN /\ At(c, "edit")
     /\ UpdateDraft(d, "REVIEWED", task[c].expected + 1, task[c].document, NoReceipt)
     /\ Become(c, Idle)
     /\ UNCHANGED <<kernel, calls, raced>>
\* edit_draft's, unless the version has moved.
Edit(c) ==
  LET d == task[c].draft
  IN /\ At(c, "edit")
     /\ IF drafts[d].version = task[c].expected
        THEN UpdateDraft(d, "REVIEWED", drafts[d].version + 1, task[c].document, NoReceipt)
        ELSE UNCHANGED <<drafts, audit>>
     /\ Become(c, Idle)
     /\ UNCHANGED <<kernel, calls, raced>>

\* reject_draft's.
RejectWrite(c) ==
  LET d == task[c].draft
  IN /\ At(c, "reject")
     /\ UpdateDraft(d, "REJECTED", drafts[d].version, drafts[d].document, NoReceipt)
     /\ Become(c, Idle)
     /\ UNCHANGED <<kernel, calls, raced>>

\* The process dies, or its busy timeout ends the call with an exception.
Crash(c) ==
  /\ ~At(c, "idle")
  /\ Become(c, Idle)
  /\ UNCHANGED <<drafts, audit, kernel, calls, raced>>

Next ==
  \/ \E d \in Drafts : Stage(d)
  \/ \E c \in Clients, d \in DOMAIN drafts :
       \/ CommitDraft(c, d)
       \/ \E document \in Documents, version \in 1 .. drafts[d].version :
            EditDraft(c, d, document, version)
       \/ RejectDraft(c, d)
  \/ \E c \in Clients :
       \/ Refuse(c) \/ AnswerPrior(c) \/ Accept(c) \/ Reject(c) \/ RecordRejection(c)
       \/ Finish(c) \/ Edit(c) \/ RejectWrite(c) \/ Crash(c)
  \/ \E p \in Foreign : ForeignCommit(p)

Spec == Init /\ [][Next]_vars

-----------------------------------------------------------------------------
(***************************************************************************)
(* Properties.                                                             *)
(***************************************************************************)
Changes(d) == {i \in DOMAIN audit : audit[i].draft = d}

\* A draft says COMMITTED only of a document that is in the ledger, although
\* the two are in different databases and the process may die between them.  A
\* draft whose calls never overlapped with another one tells the whole truth,
\* whatever crashed before: the document it has now is in the ledger if it is
\* committed and is not if it failed, and a final status stays.
CommittedIsAccepted ==
  /\ \A d \in DOMAIN drafts :
       drafts[d].status = "COMMITTED" => Accepted(drafts[d].receipt.document)
  /\ \A d \in DOMAIN drafts \ raced :
       /\ drafts[d].status = "COMMITTED" => Accepted(drafts[d].document)
       /\ drafts[d].status = "FAILED" => ~Accepted(drafts[d].document)
       /\ \A i \in Changes(d) : audit[i].from \notin Final

\* The changes the audit tells of a row lead to the row as it is.
AuditTellsHistory ==
  \A d \in DOMAIN drafts :
    /\ Changes(d) = {} => drafts[d].status = "DRAFT" /\ drafts[d].version = 1
    /\ \A i \in Changes(d) :
         /\ (\A j \in Changes(d) : i <= j) => audit[i].from = "DRAFT" /\ audit[i].previous = 1
         /\ (\A j \in Changes(d) : j <= i) =>
              audit[i].to = drafts[d].status /\ audit[i].version = drafts[d].version
         /\ \A j \in Changes(d) :
              i < j /\ (\A k \in Changes(d) : k <= i \/ j <= k) =>
                audit[j].from = audit[i].to /\ audit[j].previous = audit[i].version

\* No lost edit: of two editors who looked at the same version of a draft, only
\* one is let through.  The audit tells each change of a row's status and
\* version, from where the one before it ended, so that it shows the loser too.
EditsNotLost ==
  /\ AuditTellsHistory
  /\ \A i, j \in DOMAIN audit :
       /\ audit[i].draft = audit[j].draft
       /\ audit[i].version = audit[j].version
       /\ audit[i].version > audit[i].previous
       /\ audit[j].version > audit[j].previous
       => i = j

\* DRAFT_FINAL, DRAFT_NOT_EDITABLE, DRAFT_NOT_COMMITTABLE: the status of a
\* committed, rejected or expired draft never changes.
FinalIsFinal ==
  \A i \in DOMAIN audit : audit[i].from \in Final => audit[i].to = audit[i].from
=============================================================================
