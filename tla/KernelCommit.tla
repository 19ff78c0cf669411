---------------------------- MODULE KernelCommit ----------------------------
(***************************************************************************)
(* Kernel.commit as several processes run it against one SQLite file.      *)
(*                                                                         *)
(* Every CLI, MCP or product process opens its own connection.  A commit   *)
(* runs as BEGIN IMMEDIATE .. COMMIT, so writers exclude each other, but a  *)
(* rejected call rolls back, reads the state root table by table with no   *)
(* transaction open, and records its receipt in a second transaction.      *)
(* Between those steps any other process may run, the caller may time out  *)
(* waiting for the write lock, and a process may die.                      *)
(*                                                                         *)
(* The data is abstract.  A proposal is a model value, standing for its    *)
(* content hash; a store is the tuple of the tables' contents, in the      *)
(* order state_root reads them; Evaluate(p, s) is the verdict of the       *)
(* validators and reducers on store s.  An entry hash covers the whole     *)
(* prefix, so the hash of entry n is written n, and 0 is the missing head. *)
(***************************************************************************)
EXTENDS Naturals, Sequences, FiniteSets

CONSTANTS
  Clients,          \* processes with a connection to the workspace
  Proposals,        \* the proposals clients may submit, one per content hash
  Keys,             \* idempotency keys
  KeyOf,            \* the key each proposal carries
  Preflight,        \* proposals refused before any transaction (size, depth, form)
  NumTables,        \* materialized tables the state root covers
  Contents,         \* possible contents of one table
  InitStore,        \* the store of a freshly created workspace
  Evaluate(_, _),   \* the verdict on a proposal: [outcome, store]
  NoClient,         \* nobody holds the write lock
  MaxCalls          \* bound on the calls of one behaviour

Accepting == {"COMMITTED", "FACT_CONFLICT"}
Rejecting == {"VALIDATION_ERROR", "TRANSACTION_CONFLICT"}
Tables == 1 .. NumTables
Stores == [Tables -> Contents]
Verdicts == [outcome : Accepting \cup Rejecting, store : Stores]

ASSUME KeysAssumption == KeyOf \in [Proposals -> Keys] /\ Preflight \subseteq Proposals
ASSUME StoreAssumption == NumTables \in Nat \ {0} /\ InitStore \in Stores
ASSUME VerdictAssumption ==
  \A p \in Proposals, s \in Stores : Evaluate(p, s) \in Verdicts
ASSUME ClientAssumption == NoClient \notin Clients /\ MaxCalls \in Nat

VARIABLES
  store,            \* committed contents of the materialized tables
  ledger,           \* committed rows of the ledger table
  receipts,         \* committed rows of the receipts table, in id order
  lock,             \* the connection inside BEGIN IMMEDIATE, or NoClient
  pc,               \* where each client is in commit
  req,              \* the proposal each client is committing
  head,             \* its head_before
  verdict,          \* the outcome it is about to record
  work,             \* the tables as its open transaction has changed them
  root,             \* the tables it has read so far for a state root
  calls             \* calls started, bounded by MaxCalls

db == <<store, ledger, receipts>>
frame == <<req, head, verdict, work, root>>
vars == <<db, lock, pc, frame, calls>>

NoProposal == "none"
NoVerdict == "none"

-----------------------------------------------------------------------------
\* The receipts already recorded under a key, and the oldest of them
\* (SELECT ... ORDER BY id LIMIT 1).
PriorReceipts(k) == {i \in DOMAIN receipts : receipts[i].key = k}
IsFirst(i, k) ==
  /\ i \in PriorReceipts(k)
  /\ \A j \in PriorReceipts(k) : i <= j

\* A row of the receipts table; seq = 0 for a rejection, whose head does not move.
Receipt(p, outcome, seq, before, after, stateRoot) ==
  [key |-> KeyOf[p], proposal |-> p, outcome |-> outcome, seq |-> seq,
   before |-> before, after |-> after, root |-> stateRoot]

At(c, label) == pc[c] = label
Goto(c, label) == pc' = [pc EXCEPT ![c] = label]

\* The call is over: its frame is gone.
Return(c) ==
  /\ Goto(c, "idle")
  /\ req' = [req EXCEPT ![c] = NoProposal]
  /\ head' = [head EXCEPT ![c] = 0]
  /\ verdict' = [verdict EXCEPT ![c] = NoVerdict]
  /\ work' = [work EXCEPT ![c] = InitStore]
  /\ root' = [root EXCEPT ![c] = <<>>]

Init ==
  /\ store = InitStore
  /\ ledger = <<>>
  /\ receipts = <<>>
  /\ lock = NoClient
  /\ pc = [c \in Clients |-> "idle"]
  /\ req = [c \in Clients |-> NoProposal]
  /\ head = [c \in Clients |-> 0]
  /\ verdict = [c \in Clients |-> NoVerdict]
  /\ work = [c \in Clients |-> InitStore]
  /\ root = [c \in Clients |-> <<>>]
  /\ calls = 0

-----------------------------------------------------------------------------

\* A caller submits a proposal, for the first time or again.  The head is read
\* before any transaction; a proposal refused on its form skips the
\* transaction and the idempotency lookup altogether.
Submit(c, p) ==
  /\ At(c, "idle")
  /\ calls < MaxCalls
  /\ calls' = calls + 1
  /\ req' = [req EXCEPT ![c] = p]
  /\ head' = [head EXCEPT ![c] = Len(ledger)]
  /\ IF p \in Preflight
     THEN Goto(c, "root") /\ verdict' = [verdict EXCEPT ![c] = "VALIDATION_ERROR"]
     ELSE Goto(c, "begin") /\ UNCHANGED verdict
  /\ UNCHANGED <<db, lock, work, root>>

\* Slips: a deferred transaction, a head that is not read again, one off by one.
BeginDeferred(c) ==
  /\ At(c, "begin")
  /\ lock' = c
  /\ head' = [head EXCEPT ![c] = Len(ledger)]
  /\ Goto(c, "decide")
  /\ UNCHANGED <<db, req, verdict, work, root, calls>>
BeginStaleHead(c) ==
  /\ At(c, "begin")
  /\ lock = NoClient
  /\ lock' = c
  /\ Goto(c, "decide")
  /\ UNCHANGED <<db, req, head, verdict, work, root, calls>>
BeginOffByOne(c) ==
  /\ At(c, "begin")
  /\ lock = NoClient
  /\ lock' = c
  /\ head' = [head EXCEPT ![c] = Len(ledger) - 1]
  /\ Goto(c, "decide")
  /\ UNCHANGED <<db, req, verdict, work, root, calls>>

\* BEGIN IMMEDIATE succeeds only when no other connection writes; the head is
\* read again inside the transaction.
Begin(c) ==
  /\ At(c, "begin")
  /\ lock = NoClient
  /\ lock' = c
  /\ head' = [head EXCEPT ![c] = Len(ledger)]
  /\ Goto(c, "decide")
  /\ UNCHANGED <<db, req, verdict, work, root, calls>>

\* A slip: the rollback leaves the lock behind.
RollBackLocked(c, outcome) ==
  /\ verdict' = [verdict EXCEPT ![c] = outcome]
  /\ Goto(c, "root")
  /\ UNCHANGED <<db, lock, req, head, work, root, calls>>

\* ROLLBACK first; the receipt of the rejection is written later.
RollBack(c, outcome) ==
  /\ lock' = NoClient
  /\ verdict' = [verdict EXCEPT ![c] = outcome]
  /\ Goto(c, "root")
  /\ UNCHANGED <<db, req, head, work, root, calls>>

\* The key is known for this very proposal: the caller gets the first receipt.
AnswerPrior(c) ==
  /\ At(c, "decide")
  /\ \E i \in PriorReceipts(KeyOf[req[c]]) :
       /\ IsFirst(i, KeyOf[req[c]])
       /\ receipts[i].proposal = req[c]
  /\ lock' = NoClient
  /\ Return(c)
  /\ UNCHANGED <<db, calls>>

\* The key is known for another proposal: IDEMPOTENCY_KEY_REUSE.
RejectKeyReuse(c) ==
  /\ At(c, "decide")
  /\ \E i \in PriorReceipts(KeyOf[req[c]]) :
       /\ IsFirst(i, KeyOf[req[c]])
       /\ receipts[i].proposal # req[c]
  /\ RollBack(c, "VALIDATION_ERROR")

\* A validator, a read, a guard or a constraint refuses the proposal.
Reject(c) ==
  /\ At(c, "decide")
  /\ PriorReceipts(KeyOf[req[c]]) = {}
  /\ Evaluate(req[c], store).outcome \in Rejecting
  /\ RollBack(c, Evaluate(req[c], store).outcome)

\* Slips: no lookup of the key, or one that overlooks rejected attempts.
ApplyBlind(c) ==
  /\ At(c, "decide")
  /\ Evaluate(req[c], store).outcome \in Accepting
  /\ verdict' = [verdict EXCEPT ![c] = Evaluate(req[c], store).outcome]
  /\ work' = [work EXCEPT ![c] = Evaluate(req[c], store).store]
  /\ Goto(c, "commit")
  /\ UNCHANGED <<db, lock, req, head, root, calls>>
ApplyAfterRejection(c) ==
  /\ At(c, "decide")
  /\ \A i \in PriorReceipts(KeyOf[req[c]]) : receipts[i].outcome \in Rejecting
  /\ ApplyBlind(c)

\* The operations run inside the transaction, on rows no other process sees.
Apply(c) ==
  /\ At(c, "decide")
  /\ PriorReceipts(KeyOf[req[c]]) = {}
  /\ Evaluate(req[c], store).outcome \in Accepting
  /\ verdict' = [verdict EXCEPT ![c] = Evaluate(req[c], store).outcome]
  /\ work' = [work EXCEPT ![c] = Evaluate(req[c], store).store]
  /\ Goto(c, "commit")
  /\ UNCHANGED <<db, lock, req, head, root, calls>>

\* Slips: the receipt links the entry before, or the tables stay behind.
CommitOldSeq(c) ==
  /\ At(c, "commit")
  /\ store' = work[c]
  /\ ledger' = Append(ledger, [proposal |-> req[c], prev |-> Len(ledger),
                               pre |-> store, post |-> work[c]])
  /\ receipts' = Append(receipts, Receipt(req[c], verdict[c], Len(ledger),
                                          Len(ledger), Len(ledger) + 1, work[c]))
  /\ lock' = NoClient
  /\ Return(c)
  /\ UNCHANGED calls
CommitOldTables(c) ==
  /\ At(c, "commit")
  /\ store' = [work[c] EXCEPT ![1] = store[1]]
  /\ ledger' = Append(ledger, [proposal |-> req[c], prev |-> Len(ledger),
                               pre |-> store, post |-> work[c]])
  /\ receipts' = Append(receipts, Receipt(req[c], verdict[c], Len(ledger) + 1,
                                          Len(ledger), Len(ledger) + 1, work[c]))
  /\ lock' = NoClient
  /\ Return(c)
  /\ UNCHANGED calls

\* COMMIT publishes the tables, the ledger row and the receipt together.
Commit(c) ==
  /\ At(c, "commit")
  /\ store' = work[c]
  /\ ledger' = Append(ledger, [proposal |-> req[c], prev |-> Len(ledger),
                               pre |-> store, post |-> work[c]])
  /\ receipts' = Append(receipts, Receipt(req[c], verdict[c], Len(ledger) + 1,
                                          Len(ledger), Len(ledger) + 1, work[c]))
  /\ lock' = NoClient
  /\ Return(c)
  /\ UNCHANGED calls

\* state_root outside a transaction: one SELECT per table, each of them a
\* snapshot of its own.
ReadTable(c) ==
  /\ At(c, "root")
  /\ root' = [root EXCEPT ![c] = Append(@, store[Len(@) + 1])]
  /\ Goto(c, IF Len(root[c]) + 1 = NumTables THEN "record" ELSE "root")
  /\ UNCHANGED <<db, lock, req, head, verdict, work, calls>>

\* The receipt of a rejection, in a transaction of its own: with the head and
\* the root read before it, unless the ledger was empty then (head_before is
\* None), in which case the head is read again.
RecordRejection(c) ==
  LET before == IF head[c] = 0 THEN Len(ledger) ELSE head[c]
  IN /\ At(c, "record")
     /\ lock = NoClient
     /\ receipts' = Append(receipts,
                           Receipt(req[c], verdict[c], 0, before, before, root[c]))
     /\ Return(c)
     /\ UNCHANGED <<store, ledger, lock, calls>>

\* "database is locked": the busy timeout of a connection runs out while
\* another one holds the write lock; the exception reaches the caller.
BusyTimeout(c) ==
  /\ At(c, "begin") \/ At(c, "record")
  /\ lock # NoClient
  /\ Return(c)
  /\ UNCHANGED <<db, lock, calls>>

\* The process dies; SQLite discards its open transaction and its lock.
Crash(c) ==
  /\ ~At(c, "idle")
  /\ lock' = IF lock = c THEN NoClient ELSE lock
  /\ Return(c)
  /\ UNCHANGED <<db, calls>>

Step(c) ==
  \/ Begin(c)
  \/ AnswerPrior(c)
  \/ RejectKeyReuse(c)
  \/ Reject(c)
  \/ Apply(c)
  \/ Commit(c)
  \/ ReadTable(c)
  \/ RecordRejection(c)
  \/ BusyTimeout(c)

Next ==
  \E c \in Clients :
    \/ \E p \in Proposals : Submit(c, p)
    \/ Step(c)
    \/ Crash(c)

Spec == Init /\ [][Next]_vars

\* A process that is inside commit keeps running: each statement of the call
\* returns, and the wait for the lock is bounded by the busy timeout.
FairSpec == Spec /\ \A c \in Clients : WF_vars(Step(c))

-----------------------------------------------------------------------------
(***************************************************************************)
(* Properties.                                                             *)
(***************************************************************************)
\* The store the ledger entry h left behind; head 0 is the empty ledger.
StoreAt(h) == IF h = 0 THEN InitStore ELSE ledger[h].post

Accepted == {i \in DOMAIN receipts : receipts[i].outcome \in Accepting}

\* The head a reader of the receipts expects before row i: the number of
\* acceptances recorded so far (expected_head in _verify_receipt_documents).
ExpectedHead(i) == Cardinality({j \in Accepted : j < i})

Entry == [proposal : Proposals, prev : Nat, pre : Stores, post : Stores]
ReceiptRow ==
  [key : Keys, proposal : Proposals, outcome : Accepting \cup Rejecting,
   seq : Nat, before : Nat, after : Nat, root : Stores]
Labels == {"idle", "begin", "decide", "commit", "root", "record"}

\* Every variable holds a value of its type.
TypeOK ==
  /\ store \in Stores
  /\ ledger \in Seq(Entry)
  /\ receipts \in Seq(ReceiptRow)
  /\ lock \in Clients \cup {NoClient}
  /\ pc \in [Clients -> Labels]
  /\ req \in [Clients -> Proposals \cup {NoProposal}]
  /\ head \in [Clients -> Nat]
  /\ verdict \in [Clients -> Accepting \cup Rejecting \cup {NoVerdict}]
  /\ work \in [Clients -> Stores]
  /\ root \in [Clients -> Seq(Contents)]
  /\ calls \in Nat

\* Where a client stands in commit, and what it may rely on there: the lock
\* holder is the one inside a transaction, a commit in flight was evaluated
\* on the current store under an unused key, and only a refused call records
\* a state root.
ClientInv(c) ==
  /\ lock = c <=> At(c, "decide") \/ At(c, "commit")
  /\ ~At(c, "idle") => req[c] \in Proposals
  /\ At(c, "commit") =>
       /\ PriorReceipts(KeyOf[req[c]]) = {}
       /\ Evaluate(req[c], store).outcome \in Accepting
       /\ verdict[c] = Evaluate(req[c], store).outcome
       /\ work[c] = Evaluate(req[c], store).store
  /\ At(c, "root") => verdict[c] \in Rejecting /\ Len(root[c]) < NumTables
  /\ At(c, "record") => verdict[c] \in Rejecting /\ Len(root[c]) = NumTables
  /\ ~At(c, "root") /\ ~At(c, "record") => root[c] = <<>>

\* Every client stands where its lock, its verdict and the store say it stands;
\* the safety proofs rest on it.
ProtocolInv == \A c \in Clients : ClientInv(c)

\* The ledger is one history: every entry starts from the store its
\* predecessor left, its effect is the one the reducers compute from that
\* store, and the materialized tables are where the last entry ends.  A
\* commit computed from rows another process has since replaced breaks it.
LedgerChain ==
  /\ \A n \in DOMAIN ledger :
       /\ ledger[n].prev = n - 1
       /\ ledger[n].pre = StoreAt(n - 1)
       /\ Evaluate(ledger[n].proposal, ledger[n].pre).outcome \in Accepting
       /\ Evaluate(ledger[n].proposal, ledger[n].pre).store = ledger[n].post
  /\ store = StoreAt(Len(ledger))

\* FR-013: whatever is retried, raced or interrupted, one idempotency key
\* appends at most one ledger entry.
AcceptedOnce ==
  \A m, n \in DOMAIN ledger :
    KeyOf[ledger[m].proposal] = KeyOf[ledger[n].proposal] => m = n

\* _verify_accepted_receipt_coverage: every ledger entry has exactly one
\* accepted receipt, the receipts come in ledger order, and each tells the
\* truth about the entry it links.
ReceiptCoverage ==
  /\ \A n \in DOMAIN ledger : \E i \in Accepted : receipts[i].seq = n
  /\ \A i \in Accepted :
       LET r == receipts[i]
       IN /\ r.seq \in DOMAIN ledger
          /\ ledger[r.seq].proposal = r.proposal
          /\ ledger[r.seq].post = r.root
          /\ r.before = r.seq - 1
          /\ r.after = r.seq
  /\ \A i, j \in Accepted : i < j => receipts[i].seq < receipts[j].seq

\* An acceptance is always the oldest receipt of its key, so every later
\* retry of the accepted proposal finds it: a late rejection of the same key
\* can never hide it.
AcceptedIsFirst == \A i \in Accepted : IsFirst(i, receipts[i].key)

\* A rejection decided by the reducers was right about a store that did
\* exist: the one of the head it records or, when the ledger was empty at
\* the decision, the empty one.
RejectionJustified ==
  \A i \in DOMAIN receipts :
    receipts[i].outcome = "TRANSACTION_CONFLICT" =>
      \E h \in {0, receipts[i].before} :
        /\ h <= Len(ledger)
        /\ Evaluate(receipts[i].proposal, StoreAt(h)).outcome = "TRANSACTION_CONFLICT"

\* _verify_receipt_documents: read in id order, every receipt stands at the
\* head of its predecessors, and a rejection carries the state root of that
\* head.  replay refuses a ledger whose receipts do not.
ReceiptStreamVerifies ==
  \A i \in DOMAIN receipts :
    /\ receipts[i].before = ExpectedHead(i)
    /\ i \notin Accepted => receipts[i].root = StoreAt(ExpectedHead(i))

\* Every call ends, with an answer or with an exception, and leaves the write
\* lock behind, so that the others can write again.
CallEnds == \A c \in Clients : ~At(c, "idle") ~> At(c, "idle") /\ lock # c

\* The commit protocol implements the shared ledger its clients are promised.
Shared == INSTANCE SharedLedger WITH
            entries <- [n \in DOMAIN ledger |-> ledger[n].proposal],
            state <- store
ImplementsSharedLedger == Shared!Spec
=============================================================================
