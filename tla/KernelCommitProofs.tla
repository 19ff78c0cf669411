------------------------- MODULE KernelCommitProofs -------------------------
(***************************************************************************)
(* What KernelCommit guarantees for any number of processes, proposals,    *)
(* keys and tables, and any validators and reducers: one ledger entry per  *)
(* idempotency key, one history of the store, one receipt per entry, and   *)
(* the implementation of SharedLedger.                                     *)
(***************************************************************************)
EXTENDS KernelCommit, TLAPS

\* The receipts carry the key of their proposal.
ReceiptKeys == \A i \in DOMAIN receipts : receipts[i].key = KeyOf[receipts[i].proposal]

\* The inductive invariant.
Inv ==
  /\ TypeOK
  /\ ProtocolInv
  /\ ReceiptKeys
  /\ LedgerChain
  /\ ReceiptCoverage
  /\ AcceptedIsFirst

\* The steps that touch no table: everything but Commit and RecordRejection.
Quiet(c) ==
  \/ \E p \in Proposals : Submit(c, p)
  \/ Begin(c)
  \/ AnswerPrior(c)
  \/ RejectKeyReuse(c)
  \/ Reject(c)
  \/ Apply(c)
  \/ ReadTable(c)
  \/ BusyTimeout(c)
  \/ Crash(c)

-----------------------------------------------------------------------------
\* The state a fresh workspace starts in satisfies the invariant.
LEMMA InitInv == Init => Inv
<1> SUFFICES ASSUME Init PROVE Inv
  OBVIOUS
<1> USE StoreAssumption, ClientAssumption DEF Init
<1>1. TypeOK
  BY DEF TypeOK, Labels, Stores, Tables
<1>2. ProtocolInv
  BY DEF ProtocolInv, ClientInv, At
<1>3. ReceiptKeys /\ LedgerChain /\ ReceiptCoverage /\ AcceptedIsFirst
  BY DEF ReceiptKeys, LedgerChain, ReceiptCoverage, AcceptedIsFirst, Accepted, StoreAt
<1> QED
  BY <1>1, <1>2, <1>3 DEF Inv

-----------------------------------------------------------------------------
\* Begin .. Crash change no table, so everything said of the tables stays.
LEMMA QuietTables ==
  ASSUME Inv, UNCHANGED db
  PROVE  ReceiptKeys' /\ LedgerChain' /\ ReceiptCoverage' /\ AcceptedIsFirst'
BY DEF Inv, db, ReceiptKeys, LedgerChain, ReceiptCoverage, AcceptedIsFirst,
       Accepted, StoreAt, IsFirst, PriorReceipts

\* None of them writes the store, the ledger or the receipts.
LEMMA QuietUnchanged ==
  ASSUME NEW c \in Clients, Quiet(c)
  PROVE  UNCHANGED db
BY DEF Quiet, Submit, Begin, AnswerPrior, RejectKeyReuse, Reject, RollBack, Apply,
       ReadTable, BusyTimeout, Crash

\* The steps that touch no table keep the types.
LEMMA QuietType ==
  ASSUME Inv, NEW c \in Clients, Quiet(c)
  PROVE  TypeOK'
<1> USE StoreAssumption DEF Inv, TypeOK, Labels, Goto, At, Return, RollBack
<1>0. UNCHANGED db
  BY QuietUnchanged
<1>1. ASSUME NEW p \in Proposals, Submit(c, p) PROVE TypeOK'
  <2>1. pc' \in [Clients -> Labels]
    BY <1>1 DEF Submit
  <2>2. verdict' \in [Clients -> Accepting \cup Rejecting \cup {NoVerdict}]
    BY <1>1 DEF Submit, Rejecting
  <2>3. /\ req' \in [Clients -> Proposals \cup {NoProposal}]
        /\ head' \in [Clients -> Nat]
        /\ calls' \in Nat
    BY <1>1 DEF Submit
  <2>4. UNCHANGED <<store, ledger, receipts, lock, work, root>>
    BY <1>1 DEF Submit, db
  <2> QED
    BY <2>1, <2>2, <2>3, <2>4
<1>2. CASE Begin(c)
  BY <1>2, <1>0 DEF Begin, db
<1>3. CASE AnswerPrior(c)
  BY <1>3, <1>0 DEF AnswerPrior, db
<1>4. CASE RejectKeyReuse(c)
  BY <1>4, <1>0 DEF RejectKeyReuse, db, Rejecting
<1>5. CASE Reject(c)
  BY <1>5, <1>0 DEF Reject, db
<1>6. CASE Apply(c)
  <2>1. req[c] \in Proposals
    BY <1>6 DEF Apply, ProtocolInv, ClientInv
  <2>2. Evaluate(req[c], store).store \in Stores
    BY <2>1, VerdictAssumption DEF Verdicts
  <2> QED
    BY <1>6, <1>0, <2>2 DEF Apply, db
<1>7. CASE ReadTable(c)
  <2>1. Len(root[c]) + 1 \in Tables
    BY <1>7 DEF ReadTable, ProtocolInv, ClientInv, Tables
  <2>2. store[Len(root[c]) + 1] \in Contents
    BY <2>1 DEF Stores
  <2> QED
    BY <1>7, <1>0, <2>2 DEF ReadTable, db
<1>8. CASE BusyTimeout(c)
  BY <1>8, <1>0 DEF BusyTimeout, db
<1>9. CASE Crash(c)
  BY <1>9, <1>0 DEF Crash, db
<1> QED
  BY <1>1, <1>2, <1>3, <1>4, <1>5, <1>6, <1>7, <1>8, <1>9 DEF Quiet

\* The steps that touch no table keep what each client may rely on.
LEMMA QuietProtocol ==
  ASSUME Inv, NEW c \in Clients, Quiet(c)
  PROVE  ProtocolInv'
<1> USE ClientAssumption DEF Inv, TypeOK, At, Goto, Return, RollBack
<1>0. UNCHANGED db
  BY QuietUnchanged
<1>a. \A k : PriorReceipts(k)' = PriorReceipts(k)
  BY <1>0 DEF PriorReceipts, db
<1>1. ASSUME NEW p \in Proposals, Submit(c, p) PROVE ProtocolInv'
  <2>1. CASE p \in Preflight
    <3>1. /\ pc' = [pc EXCEPT ![c] = "root"]
          /\ verdict' = [verdict EXCEPT ![c] = "VALIDATION_ERROR"]
          /\ req' = [req EXCEPT ![c] = p]
          /\ pc[c] = "idle"
          /\ UNCHANGED <<store, lock, work, root>>
      BY <1>1, <2>1 DEF Submit, db
    <3>2. Len(root[c]) < NumTables
      BY <3>1, StoreAssumption DEF ProtocolInv, ClientInv
    <3> QED
      BY <3>1, <3>2, <1>a DEF ProtocolInv, ClientInv, Rejecting
  <2>2. CASE p \notin Preflight
    <3>1. /\ pc' = [pc EXCEPT ![c] = "begin"]
          /\ req' = [req EXCEPT ![c] = p]
          /\ pc[c] = "idle"
          /\ UNCHANGED <<store, lock, verdict, work, root>>
      BY <1>1, <2>2 DEF Submit, db
    <3> QED
      BY <3>1, <1>a DEF ProtocolInv, ClientInv
  <2> QED
    BY <2>1, <2>2
<1>2. CASE Begin(c)
  BY <1>2, <1>0, <1>a DEF Begin, db, ProtocolInv, ClientInv
<1>3. CASE AnswerPrior(c)
  BY <1>3, <1>0, <1>a DEF AnswerPrior, db, ProtocolInv, ClientInv
<1>4. CASE RejectKeyReuse(c)
  BY <1>4, <1>0, <1>a, StoreAssumption DEF RejectKeyReuse, db, ProtocolInv, ClientInv, Rejecting
<1>5. CASE Reject(c)
  BY <1>5, <1>0, <1>a, StoreAssumption DEF Reject, db, ProtocolInv, ClientInv
<1>6. CASE Apply(c)
  BY <1>6, <1>0, <1>a DEF Apply, db, ProtocolInv, ClientInv
<1>7. CASE ReadTable(c)
  <2>1. /\ root' = [root EXCEPT ![c] = Append(@, store[Len(@) + 1])]
        /\ pc' = [pc EXCEPT ![c] = IF Len(root[c]) + 1 = NumTables THEN "record" ELSE "root"]
        /\ pc[c] = "root"
        /\ UNCHANGED <<store, lock, req, verdict, work>>
    BY <1>7 DEF ReadTable, db
  <2>2. Len(root[c]) \in Nat /\ Len(root[c]) < NumTables /\ verdict[c] \in Rejecting
    BY <2>1 DEF ProtocolInv, ClientInv
  <2>3. store[Len(root[c]) + 1] \in Contents
    BY <2>2, StoreAssumption DEF Stores, Tables
  <2>4. root'[c] = Append(root[c], store[Len(root[c]) + 1])
        /\ \A d \in Clients : d # c => root'[d] = root[d] /\ pc'[d] = pc[d]
    BY <2>1
  <2>5. Len(root'[c]) = Len(root[c]) + 1
    BY <2>3, <2>4
  <2>6. pc'[c] = IF Len(root[c]) + 1 = NumTables THEN "record" ELSE "root"
    BY <2>1
  <2>7. ClientInv(c)'
    <3>1. lock' # c /\ req'[c] \in Proposals /\ verdict'[c] \in Rejecting
      BY <2>1, <2>2 DEF ProtocolInv, ClientInv
    <3>2. CASE Len(root[c]) + 1 = NumTables
      BY <2>2, <2>5, <2>6, <3>1, <3>2 DEF ClientInv
    <3>3. CASE Len(root[c]) + 1 # NumTables
      <4>1. Len(root'[c]) < NumTables
        BY <2>2, <2>5, <3>3, StoreAssumption
      <4> QED
        BY <2>6, <3>1, <3>3, <4>1 DEF ClientInv
    <3> QED
      BY <3>2, <3>3
  <2>8. ASSUME NEW d \in Clients, d # c PROVE ClientInv(d)'
    BY <2>1, <2>4, <2>8, <1>a DEF ProtocolInv, ClientInv
  <2> QED
    BY <2>7, <2>8 DEF ProtocolInv
<1>8. CASE BusyTimeout(c)
  BY <1>8, <1>0, <1>a DEF BusyTimeout, db, ProtocolInv, ClientInv
<1>9. CASE Crash(c)
  BY <1>9, <1>0, <1>a DEF Crash, db, ProtocolInv, ClientInv
<1> QED
  BY <1>1, <1>2, <1>3, <1>4, <1>5, <1>6, <1>7, <1>8, <1>9 DEF Quiet

-----------------------------------------------------------------------------
\* COMMIT publishes a ledger row and its receipt over the store it was
\* evaluated on, under a key nobody used before.
LEMMA CommitInv ==
  ASSUME Inv, NEW c \in Clients, Commit(c)
  PROVE  Inv'
<1>a. PICK n \in Nat : n = Len(ledger) + 1
  BY DEF Inv, TypeOK
<1>b. PICK m \in Nat : m = Len(receipts) + 1
  BY DEF Inv, TypeOK
<1>c. PICK k0 : k0 = KeyOf[req[c]]
  OBVIOUS
<1> DEFINE e == [proposal |-> req[c], prev |-> Len(ledger), pre |-> store, post |-> work[c]]
           r == Receipt(req[c], verdict[c], n, Len(ledger), n, work[c])
<1>1. /\ pc[c] = "commit" /\ lock = c /\ req[c] \in Proposals
      /\ PriorReceipts(KeyOf[req[c]]) = {}
      /\ verdict[c] \in Accepting
      /\ Evaluate(req[c], store).outcome \in Accepting
      /\ work[c] = Evaluate(req[c], store).store
  BY DEF Commit, Inv, ProtocolInv, ClientInv, At
<1>2. /\ ledger' = Append(ledger, e) /\ ledger \in Seq(Entry)
      /\ receipts' = Append(receipts, r) /\ receipts \in Seq(ReceiptRow)
      /\ store' = work[c]
  BY <1>a DEF Commit, Inv, TypeOK
<1>3. work[c] \in Stores /\ store \in Stores
  BY DEF Inv, TypeOK
<1>4. e \in Entry /\ r \in ReceiptRow
  BY <1>1, <1>2, <1>3, KeysAssumption DEF Entry, ReceiptRow, Receipt
<1>5. /\ Len(ledger') = n /\ DOMAIN ledger' = 1 .. n /\ DOMAIN ledger = 1 .. (n - 1)
      /\ ledger'[n] = e /\ \A k \in 1 .. (n - 1) : ledger'[k] = ledger[k]
      /\ n \in Nat \ {0}
  BY <1>a, <1>2, <1>4
<1>6. /\ DOMAIN receipts' = 1 .. m /\ DOMAIN receipts = 1 .. (m - 1)
      /\ receipts'[m] = r /\ \A i \in 1 .. (m - 1) : receipts'[i] = receipts[i]
      /\ m \in Nat \ {0}
  BY <1>b, <1>2, <1>4
<1>7. TypeOK'
  <2>1. ledger' \in Seq(Entry) /\ receipts' \in Seq(ReceiptRow)
    BY <1>2, <1>4
  <2> QED
    BY <2>1, <1>3, StoreAssumption DEF Commit, Inv, TypeOK, Return, Goto, Labels
<1>8. ProtocolInv'
  <2>1. /\ pc' = [pc EXCEPT ![c] = "idle"] /\ lock' = NoClient
        /\ root' = [root EXCEPT ![c] = <<>>]
        /\ \A d \in Clients : d # c => req'[d] = req[d] /\ verdict'[d] = verdict[d]
    BY DEF Commit, Return, Goto, Inv, TypeOK
  <2>2. \A d \in Clients : d # c => pc[d] \notin {"decide", "commit"}
    BY <1>1 DEF Inv, ProtocolInv, ClientInv, At
  <2>3. ClientInv(c)'
    BY <2>1, ClientAssumption DEF ClientInv, At, Inv, TypeOK
  <2>4. ASSUME NEW d \in Clients, d # c PROVE ClientInv(d)'
    BY <2>1, <2>2, <2>4, ClientAssumption DEF ClientInv, At, Inv, TypeOK, ProtocolInv
  <2> QED
    BY <2>3, <2>4 DEF ProtocolInv
<1>9. ReceiptKeys'
  BY <1>6 DEF ReceiptKeys, Receipt, Inv
<1>10. StoreAt(n - 1) = store /\ \A k \in 0 .. (n - 1) : StoreAt(k)' = StoreAt(k)
  BY <1>5 DEF StoreAt, Inv, LedgerChain
<1>11. LedgerChain'
  <2>1. StoreAt(n)' = work[c]
    BY <1>5 DEF StoreAt
  <2>2. ASSUME NEW k \in 1 .. (n - 1)
        PROVE  /\ ledger'[k].prev = k - 1
               /\ ledger'[k].pre = StoreAt(k - 1)'
               /\ Evaluate(ledger'[k].proposal, ledger'[k].pre).outcome \in Accepting
               /\ Evaluate(ledger'[k].proposal, ledger'[k].pre).store = ledger'[k].post
    <3>1. k - 1 \in 0 .. (n - 1) /\ k \in DOMAIN ledger /\ ledger'[k] = ledger[k]
      BY <1>5
    <3>2. /\ ledger[k].prev = k - 1 /\ ledger[k].pre = StoreAt(k - 1)
          /\ Evaluate(ledger[k].proposal, ledger[k].pre).outcome \in Accepting
          /\ Evaluate(ledger[k].proposal, ledger[k].pre).store = ledger[k].post
      BY <3>1 DEF Inv, LedgerChain
    <3>3. StoreAt(k - 1)' = StoreAt(k - 1)
      BY <3>1, <1>10
    <3> QED
      BY <3>1, <3>2, <3>3
  <2>3. /\ ledger'[n].prev = n - 1
        /\ ledger'[n].pre = StoreAt(n - 1)'
        /\ Evaluate(ledger'[n].proposal, ledger'[n].pre).outcome \in Accepting
        /\ Evaluate(ledger'[n].proposal, ledger'[n].pre).store = ledger'[n].post
    <3>1. n - 1 = Len(ledger) /\ n - 1 \in 0 .. (n - 1)
      BY <1>a, <1>5
    <3> QED
      BY <3>1, <1>1, <1>5, <1>10
  <2> QED
    BY <2>1, <2>2, <2>3, <1>2, <1>5 DEF LedgerChain
<1>12. Accepted' = Accepted \cup {m}
  BY <1>1, <1>6 DEF Accepted, Receipt
<1>13. ReceiptCoverage'
  <2>1. r.seq = n /\ r.proposal = req[c] /\ r.root = work[c] /\ r.before = n - 1 /\ r.after = n
    BY <1>a, <1>2 DEF Receipt
  <2>2. Accepted \subseteq 1 .. (m - 1)
    BY <1>6 DEF Accepted
  <2>3. \A k \in DOMAIN ledger' : \E i \in Accepted' : receipts'[i].seq = k
    <3>1. \A k \in DOMAIN ledger : \E i \in Accepted : receipts[i].seq = k
      BY DEF Inv, ReceiptCoverage
    <3>2. \A i \in Accepted : i \in Accepted' /\ receipts'[i] = receipts[i]
      BY <2>2, <1>6, <1>12
    <3>3. m \in Accepted' /\ receipts'[m].seq = n
      BY <2>1, <1>6, <1>12
    <3> QED
      BY <3>1, <3>2, <3>3, <1>5
  <2>4. ASSUME NEW i \in Accepted
        PROVE  /\ receipts'[i] = receipts[i]
               /\ receipts[i].seq \in 1 .. (n - 1)
               /\ ledger'[receipts[i].seq] = ledger[receipts[i].seq]
    BY <2>2, <1>5, <1>6 DEF Inv, ReceiptCoverage
  <2>5. ASSUME NEW i \in Accepted'
        PROVE  /\ receipts'[i].seq \in DOMAIN ledger'
               /\ ledger'[receipts'[i].seq].proposal = receipts'[i].proposal
               /\ ledger'[receipts'[i].seq].post = receipts'[i].root
               /\ receipts'[i].before = receipts'[i].seq - 1
               /\ receipts'[i].after = receipts'[i].seq
    <3>1. CASE i = m
      BY <3>1, <2>1, <1>5, <1>6
    <3>2. CASE i \in Accepted
      BY <3>2, <2>4, <1>5 DEF Inv, ReceiptCoverage
    <3> QED
      BY <3>1, <3>2, <1>12
  <2>6. \A i, j \in Accepted' : i < j => receipts'[i].seq < receipts'[j].seq
    <3> SUFFICES ASSUME NEW i \in Accepted', NEW j \in Accepted', i < j
                 PROVE  receipts'[i].seq < receipts'[j].seq
      OBVIOUS
    <3>1. i \in Accepted
      BY <2>2, <1>6, <1>12
    <3>2. CASE j \in Accepted
      BY <3>1, <3>2, <2>4 DEF Inv, ReceiptCoverage
    <3>3. CASE j = m
      BY <3>1, <3>3, <2>1, <2>4, <1>5, <1>6
    <3> QED
      BY <3>2, <3>3, <1>12
  <2> QED
    BY <2>3, <2>5, <2>6 DEF ReceiptCoverage
<1>14. AcceptedIsFirst'
  <2>1. ASSUME NEW k PROVE PriorReceipts(k)' = IF k = k0
                                               THEN PriorReceipts(k) \cup {m}
                                               ELSE PriorReceipts(k)
    BY <1>c, <1>6 DEF PriorReceipts, Receipt
  <2>2. IsFirst(m, k0)'
    BY <2>1, <1>1, <1>6, <1>c DEF IsFirst
  <2>3. ASSUME NEW i \in Accepted PROVE IsFirst(i, receipts[i].key)'
    <3>1. i \in 1 .. (m - 1) /\ receipts'[i].key = receipts[i].key /\ IsFirst(i, receipts[i].key)
      BY <1>6 DEF Accepted, Inv, AcceptedIsFirst
    <3>2. receipts[i].key # k0
      BY <3>1, <1>1, <1>c DEF IsFirst
    <3> QED
      BY <3>1, <3>2, <2>1 DEF IsFirst
  <2>4. receipts'[m].key = k0
    BY <1>c, <1>6 DEF Receipt
  <2> QED
    BY <2>2, <2>3, <2>4, <1>12 DEF AcceptedIsFirst
<1> QED
  BY <1>7, <1>8, <1>9, <1>11, <1>13, <1>14 DEF Inv

-----------------------------------------------------------------------------
\* The receipt of a rejection changes neither the ledger nor the store, and
\* comes after every acceptance already recorded.
LEMMA RecordRejectionInv ==
  ASSUME Inv, NEW c \in Clients, RecordRejection(c)
  PROVE  Inv'
<1>a. PICK m \in Nat : m = Len(receipts) + 1
  BY DEF Inv, TypeOK
<1>b. PICK k0 : k0 = KeyOf[req[c]]
  OBVIOUS
<1>c. PICK before \in Nat : before = IF head[c] = 0 THEN Len(ledger) ELSE head[c]
  BY DEF Inv, TypeOK
<1> DEFINE r == Receipt(req[c], verdict[c], 0, before, before, root[c])
<1>1. /\ pc[c] = "record" /\ lock = NoClient /\ req[c] \in Proposals
      /\ verdict[c] \in Rejecting /\ Len(root[c]) = NumTables
  BY DEF RecordRejection, Inv, ProtocolInv, ClientInv, At
<1>2. /\ receipts' = Append(receipts, r) /\ receipts \in Seq(ReceiptRow)
      /\ UNCHANGED <<store, ledger, lock, calls>>
  BY <1>c DEF RecordRejection, Inv, TypeOK
<1>3. root[c] \in Stores
  <2>1. root[c] \in Seq(Contents)
    BY DEF Inv, TypeOK
  <2> QED
    BY <2>1, <1>1, StoreAssumption DEF Stores, Tables
<1>4. r \in ReceiptRow
  BY <1>1, <1>3, KeysAssumption DEF ReceiptRow, Receipt
<1>5. /\ DOMAIN receipts' = 1 .. m /\ DOMAIN receipts = 1 .. (m - 1)
      /\ receipts'[m] = r /\ \A i \in 1 .. (m - 1) : receipts'[i] = receipts[i]
      /\ m \in Nat \ {0}
  BY <1>a, <1>2, <1>4
<1>6. TypeOK'
  <2>1. receipts' \in Seq(ReceiptRow)
    BY <1>2, <1>4
  <2> QED
    BY <2>1, <1>2, StoreAssumption DEF RecordRejection, Inv, TypeOK, Return, Goto, Labels
<1>7. ProtocolInv'
  <2>1. /\ pc' = [pc EXCEPT ![c] = "idle"]
        /\ root' = [root EXCEPT ![c] = <<>>]
        /\ \A d \in Clients : d # c =>
             /\ req'[d] = req[d] /\ verdict'[d] = verdict[d] /\ work'[d] = work[d]
    BY DEF RecordRejection, Return, Goto, Inv, TypeOK
  <2>2. ClientInv(c)'
    BY <2>1, <1>1, <1>2, ClientAssumption DEF ClientInv, At, Inv, TypeOK
  <2>3. ASSUME NEW d \in Clients, d # c PROVE ClientInv(d)'
    <3>1. pc[d] \notin {"decide", "commit"}
      BY <1>1, ClientAssumption DEF Inv, ProtocolInv, ClientInv, At
    <3> QED
      BY <2>1, <2>3, <3>1, <1>1, <1>2, ClientAssumption
         DEF ClientInv, At, Inv, TypeOK, ProtocolInv
  <2> QED
    BY <2>2, <2>3 DEF ProtocolInv
<1>8. ReceiptKeys'
  BY <1>5 DEF ReceiptKeys, Receipt, Inv
<1>9. LedgerChain'
  BY <1>2 DEF Inv, LedgerChain, StoreAt
<1>10. Accepted' = Accepted /\ Accepted \subseteq 1 .. (m - 1)
  BY <1>1, <1>5 DEF Accepted, Receipt, Rejecting, Accepting
<1>11. \A i \in Accepted : receipts'[i] = receipts[i]
  BY <1>5, <1>10
<1>12. ReceiptCoverage'
  <2>1. \A n \in DOMAIN ledger' : \E i \in Accepted' : receipts'[i].seq = n
    <3> SUFFICES ASSUME NEW n \in DOMAIN ledger
                 PROVE  \E i \in Accepted : receipts'[i].seq = n
      BY <1>2, <1>10
    <3> QED
      BY <1>11 DEF Inv, ReceiptCoverage
  <2>2. ASSUME NEW i \in Accepted'
        PROVE  /\ receipts'[i].seq \in DOMAIN ledger'
               /\ ledger'[receipts'[i].seq].proposal = receipts'[i].proposal
               /\ ledger'[receipts'[i].seq].post = receipts'[i].root
               /\ receipts'[i].before = receipts'[i].seq - 1
               /\ receipts'[i].after = receipts'[i].seq
    BY <1>2, <1>10, <1>11 DEF Inv, ReceiptCoverage
  <2>3. \A i, j \in Accepted' : i < j => receipts'[i].seq < receipts'[j].seq
    BY <1>10, <1>11 DEF Inv, ReceiptCoverage
  <2> QED
    BY <2>1, <2>2, <2>3 DEF ReceiptCoverage
<1>13. AcceptedIsFirst'
  <2>1. ASSUME NEW k PROVE PriorReceipts(k)' \subseteq PriorReceipts(k) \cup {m}
                           /\ PriorReceipts(k) \subseteq PriorReceipts(k)'
    BY <1>5 DEF PriorReceipts
  <2>2. ASSUME NEW i \in Accepted PROVE IsFirst(i, receipts[i].key)'
    <3>1. i \in 1 .. (m - 1) /\ receipts'[i].key = receipts[i].key /\ IsFirst(i, receipts[i].key)
      BY <1>10, <1>11 DEF Inv, AcceptedIsFirst
    <3>2. PICK k : k = receipts[i].key
      OBVIOUS
    <3>3. IsFirst(i, k)'
      BY <3>1, <3>2, <2>1, <1>5 DEF IsFirst
    <3> QED
      BY <3>1, <3>2, <3>3
  <2> QED
    BY <2>2, <1>10, <1>11 DEF AcceptedIsFirst
<1> QED
  BY <1>6, <1>7, <1>8, <1>9, <1>12, <1>13 DEF Inv

-----------------------------------------------------------------------------
\* A step of nothing keeps the invariant.
LEMMA StutterInv == Inv /\ UNCHANGED vars => Inv'
<1> SUFFICES ASSUME Inv, UNCHANGED vars PROVE Inv'
  OBVIOUS
<1>1. UNCHANGED db
  BY DEF vars
<1>2. TypeOK'
  BY DEF vars, db, frame, Inv, TypeOK
<1>3. ProtocolInv'
  BY DEF vars, db, frame, Inv, ProtocolInv, ClientInv, At, PriorReceipts
<1> QED
  BY <1>1, <1>2, <1>3, QuietTables DEF Inv

\* Every step of every process keeps the invariant.
LEMMA NextInv == Inv /\ [Next]_vars => Inv'
<1> SUFFICES ASSUME Inv, [Next]_vars PROVE Inv'
  OBVIOUS
<1>1. CASE UNCHANGED vars
  BY <1>1, StutterInv
<1>2. ASSUME NEW c \in Clients, Commit(c) PROVE Inv'
  BY <1>2, CommitInv
<1>3. ASSUME NEW c \in Clients, RecordRejection(c) PROVE Inv'
  BY <1>3, RecordRejectionInv
<1>4. ASSUME NEW c \in Clients, Quiet(c) PROVE Inv'
  BY <1>4, QuietUnchanged, QuietTables, QuietType, QuietProtocol DEF Inv
<1> QED
  BY <1>1, <1>2, <1>3, <1>4 DEF Next, Step, Quiet

\* The invariant holds in every reachable state.
LEMMA SpecInv == Spec => []Inv
<1> QED
  BY InitInv, NextInv, PTL DEF Spec

-----------------------------------------------------------------------------
\* Every variable always has its type, for any number of processes.
THEOREM TypeCorrect == Spec => []TypeOK
<1>1. Inv => TypeOK
  BY DEF Inv
<1> QED
  BY <1>1, SpecInv, PTL

\* The ledger stays one history of the store it materializes: no accepted
\* write is computed from a stale store or lost (the transaction of commit).
THEOREM LedgerIsOneHistory == Spec => []LedgerChain
<1>1. Inv => LedgerChain
  BY DEF Inv
<1> QED
  BY <1>1, SpecInv, PTL

\* Every ledger entry always has its one accepted receipt, in ledger order,
\* whatever process died where.
THEOREM EveryEntryHasItsReceipt == Spec => []ReceiptCoverage
<1>1. Inv => ReceiptCoverage
  BY DEF Inv
<1> QED
  BY <1>1, SpecInv, PTL

\* No late rejection ever hides an acceptance from the retries of its key.
THEOREM AcceptanceIsFound == Spec => []AcceptedIsFirst
<1>1. Inv => AcceptedIsFirst
  BY DEF Inv
<1> QED
  BY <1>1, SpecInv, PTL

\* Two entries under one key would have two accepted receipts, and both would
\* be the oldest of that key.
LEMMA OneEntryPerKey == Inv => AcceptedOnce
<1> SUFFICES ASSUME Inv, NEW m \in DOMAIN ledger, NEW n \in DOMAIN ledger,
                    KeyOf[ledger[m].proposal] = KeyOf[ledger[n].proposal]
             PROVE  m = n
  BY DEF AcceptedOnce
<1>1. PICK i \in Accepted : receipts[i].seq = m
  BY DEF Inv, ReceiptCoverage
<1>2. PICK j \in Accepted : receipts[j].seq = n
  BY DEF Inv, ReceiptCoverage
<1>3. receipts[i].key = receipts[j].key
  BY <1>1, <1>2 DEF Inv, ReceiptCoverage, ReceiptKeys, Accepted
<1>4. i <= j /\ j <= i /\ i \in Nat /\ j \in Nat
  BY <1>3 DEF Inv, TypeOK, AcceptedIsFirst, IsFirst, Accepted
<1> QED
  BY <1>1, <1>2, <1>4

\* FR-013 for any number of processes and retries: one entry per key.
THEOREM KeyIsAcceptedOnce == Spec => []AcceptedOnce
<1> QED
  BY OneEntryPerKey, SpecInv, PTL

-----------------------------------------------------------------------------
\* What a call knows of the head it has read: that it is a head, inside the
\* transaction that it is the head, and after a conflict that the store of that
\* head was the reason.
Founded(c) ==
  /\ head[c] <= Len(ledger)
  /\ At(c, "decide") => head[c] = Len(ledger)
  /\ (At(c, "root") \/ At(c, "record")) /\ verdict[c] = "TRANSACTION_CONFLICT" =>
       Evaluate(req[c], StoreAt(head[c])).outcome = "TRANSACTION_CONFLICT"
HeadsInv == RejectionJustified /\ \A c \in Clients : Founded(c)

\* Entries stay where they are.
LEMMA StoresStay ==
  ASSUME Inv, Inv', NEW e, ledger' = ledger \/ ledger' = Append(ledger, e)
  PROVE  /\ Len(ledger) \in Nat /\ Len(ledger') \in Nat /\ Len(ledger) <= Len(ledger')
         /\ \A h \in Nat : h <= Len(ledger) => StoreAt(h)' = StoreAt(h)
<1>1. ledger \in Seq(Entry) /\ ledger' \in Seq(Entry)
  BY DEF Inv, TypeOK
<1>2. CASE ledger' = ledger
  BY <1>1, <1>2 DEF StoreAt
<1>3. CASE ledger' = Append(ledger, e)
  <2>1. /\ Len(ledger) \in Nat /\ Len(ledger') = Len(ledger) + 1
        /\ \A n \in 1 .. Len(ledger) : ledger'[n] = ledger[n]
    BY <1>1, <1>3
  <2> QED
    BY <2>1 DEF StoreAt
<1> QED
  BY <1>2, <1>3

\* A justification outlives what the ledger gains.
LEMMA JustifiedStays ==
  ASSUME Inv, RejectionJustified, NEW i \in DOMAIN receipts,
         receipts[i].outcome = "TRANSACTION_CONFLICT",
         Len(ledger) \in Nat, Len(ledger') \in Nat, Len(ledger) <= Len(ledger'),
         \A h \in Nat : h <= Len(ledger) => StoreAt(h)' = StoreAt(h)
  PROVE  \E h \in {0, receipts[i].before} :
           /\ h <= Len(ledger')
           /\ Evaluate(receipts[i].proposal, StoreAt(h)').outcome = "TRANSACTION_CONFLICT"
<1>1. receipts[i].before \in Nat
  <2>1. receipts[i] \in ReceiptRow
    BY DEF Inv, TypeOK
  <2> QED
    BY <2>1 DEF ReceiptRow
<1>2. PICK h \in {0, receipts[i].before} :
        /\ h <= Len(ledger)
        /\ Evaluate(receipts[i].proposal, StoreAt(h)).outcome = "TRANSACTION_CONFLICT"
  BY DEF RejectionJustified
<1> QED
  BY <1>1, <1>2

\* Another process's step takes nothing from what a call knows: while it decides
\* nobody else can commit.
LEMMA OthersFounded ==
  ASSUME Inv, NEW c \in Clients, Founded(c),
         pc'[c] = pc[c], head'[c] = head[c], verdict'[c] = verdict[c], req'[c] = req[c],
         At(c, "decide") => ledger' = ledger,
         Len(ledger) \in Nat, Len(ledger') \in Nat, Len(ledger) <= Len(ledger'),
         \A h \in Nat : h <= Len(ledger) => StoreAt(h)' = StoreAt(h)
  PROVE  Founded(c)'
<1>1. head[c] \in Nat
  BY DEF Inv, TypeOK
<1>2. PICK h : h = head[c]
  OBVIOUS
<1>3. (StoreAt(head[c]))' = StoreAt(h)'
  BY <1>2 DEF StoreAt
<1>4. h <= Len(ledger) => StoreAt(h)' = StoreAt(h)
  BY <1>1, <1>2
<1> QED
  BY <1>1, <1>2, <1>3, <1>4 DEF Founded, At

\* A step that writes no table: the head a call has read is of the ledger as it
\* is, so a conflict it finds is with the store of that head.
LEMMA QuietFounded ==
  ASSUME Inv, Inv', HeadsInv, NEW c \in Clients, Quiet(c)
  PROVE  HeadsInv'
<1>0. UNCHANGED db /\ UNCHANGED <<ledger, receipts, store>>
  BY QuietUnchanged DEF db
<1>1. /\ Len(ledger) \in Nat /\ Len(ledger') \in Nat /\ Len(ledger) <= Len(ledger')
      /\ \A h \in Nat : h <= Len(ledger) => StoreAt(h)' = StoreAt(h)
  BY <1>0, StoresStay
<1>2. RejectionJustified'
  BY <1>0 DEF HeadsInv, RejectionJustified, StoreAt
<1>3. ASSUME NEW d \in Clients, d # c PROVE Founded(d)'
  <2> DEFINE Same == pc'[d] = pc[d] /\ head'[d] = head[d] /\ verdict'[d] = verdict[d] /\ req'[d] = req[d]
  <2>a. /\ pc \in [Clients -> Labels] /\ head \in [Clients -> Nat]
        /\ verdict \in [Clients -> Accepting \cup Rejecting \cup {NoVerdict}]
        /\ req \in [Clients -> Proposals \cup {NoProposal}]
    BY DEF Inv, TypeOK
  <2>1. ASSUME NEW p \in Proposals, Submit(c, p) PROVE Same
    BY <1>3, <2>a, <2>1 DEF Submit, Goto
  <2>2. ASSUME Begin(c) \/ Apply(c) \/ ReadTable(c) PROVE Same
    BY <1>3, <2>a, <2>2 DEF Begin, Apply, ReadTable, Goto
  <2>3. ASSUME AnswerPrior(c) \/ BusyTimeout(c) \/ Crash(c) PROVE Same
    BY <1>3, <2>a, <2>3 DEF AnswerPrior, BusyTimeout, Crash, Return, Goto
  <2>4. ASSUME RejectKeyReuse(c) \/ Reject(c) PROVE Same
    BY <1>3, <2>a, <2>4 DEF RejectKeyReuse, Reject, RollBack, Goto
  <2>5. Same
    BY <2>1, <2>2, <2>3, <2>4 DEF Quiet
  <2> QED
    BY <2>5, <1>0, <1>1, OthersFounded DEF HeadsInv
<1>4. Founded(c)'
  <2>0. /\ pc \in [Clients -> Labels] /\ head \in [Clients -> Nat]
        /\ verdict \in [Clients -> Accepting \cup Rejecting \cup {NoVerdict}]
        /\ req \in [Clients -> Proposals \cup {NoProposal}]
        /\ Founded(c) /\ head[c] \in Nat
        /\ StoreAt(Len(ledger)) = store
    BY DEF Inv, TypeOK, HeadsInv, LedgerChain
  <2>1. ASSUME NEW p \in Proposals, Submit(c, p) PROVE Founded(c)'
    <3>1. head'[c] = Len(ledger) /\ pc'[c] \in {"root", "begin"}
      BY <2>0, <2>1 DEF Submit, Goto
    <3>2. pc'[c] = "root" => verdict'[c] = "VALIDATION_ERROR"
      BY <2>0, <2>1 DEF Submit, Goto
    <3> QED
      BY <3>1, <3>2, <1>0, <1>1 DEF Founded, At
  <2>2. CASE Begin(c)
    BY <2>0, <2>2, <1>0, <1>1 DEF Begin, Goto, Founded, At
  <2>3. CASE AnswerPrior(c) \/ BusyTimeout(c) \/ Crash(c)
    <3>1. pc'[c] = "idle" /\ head'[c] = 0
      BY <2>0, <2>3 DEF AnswerPrior, BusyTimeout, Crash, Return, Goto
    <3> QED
      BY <3>1, <1>1 DEF Founded, At
  <2>4. CASE RejectKeyReuse(c)
    <3>1. /\ head'[c] = head[c] /\ pc'[c] = "root" /\ verdict'[c] = "VALIDATION_ERROR"
      BY <2>0, <2>4 DEF RejectKeyReuse, RollBack, Goto
    <3> QED
      BY <3>1, <2>0, <1>0 DEF Founded, At
  <2>5. CASE Reject(c)
    <3>1. /\ head' = head /\ req' = req /\ pc'[c] = "root"
          /\ verdict'[c] = Evaluate(req[c], store).outcome
          /\ At(c, "decide")
      BY <2>0, <2>5 DEF Reject, RollBack, Goto
    <3>2. head[c] = Len(ledger)
      BY <2>0, <3>1 DEF Founded
    <3>3. (StoreAt(head[c]))' = store
      BY <2>0, <3>1, <3>2, <1>0 DEF StoreAt
    <3> QED
      BY <3>1, <3>2, <3>3, <2>0, <1>0 DEF Founded, At
  <2>6. CASE Apply(c)
    <3>1. head'[c] = head[c] /\ pc'[c] = "commit"
      BY <2>0, <2>6 DEF Apply, Goto
    <3> QED
      BY <3>1, <2>0, <1>0 DEF Founded, At
  <2>7. CASE ReadTable(c)
    <3>1. /\ head' = head /\ req' = req /\ verdict' = verdict /\ pc'[c] \in {"root", "record"}
          /\ At(c, "root")
      BY <2>0, <2>7 DEF ReadTable, Goto
    <3>2. (StoreAt(head[c]))' = StoreAt(head[c])
      BY <3>1, <1>0 DEF StoreAt
    <3> QED
      BY <3>1, <3>2, <2>0, <1>0 DEF Founded, At
  <2> QED
    BY <2>1, <2>2, <2>3, <2>4, <2>5, <2>6, <2>7 DEF Quiet
<1> QED
  BY <1>2, <1>3, <1>4 DEF HeadsInv

\* A new receipt, accepted or rejected with the head its call has read.
LEMMA ReceiptFounded ==
  ASSUME Inv, Inv', HeadsInv, NEW c \in Clients, Commit(c) \/ RecordRejection(c)
  PROVE  HeadsInv'
<1>1. PICK e : e = [proposal |-> req[c], prev |-> Len(ledger), pre |-> store, post |-> work[c]]
  OBVIOUS
<1>2. ledger' = ledger \/ ledger' = Append(ledger, e)
  BY <1>1 DEF Commit, RecordRejection
<1>3. /\ Len(ledger) \in Nat /\ Len(ledger') \in Nat /\ Len(ledger) <= Len(ledger')
      /\ \A h \in Nat : h <= Len(ledger) => StoreAt(h)' = StoreAt(h)
  BY <1>2, StoresStay
<1>4. /\ pc \in [Clients -> Labels] /\ head \in [Clients -> Nat]
      /\ verdict \in [Clients -> Accepting \cup Rejecting \cup {NoVerdict}]
      /\ req \in [Clients -> Proposals \cup {NoProposal}]
      /\ receipts \in Seq(ReceiptRow) /\ receipts' \in Seq(ReceiptRow)
      /\ Founded(c) /\ head[c] \in Nat
  BY DEF Inv, TypeOK, HeadsInv
<1>5. ASSUME NEW d \in Clients PROVE Founded(d)'
  <2>1. CASE d = c
    <3>1. pc'[c] = "idle" /\ head'[c] = 0
      BY <1>4 DEF Commit, RecordRejection, Return, Goto
    <3> QED
      BY <2>1, <3>1, <1>3 DEF Founded, At
  <2>2. CASE d # c
    <3>1. pc'[d] = pc[d] /\ head'[d] = head[d] /\ verdict'[d] = verdict[d] /\ req'[d] = req[d]
      BY <2>2, <1>4 DEF Commit, RecordRejection, Return, Goto
    <3>2. At(d, "decide") => ledger' = ledger
      <4>1. CASE Commit(c)
        <5>1. lock = c /\ (At(d, "decide") => lock = d)
          BY <4>1 DEF Commit, Inv, ProtocolInv, ClientInv
        <5> QED
          BY <5>1, <2>2
      <4>2. CASE RecordRejection(c)
        BY <4>2 DEF RecordRejection
      <4> QED
        BY <4>1, <4>2
    <3> QED
      BY <3>1, <3>2, <1>3, OthersFounded DEF HeadsInv
  <2> QED
    BY <2>1, <2>2
<1>6. PICK m \in Nat : m = Len(receipts) + 1
  BY <1>4
<1>7. /\ DOMAIN receipts' = 1 .. m /\ DOMAIN receipts = 1 .. (m - 1)
      /\ \A i \in DOMAIN receipts : receipts'[i] = receipts[i]
  <2>1. PICK r : receipts' = Append(receipts, r)
    BY DEF Commit, RecordRejection
  <2> QED
    BY <2>1, <1>4, <1>6
<1>8. ASSUME receipts'[m].outcome = "TRANSACTION_CONFLICT"
      PROVE  \E h \in {0, receipts'[m].before} :
               /\ h <= Len(ledger')
               /\ Evaluate(receipts'[m].proposal, StoreAt(h)').outcome = "TRANSACTION_CONFLICT"
  <2>1. CASE Commit(c)
    <3>1. receipts'[m].outcome = verdict[c]
      BY <2>1, <1>4, <1>6 DEF Commit, Receipt
    <3>2. verdict[c] \in Accepting
      BY <2>1 DEF Commit, Inv, ProtocolInv, ClientInv
    <3> QED
      BY <3>1, <3>2, <1>8 DEF Accepting
  <2>2. CASE RecordRejection(c)
    <3>1. /\ receipts'[m].proposal = req[c] /\ receipts'[m].outcome = verdict[c]
          /\ receipts'[m].before = IF head[c] = 0 THEN Len(ledger) ELSE head[c]
          /\ At(c, "record")
      BY <2>2, <1>4, <1>6 DEF RecordRejection, Receipt
    <3>2. /\ head[c] <= Len(ledger)
          /\ Evaluate(req[c], StoreAt(head[c])).outcome = "TRANSACTION_CONFLICT"
      BY <3>1, <1>4, <1>8 DEF Founded
    <3>3. PICK h : h = head[c]
      OBVIOUS
    <3>4. h \in {0, receipts'[m].before} /\ h <= Len(ledger') /\ StoreAt(h)' = StoreAt(h)
      BY <3>1, <3>2, <3>3, <1>3, <1>4
    <3> QED
      BY <3>1, <3>2, <3>3, <3>4
  <2> QED
    BY <2>1, <2>2
<1>9. RejectionJustified'
  <2> SUFFICES ASSUME NEW i \in DOMAIN receipts', receipts'[i].outcome = "TRANSACTION_CONFLICT"
               PROVE  \E h \in {0, receipts'[i].before} :
                        /\ h <= Len(ledger')
                        /\ Evaluate(receipts'[i].proposal, StoreAt(h)').outcome
                             = "TRANSACTION_CONFLICT"
    BY DEF RejectionJustified
  <2>1. CASE i = m
    BY <2>1, <1>8
  <2>2. CASE i \in DOMAIN receipts
    BY <2>2, <1>3, <1>7, JustifiedStays DEF HeadsInv
  <2> QED
    BY <2>1, <2>2, <1>6, <1>7
<1> QED
  BY <1>5, <1>9 DEF HeadsInv

\* A conflict that was reported had its reason in a store that existed: for any
\* number of processes, between whose decision and receipt others commit.
THEOREM RejectionsAreJustified == Spec => []RejectionJustified
<1>1. Init => HeadsInv
  BY DEF Init, HeadsInv, RejectionJustified, Founded, At
<1>2. Inv /\ Inv' /\ HeadsInv /\ [Next]_vars => HeadsInv'
  <2> SUFFICES ASSUME Inv, Inv', HeadsInv, [Next]_vars PROVE HeadsInv'
    OBVIOUS
  <2>1. CASE UNCHANGED vars
    BY <2>1 DEF vars, db, frame, HeadsInv, RejectionJustified, Founded, At, StoreAt
  <2>2. CASE Next
    BY <2>2, QuietFounded, ReceiptFounded DEF Next, Step, Quiet
  <2> QED
    BY <2>1, <2>2
<1>3. HeadsInv => RejectionJustified
  BY DEF HeadsInv
<1> QED
  BY <1>1, <1>2, <1>3, SpecInv, PTL DEF Spec

-----------------------------------------------------------------------------
\* A Commit step is an Accept step of the shared ledger: its key has no
\* receipt at all, hence no entry, and its store is the verdict's.
LEMMA CommitAccepts ==
  ASSUME Inv, NEW c \in Clients, Commit(c)
  PROVE  Shared!Accept(req[c])
<1>1. /\ req[c] \in Proposals
      /\ PriorReceipts(KeyOf[req[c]]) = {}
      /\ Evaluate(req[c], store).outcome \in Accepting
      /\ work[c] = Evaluate(req[c], store).store
  BY DEF Commit, Inv, ProtocolInv, ClientInv, At
<1>2. ASSUME NEW n \in DOMAIN ledger PROVE KeyOf[ledger[n].proposal] # KeyOf[req[c]]
  <2>1. PICK i \in Accepted : receipts[i].seq = n
    BY DEF Inv, ReceiptCoverage
  <2>2. receipts[i].key = KeyOf[ledger[n].proposal] /\ i \in DOMAIN receipts
    BY <2>1 DEF Inv, ReceiptCoverage, ReceiptKeys, Accepted
  <2> QED
    BY <2>2, <1>1 DEF PriorReceipts
<1>3. [n \in DOMAIN ledger' |-> ledger'[n].proposal]
        = Append([n \in DOMAIN ledger |-> ledger[n].proposal], req[c])
  <2> DEFINE e == [proposal |-> req[c], prev |-> Len(ledger), pre |-> store, post |-> work[c]]
             old == [n \in DOMAIN ledger |-> ledger[n].proposal]
             new == [n \in DOMAIN ledger' |-> ledger'[n].proposal]
  <2>1. ledger' = Append(ledger, e) /\ ledger \in Seq(Entry) /\ e \in Entry
    BY <1>1 DEF Commit, Inv, TypeOK, Entry
  <2>2. /\ DOMAIN ledger' = 1 .. (Len(ledger) + 1) /\ DOMAIN ledger = 1 .. Len(ledger)
        /\ Len(ledger) \in Nat
        /\ \A n \in 1 .. Len(ledger) : ledger'[n] = ledger[n]
        /\ ledger'[Len(ledger) + 1] = e
    BY <2>1
  <2>3. old \in Seq(Proposals) /\ Len(old) = Len(ledger)
    <3>1. \A n \in 1 .. Len(ledger) : ledger[n] \in Entry
      BY <2>1, <2>2
    <3>2. \A n \in 1 .. Len(ledger) : ledger[n].proposal \in Proposals
      BY <3>1 DEF Entry
    <3>3. old \in [1 .. Len(ledger) -> Proposals]
      BY <3>2, <2>2
    <3> QED
      BY <3>3, <2>2
  <2>4. Append(old, req[c]) = [n \in 1 .. (Len(ledger) + 1) |->
                                 IF n = Len(ledger) + 1 THEN req[c] ELSE old[n]]
    BY <2>3, <2>2
  <2>5. ASSUME NEW n \in 1 .. (Len(ledger) + 1)
        PROVE  new[n] = IF n = Len(ledger) + 1 THEN req[c] ELSE old[n]
    <3>1. CASE n = Len(ledger) + 1
      BY <3>1, <2>2
    <3>2. CASE n # Len(ledger) + 1
      <4>1. n \in 1 .. Len(ledger)
        BY <3>2, <2>2
      <4> QED
        BY <3>2, <4>1, <2>2
    <3> QED
      BY <3>1, <3>2
  <2> HIDE DEF old
  <2>6. new = [n \in 1 .. (Len(ledger) + 1) |->
                IF n = Len(ledger) + 1 THEN req[c] ELSE old[n]]
    BY <2>5, <2>2
  <2> QED
    BY <2>4, <2>6 DEF old
<1>4. store' = Evaluate(req[c], store).store
  BY <1>1 DEF Commit
<1> QED
  BY <1>1, <1>2, <1>3, <1>4 DEF Shared!Accept, Shared!Accepting, Accepting

\* The commit protocol gives its clients the shared ledger they are promised.
THEOREM CommitImplementsSharedLedger == Spec => ImplementsSharedLedger
<1>1. Init => Shared!Init
  BY DEF Init, Shared!Init
<1>2. Inv /\ [Next]_vars => [Shared!Next]_(Shared!shared)
  <2> SUFFICES ASSUME Inv, [Next]_vars PROVE [Shared!Next]_(Shared!shared)
    OBVIOUS
  <2>1. ASSUME UNCHANGED db PROVE UNCHANGED Shared!shared
    BY <2>1 DEF db, Shared!shared
  <2>2. CASE UNCHANGED vars
    BY <2>1, <2>2 DEF vars
  <2>3. ASSUME NEW c \in Clients, Commit(c) PROVE Shared!Next
    <3>1. req[c] \in Proposals
      BY <2>3 DEF Commit, Inv, ProtocolInv, ClientInv, At
    <3>2. Shared!Accept(req[c])
      BY <2>3, CommitAccepts
    <3> QED
      BY <3>1, <3>2 DEF Shared!Next, Shared!Accept
  <2>4. ASSUME NEW c \in Clients, RecordRejection(c) PROVE UNCHANGED Shared!shared
    BY <2>4 DEF RecordRejection, Shared!shared
  <2>5. ASSUME NEW c \in Clients, Quiet(c) PROVE UNCHANGED Shared!shared
    BY <2>1, <2>5, QuietUnchanged
  <2> QED
    BY <2>2, <2>3, <2>4, <2>5 DEF Next, Step, Quiet
<1> QED
  BY <1>1, <1>2, SpecInv, PTL DEF Spec, ImplementsSharedLedger, Shared!Spec
=============================================================================
