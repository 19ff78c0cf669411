-------------------------- MODULE ProductProofs --------------------------
(***************************************************************************)
(* What two parts of the product guarantee for any number of processes,    *)
(* calls, items and drafts.                                                *)
(*                                                                         *)
(* The review queue, and any kernel: no edit is lost, and a draft says     *)
(* COMMITTED only of what is in the ledger.                                *)
(*                                                                         *)
(* The helpers agents hand work over with: what a call returns is what it  *)
(* recorded, a transition is refused only when others got in its way, and  *)
(* a list shows every item that was there when it began.                   *)
(*                                                                         *)
(* The two share no variables; each theorem is about one specification.    *)
(***************************************************************************)
EXTENDS Drafts, WorkItems, FiniteSetTheorems, TLAPS

Statuses == Open \cup Final \cup {"FAILED"}
RowReceipts == {NoReceipt} \cup [ok : BOOLEAN, document : Documents]
Rows == [status : Statuses, version : Nat, document : Documents, receipt : RowReceipts]
Updates ==
  [draft : Drafts, from : Statuses, to : Statuses, previous : Nat, version : Nat,
   receipt : RowReceipts]
Answers ==
  [document : Documents \cup Foreign, outcome : Kernel!Accepting \cup Kernel!Rejecting]
Jobs ==
  {Idle} \cup [at : {"commit"}, draft : Drafts, document : Documents]
         \cup [at : {"edit"}, draft : Drafts, document : Documents, expected : Nat]
         \cup [at : {"reject"}, draft : Drafts]
         \cup [at : {"refused"}, draft : Drafts, document : Documents,
               outcome : Kernel!Rejecting]
         \cup [at : {"finish"}, draft : Drafts, document : Documents,
               status : {"COMMITTED", "FAILED"}]

\* The types, and that a call works on a draft that is staged.
TypeInv ==
  /\ DOMAIN drafts \subseteq Drafts
  /\ drafts \in [DOMAIN drafts -> Rows]
  /\ audit \in Seq(Updates)
  /\ entries \in Seq(Documents \cup Foreign)
  /\ receipts \in [DOMAIN receipts -> Answers]
  /\ task \in [Clients -> Jobs]
  /\ \A c \in Clients : ~At(c, "idle") => task[c].draft \in DOMAIN drafts

\* No change has a version the row has not reached.
AuditInv ==
  /\ EditsNotLost
  /\ \A i \in DOMAIN audit :
       /\ audit[i].draft \in DOMAIN drafts
       /\ audit[i].version <= drafts[audit[i].draft].version

\* The oldest receipt of a key tells whether, and for what, it was accepted; the
\* documents the schemas refuse never were.
KernelInv ==
  /\ \A k \in DOMAIN receipts :
       receipts[k].outcome \in Kernel!Accepting => Accepted(receipts[k].document)
  /\ \A i \in DOMAIN entries :
       /\ KeyOf[entries[i]] \in DOMAIN receipts
       /\ receipts[KeyOf[entries[i]]].document = entries[i]
       /\ receipts[KeyOf[entries[i]]].outcome \in Kernel!Accepting
       /\ entries[i] \notin Invalid

\* A document that is not in the ledger and will never be.
LeftOut(document) ==
  /\ ~Accepted(document)
  /\ document \in Invalid \/ KeyOf[document] \in DOMAIN receipts

\* What a call that nothing overlapped knows of its draft between its steps.
Alone(c) ==
  LET d == task[c].draft
  IN /\ At(c, "commit") =>
          drafts[d].status \in Open /\ task[c].document = drafts[d].document
     /\ At(c, "edit") => drafts[d].status \in Open
     /\ At(c, "reject") => drafts[d].status \notin Final
     /\ At(c, "refused") =>
          /\ drafts[d].status \in Open /\ task[c].document = drafts[d].document
          /\ ~Accepted(task[c].document)
     /\ At(c, "finish") =>
          /\ drafts[d].status \in Open /\ task[c].document = drafts[d].document
          /\ task[c].status = "FAILED" => LeftOut(task[c].document)

\* Of two calls that are under way both drafts are raced for; a call whose draft
\* is not knows its draft.
CallsInv ==
  /\ \A c \in Clients : At(c, "finish") /\ task[c].status = "COMMITTED" => Accepted(task[c].document)
  /\ \A b, c \in Clients :
       b # c /\ ~At(b, "idle") /\ ~At(c, "idle") => task[c].draft \in raced
  /\ \A c \in Clients : ~At(c, "idle") /\ task[c].draft \notin raced => Alone(c)

\* The drafts tell the truth: all of them of what they say COMMITTED, those no
\* two calls met on of everything.
RowsInv ==
  /\ \A d \in DOMAIN drafts :
       drafts[d].status = "COMMITTED" => Accepted(drafts[d].receipt.document)
  /\ \A d \in DOMAIN drafts \ raced :
       /\ drafts[d].status = "COMMITTED" => Accepted(drafts[d].document)
       /\ drafts[d].status = "FAILED" => LeftOut(drafts[d].document)
       /\ \A i \in Changes(d) : audit[i].from \notin Final

Inv == TypeInv /\ AuditInv /\ KernelInv /\ CallsInv /\ RowsInv

-----------------------------------------------------------------------------
\* An empty queue and the ledger of a new workspace.
LEMMA InitInv == Init => Inv
<1> SUFFICES ASSUME Init PROVE Inv
  OBVIOUS
<1> USE DEF Init, Kernel!Init
<1>1. TypeInv
  BY DEF TypeInv, Jobs, At, Idle
<1>2. AuditInv /\ KernelInv /\ RowsInv
  BY DEF AuditInv, EditsNotLost, AuditTellsHistory, KernelInv, RowsInv
<1>3. CallsInv
  BY DEF CallsInv, At, Idle
<1> QED
  BY <1>1, <1>2, <1>3 DEF Inv

-----------------------------------------------------------------------------
(* update_draft.                                                           *)

\* It keeps the types.
LEMMA UpdateKeepsType ==
  ASSUME TypeInv, NEW d \in DOMAIN drafts, NEW status \in Statuses, NEW version \in Nat,
         NEW document \in Documents, NEW receipt \in RowReceipts,
         UpdateDraft(d, status, version, document, receipt)
  PROVE  /\ DOMAIN drafts' = DOMAIN drafts
         /\ drafts' \in [DOMAIN drafts -> Rows]
         /\ audit' \in Seq(Updates)
<1>1. drafts[d] \in Rows /\ d \in Drafts
  BY DEF TypeInv
<1>2. [status |-> status, version |-> version, document |-> document, receipt |-> receipt] \in Rows
  BY DEF Rows
<1>3. [draft |-> d, from |-> drafts[d].status, to |-> status, previous |-> drafts[d].version,
       version |-> version, receipt |-> receipt] \in Updates
  BY <1>1 DEF Rows, Updates
<1> QED
  BY <1>2, <1>3 DEF TypeInv, UpdateDraft

\* A call that leaves the version alone, or counts it up by one from where it is
\* in its own transaction, loses no edit and is told.
LEMMA UpdateKeepsAudit ==
  ASSUME TypeInv, AuditInv, NEW d \in DOMAIN drafts, NEW status \in Statuses,
         NEW version \in {drafts[d].version, drafts[d].version + 1},
         NEW document \in Documents, NEW receipt \in RowReceipts,
         UpdateDraft(d, status, version, document, receipt)
  PROVE  AuditInv'
<1> DEFINE n == Len(audit) + 1
           old == drafts[d]
<1>1. old \in Rows /\ old.version \in Nat /\ version \in Nat
  BY DEF TypeInv, Rows
<1>2. /\ DOMAIN audit' = 1 .. n
      /\ DOMAIN audit = 1 .. n - 1 /\ n \in Nat \ {0}
      /\ \A i \in DOMAIN audit : audit'[i] = audit[i]
      /\ audit'[n] = [draft |-> d, from |-> old.status, to |-> status,
                      previous |-> old.version, version |-> version, receipt |-> receipt]
  BY DEF UpdateDraft, TypeInv
<1>3. /\ DOMAIN drafts' = DOMAIN drafts
      /\ drafts'[d].status = status /\ drafts'[d].version = version
      /\ \A e \in DOMAIN drafts \ {d} : drafts'[e] = drafts[e]
  BY DEF UpdateDraft, TypeInv
<1>4. \A i \in DOMAIN audit : audit[i].version \in Nat /\ audit[i].previous \in Nat
  <2>1. \A i \in DOMAIN audit : audit[i] \in Updates
    BY DEF TypeInv
  <2> QED
    BY <2>1 DEF Updates
<1>5. \A e \in DOMAIN drafts : drafts[e].version \in Nat
  BY DEF TypeInv, Rows
<1>6. \A i \in DOMAIN audit' :
        /\ audit'[i].draft \in DOMAIN drafts'
        /\ audit'[i].version <= drafts'[audit'[i].draft].version
  <2> SUFFICES ASSUME NEW i \in DOMAIN audit'
               PROVE  /\ audit'[i].draft \in DOMAIN drafts'
                      /\ audit'[i].version <= drafts'[audit'[i].draft].version
    OBVIOUS
  <2>1. CASE i = n
    BY <2>1, <1>1, <1>2, <1>3
  <2>2. CASE i \in DOMAIN audit /\ audit[i].draft = d
    BY <2>2, <1>1, <1>2, <1>3, <1>4 DEF AuditInv
  <2>3. CASE i \in DOMAIN audit /\ audit[i].draft # d
    BY <2>3, <1>2, <1>3 DEF AuditInv
  <2> QED
    BY <2>1, <2>2, <2>3, <1>2
<1>7. \A i, j \in DOMAIN audit' :
        /\ audit'[i].draft = audit'[j].draft
        /\ audit'[i].version = audit'[j].version
        /\ audit'[i].version > audit'[i].previous
        /\ audit'[j].version > audit'[j].previous
        => i = j
  <2>1. \A j \in DOMAIN audit :
          audit[j].draft = d /\ version > old.version => audit[j].version # version
    BY <1>1, <1>4 DEF AuditInv
  <2> SUFFICES ASSUME NEW i \in DOMAIN audit', NEW j \in DOMAIN audit',
                      audit'[i].draft = audit'[j].draft, audit'[i].version = audit'[j].version,
                      audit'[i].version > audit'[i].previous, audit'[j].version > audit'[j].previous
               PROVE  i = j
    OBVIOUS
  <2>2. CASE i \in DOMAIN audit /\ j \in DOMAIN audit
    BY <2>2, <1>2 DEF AuditInv, EditsNotLost
  <2>3. CASE i = n /\ j \in DOMAIN audit
    BY <2>1, <2>3, <1>2
  <2>4. CASE j = n /\ i \in DOMAIN audit
    BY <2>1, <2>4, <1>2
  <2> QED
    BY <2>2, <2>3, <2>4, <1>2
<1>8. AuditTellsHistory'
  <2> SUFFICES ASSUME NEW e \in DOMAIN drafts'
               PROVE
          /\ Changes(e)' = {} => drafts'[e].status = "DRAFT" /\ drafts'[e].version = 1
          /\ \A i \in Changes(e)' :
               /\ (\A j \in Changes(e)' : i <= j) =>
                    audit'[i].from = "DRAFT" /\ audit'[i].previous = 1
               /\ (\A j \in Changes(e)' : j <= i) =>
                    audit'[i].to = drafts'[e].status /\ audit'[i].version = drafts'[e].version
               /\ \A j \in Changes(e)' :
                    i < j /\ (\A k \in Changes(e)' : k <= i \/ j <= k) =>
                      audit'[j].from = audit'[i].to /\ audit'[j].previous = audit'[i].version
    BY DEF AuditTellsHistory
  <2>1. CASE e # d
    <3>1. Changes(e)' = Changes(e) /\ Changes(e) \subseteq DOMAIN audit
      BY <2>1, <1>2 DEF Changes
    <3>2. \A i \in Changes(e) : audit'[i] = audit[i]
      BY <3>1, <1>2
    <3>3. e \in DOMAIN drafts /\ drafts'[e] = drafts[e]
      BY <2>1, <1>3
    <3>4. AuditTellsHistory
      BY DEF AuditInv, EditsNotLost
    <3> QED
      BY <3>1, <3>2, <3>3, <3>4 DEF AuditTellsHistory
  <2>2. CASE e = d
    <3>1. Changes(d)' = Changes(d) \cup {n} /\ Changes(d) \subseteq 1 .. n - 1
      BY <1>2 DEF Changes
    <3>2. \A i \in Changes(d) : i \in DOMAIN audit /\ audit'[i] = audit[i] /\ i < n /\ i \in Nat
      BY <3>1, <1>2
    <3>3. /\ Changes(d) = {} => old.status = "DRAFT" /\ old.version = 1
          /\ \A i \in Changes(d) :
               /\ (\A j \in Changes(d) : i <= j) => audit[i].from = "DRAFT" /\ audit[i].previous = 1
               /\ (\A j \in Changes(d) : j <= i) =>
                    audit[i].to = old.status /\ audit[i].version = old.version
               /\ \A j \in Changes(d) :
                    i < j /\ (\A k \in Changes(d) : k <= i \/ j <= k) =>
                      audit[j].from = audit[i].to /\ audit[j].previous = audit[i].version
      BY DEF AuditInv, EditsNotLost, AuditTellsHistory
    <3>4. ASSUME NEW i \in Changes(d)', \A j \in Changes(d)' : i <= j
          PROVE  audit'[i].from = "DRAFT" /\ audit'[i].previous = 1
      <4>1. CASE i = n
        <5>1. Changes(d) = {}
          BY <4>1, <3>4, <3>1, <3>2
        <5> QED
          BY <5>1, <4>1, <3>3, <1>2
      <4>2. CASE i \in Changes(d)
        BY <4>2, <3>4, <3>1, <3>2, <3>3
      <4> QED
        BY <4>1, <4>2, <3>1
    <3>5. ASSUME NEW i \in Changes(d)', \A j \in Changes(d)' : j <= i
          PROVE  audit'[i].to = status /\ audit'[i].version = version
      <4>1. i = n
        BY <3>5, <3>1, <3>2
      <4> QED
        BY <4>1, <1>2
    <3>6. ASSUME NEW i \in Changes(d)', NEW j \in Changes(d)', i < j,
                 \A k \in Changes(d)' : k <= i \/ j <= k
          PROVE  audit'[j].from = audit'[i].to /\ audit'[j].previous = audit'[i].version
      <4>1. i \in Changes(d)
        BY <3>6, <3>1, <3>2, <1>2
      <4>2. CASE j = n
        <5>1. \A k \in Changes(d) : k <= i
          BY <4>2, <3>6, <3>1, <3>2
        <5> QED
          BY <5>1, <4>1, <4>2, <3>2, <3>3, <1>2
      <4>3. CASE j \in Changes(d)
        BY <4>1, <4>3, <3>6, <3>1, <3>2, <3>3
      <4> QED
        BY <4>2, <4>3, <3>1
    <3> QED
      BY <2>2, <3>1, <3>4, <3>5, <3>6, <1>3
  <2> QED
    BY <2>1, <2>2
<1> QED
  BY <1>6, <1>7, <1>8 DEF AuditInv, EditsNotLost

\* What a row that changes must say for the rows to stay true.
LEMMA UpdateKeepsRows ==
  ASSUME TypeInv, RowsInv, NEW d \in DOMAIN drafts, NEW status \in Statuses, NEW version \in Nat,
         NEW document \in Documents, NEW receipt \in RowReceipts,
         UpdateDraft(d, status, version, document, receipt),
         UNCHANGED <<entries, receipts, raced>>,
         status = "COMMITTED" => Accepted(receipt.document),
         d \notin raced => drafts[d].status \notin Final,
         d \notin raced /\ status = "COMMITTED" => Accepted(document),
         d \notin raced /\ status = "FAILED" => LeftOut(document)
  PROVE  RowsInv'
<1>1. /\ \A x : Accepted(x)' = Accepted(x)
      /\ \A x : LeftOut(x)' = LeftOut(x)
  BY DEF Accepted, LeftOut
<1>2. /\ DOMAIN drafts' = DOMAIN drafts
      /\ drafts'[d].status = status /\ drafts'[d].document = document
      /\ drafts'[d].receipt = receipt
      /\ \A e \in DOMAIN drafts \ {d} : drafts'[e] = drafts[e]
  BY DEF UpdateDraft, TypeInv
<1>3. \A e \in DOMAIN drafts : \A i \in Changes(e)' :
        \/ i \in Changes(e) /\ audit'[i].from = audit[i].from
        \/ e = d /\ audit'[i].from = drafts[d].status
  BY DEF UpdateDraft, TypeInv, Changes
<1> QED
  BY <1>1, <1>2, <1>3 DEF RowsInv

-----------------------------------------------------------------------------
(* The kernel.                                                             *)

\* The ledger only grows, and never by what is lost.
LEMMA AcceptKeeps ==
  ASSUME TypeInv, KernelInv, NEW p \in Documents \cup Foreign, p \notin Invalid,
         ~Answered(KeyOf[p]), Kernel!Accept(p), Record(p, Evaluate(p, store).outcome)
  PROVE  /\ entries' \in Seq(Documents \cup Foreign)
         /\ receipts' \in [DOMAIN receipts' -> Answers]
         /\ KernelInv'
         /\ \A x : Accepted(x)' <=> Accepted(x) \/ x = p
         /\ \A x : LeftOut(x) => LeftOut(x)'
<1>1. /\ entries' = Append(entries, p)
      /\ Evaluate(p, store).outcome \in Kernel!Accepting
  BY DEF Kernel!Accept
<1>2. /\ DOMAIN receipts' = DOMAIN receipts \cup {KeyOf[p]}
      /\ KeyOf[p] \notin DOMAIN receipts
      /\ \A k \in DOMAIN receipts : receipts'[k] = receipts[k]
      /\ receipts'[KeyOf[p]] = [document |-> p, outcome |-> Evaluate(p, store).outcome]
      /\ receipts' \in [DOMAIN receipts' -> Answers]
  BY <1>1 DEF Record, Answered, TypeInv, Answers
<1>3. /\ entries' \in Seq(Documents \cup Foreign)
      /\ DOMAIN entries' = DOMAIN entries \cup {Len(entries) + 1}
      /\ \A i \in DOMAIN entries : entries'[i] = entries[i]
      /\ entries'[Len(entries) + 1] = p
  BY <1>1 DEF TypeInv
<1>4. \A x : Accepted(x)' <=> Accepted(x) \/ x = p
  BY <1>3 DEF Accepted
<1>5. KernelInv'
  BY <1>1, <1>2, <1>3, <1>4 DEF KernelInv
<1>6. \A x : LeftOut(x) => LeftOut(x)'
  BY <1>2, <1>4 DEF LeftOut
<1> QED
  BY <1>2, <1>3, <1>4, <1>5, <1>6

\* A rejection enters no document, and replaces no receipt.
LEMMA RejectionKeeps ==
  ASSUME TypeInv, KernelInv, NEW p \in Documents, NEW outcome \in Kernel!Rejecting,
         Record(p, outcome), UNCHANGED entries
  PROVE  /\ receipts' \in [DOMAIN receipts' -> Answers]
         /\ KernelInv'
         /\ \A x : Accepted(x)' = Accepted(x)
         /\ \A x : LeftOut(x) => LeftOut(x)'
         /\ KeyOf[p] \in DOMAIN receipts'
<1>1. /\ DOMAIN receipts' = DOMAIN receipts \cup {KeyOf[p]}
      /\ \A k \in DOMAIN receipts : receipts'[k] = receipts[k]
      /\ \A k \in DOMAIN receipts' \ DOMAIN receipts :
           receipts'[k] = [document |-> p, outcome |-> outcome]
      /\ receipts' \in [DOMAIN receipts' -> Answers]
  BY DEF Record, Answered, TypeInv, Answers
<1>2. /\ \A x : Accepted(x)' = Accepted(x)
      /\ \A x : LeftOut(x) => LeftOut(x)'
  BY <1>1 DEF Accepted, LeftOut
<1>3. outcome \notin Kernel!Accepting
  BY DEF Kernel!Accepting, Kernel!Rejecting
<1>4. KernelInv'
  BY <1>1, <1>2, <1>3 DEF KernelInv
<1> QED
  BY <1>1, <1>2, <1>4

\* Nothing is said of the kernel's tables that its next entry takes back.
LEMMA RowsKeep ==
  ASSUME RowsInv, UNCHANGED <<drafts, audit, raced>>,
         \A x : Accepted(x) => Accepted(x)', \A x : LeftOut(x) => LeftOut(x)'
  PROVE  RowsInv'
BY DEF RowsInv, Changes

-----------------------------------------------------------------------------
(* The calls.                                                              *)

\* Where a call begins: either it is alone, or all that are under way are raced
\* for from now on.
LEMMA CallKeeps ==
  ASSUME Inv, NEW c \in Clients, NEW t \in Jobs, t.at \in {"commit", "edit", "reject"},
         t.draft \in DOMAIN drafts, Call(c, t),
         t.at = "commit" => drafts[t.draft].status \in Open
                              /\ t.document = drafts[t.draft].document,
         t.at = "edit" => drafts[t.draft].status \in Open,
         t.at = "reject" => drafts[t.draft].status \notin Final
  PROVE  Inv'
<1>0. /\ UNCHANGED <<drafts, audit, entries, store, receipts>>
      /\ task' = [task EXCEPT ![c] = t] /\ task \in [Clients -> Jobs]
      /\ task'[c] = t /\ \A b \in Clients \ {c} : task'[b] = task[b]
      /\ At(c, "idle")
      /\ raced \subseteq raced'
  BY DEF Call, Become, kernel, Inv, TypeInv
<1>1. TypeInv'
  BY <1>0 DEF Inv, TypeInv, At
<1>2. AuditInv' /\ KernelInv'
  BY <1>0 DEF Inv, AuditInv, EditsNotLost, AuditTellsHistory, Changes, KernelInv, Accepted
<1>3. /\ \A x : Accepted(x)' = Accepted(x)
      /\ \A x : LeftOut(x)' = LeftOut(x)
  BY <1>0 DEF Accepted, LeftOut
<1>4. RowsInv'
  BY <1>0, <1>3 DEF Inv, RowsInv, Changes
<1>5. CASE \A b \in Clients : At(b, "idle")
  <2>1. \A b \in Clients \ {c} : At(b, "idle")'
    BY <1>5, <1>0 DEF At
  <2>2. Alone(c)'
    BY <1>0 DEF Alone, At
  <2>3. ~At(c, "finish")'
    BY <1>0 DEF At
  <2>4. CallsInv'
    BY <2>1, <2>2, <2>3 DEF CallsInv, At
  <2> QED
    BY <1>1, <1>2, <1>4, <2>4 DEF Inv
<1>6. CASE \E b \in Clients : ~At(b, "idle")
  <2>1. \A b \in Clients : ~At(b, "idle")' => task'[b].draft \in raced'
    BY <1>6, <1>0 DEF Call, At
  <2>2. (\A b \in Clients : At(b, "finish") /\ task[b].status = "COMMITTED"
                             => Accepted(task[b].document))'
    <3>1. \A b \in Clients : task'[b].at = "finish" => b # c
      BY <1>0
    <3> QED
      BY <3>1, <1>0, <1>3 DEF Inv, CallsInv, At
  <2>3. CallsInv'
    BY <2>1, <2>2 DEF CallsInv
  <2> QED
    BY <1>1, <1>2, <1>4, <2>3 DEF Inv
<1> QED
  BY <1>5, <1>6

\* A step of a call that is under way: while it is, no other call knows its draft
\* alone, so only what this one knows has to be shown again.
LEMMA StepKeeps ==
  ASSUME TypeInv, CallsInv, NEW c \in Clients, ~At(c, "idle"), NEW t \in Jobs, Become(c, t),
         t # Idle => t.draft = task[c].draft,
         UNCHANGED raced, \A x : Accepted(x) => Accepted(x)',
         t.at = "finish" /\ t.status = "COMMITTED" => Accepted(t.document)',
         t # Idle /\ t.draft \notin raced => Alone(c)'
  PROVE  /\ CallsInv'
         /\ task' \in [Clients -> Jobs]
         /\ \A b \in Clients : ~At(b, "idle")' => ~At(b, "idle") /\ task'[b].draft = task[b].draft
<1>1. /\ task'[c] = t /\ \A b \in Clients \ {c} : task'[b] = task[b]
      /\ task' \in [Clients -> Jobs]
  BY DEF Become, TypeInv
<1>2. \A b \in Clients : ~At(b, "idle")' =>
        ~At(b, "idle") /\ task'[b].draft = task[b].draft /\ (b = c => t # Idle)
  BY <1>1 DEF At, Idle
<1>3. \A b \in Clients \ {c} : ~At(b, "idle") => task[b].draft \in raced
  BY DEF CallsInv
<1>4. (\A b \in Clients : At(b, "finish") /\ task[b].status = "COMMITTED"
                           => Accepted(task[b].document))'
  <2>1. ASSUME NEW b \in Clients, b # c, task'[b].at = "finish", task'[b].status = "COMMITTED"
        PROVE  (Accepted(task[b].document))'
    BY <2>1, <1>1 DEF CallsInv, At
  <2> QED
    BY <2>1, <1>1 DEF At
<1>5. \A b, e \in Clients :
        b # e /\ ~At(b, "idle")' /\ ~At(e, "idle")' => task'[e].draft \in raced'
  BY <1>2 DEF CallsInv
<1>6. \A b \in Clients : ~At(b, "idle")' /\ task'[b].draft \notin raced' => Alone(b)'
  BY <1>1, <1>2, <1>3
<1> QED
  BY <1>1, <1>2, <1>4, <1>5, <1>6 DEF CallsInv

-----------------------------------------------------------------------------
(* The actions.                                                            *)

\* A draft staged anew has no history, and nobody works on it.
LEMMA StageKeeps == ASSUME Inv, NEW d \in Drafts, Stage(d) PROVE Inv'
<1>0. /\ DOMAIN drafts' = DOMAIN drafts \cup {d} /\ d \notin DOMAIN drafts
      /\ \A e \in DOMAIN drafts : drafts'[e] = drafts[e]
      /\ drafts'[d] = [status |-> "DRAFT", version |-> 1, document |-> Staged[d],
                       receipt |-> NoReceipt]
      /\ drafts' \in [DOMAIN drafts' -> Rows]
      /\ UNCHANGED <<audit, entries, receipts, task, raced>>
  <2>1. [status |-> "DRAFT", version |-> 1, document |-> Staged[d], receipt |-> NoReceipt] \in Rows
    BY DraftsAssumption DEF Rows, Statuses, Open, RowReceipts
  <2> QED
    BY <2>1 DEF Stage, kernel, Inv, TypeInv
<1>1. TypeInv'
  BY <1>0 DEF Inv, TypeInv, At
<1>2. \A e \in DOMAIN drafts : Changes(e)' = Changes(e)
  BY <1>0 DEF Changes
<1>3. Changes(d)' = {}
  BY <1>0 DEF Inv, AuditInv, Changes
<1>4. AuditInv'
  <2>1. AuditTellsHistory'
    BY <1>0, <1>2, <1>3 DEF Inv, AuditInv, EditsNotLost, AuditTellsHistory
  <2> QED
    BY <2>1, <1>0 DEF Inv, AuditInv, EditsNotLost
<1>5. KernelInv'
  BY <1>0 DEF Inv, KernelInv, Accepted
<1>6. /\ \A x : Accepted(x)' = Accepted(x)
      /\ \A x : LeftOut(x)' = LeftOut(x)
  BY <1>0 DEF Accepted, LeftOut
<1>7. RowsInv'
  BY <1>0, <1>2, <1>3, <1>6 DEF Inv, RowsInv
<1>8. CallsInv'
  <2>1. ASSUME NEW c \in Clients, ~At(c, "idle"), Alone(c) PROVE Alone(c)'
    <3>1. task[c].draft \in DOMAIN drafts
      BY <2>1 DEF Inv, TypeInv
    <3> QED
      BY <2>1, <3>1, <1>0 DEF Alone, At, LeftOut, Accepted
  <2> QED
    BY <2>1, <1>0 DEF Inv, CallsInv, At, Accepted
<1> QED
  BY <1>1, <1>4, <1>5, <1>7, <1>8 DEF Inv

\* Somebody else's proposal is in no draft, so it makes no failure untrue.
LEMMA ForeignKeeps == ASSUME Inv, NEW p \in Foreign, ForeignCommit(p) PROVE Inv'
<1>0. /\ p \notin Invalid /\ p \notin Documents
      /\ UNCHANGED <<drafts, audit, task, raced>>
      /\ ~Answered(KeyOf[p])
      /\ Kernel!Accept(p) /\ Record(p, Evaluate(p, store).outcome)
  BY DraftsAssumption DEF ForeignCommit
<1>1. /\ entries' \in Seq(Documents \cup Foreign)
      /\ receipts' \in [DOMAIN receipts' -> Answers]
      /\ KernelInv'
      /\ \A x : Accepted(x)' <=> Accepted(x) \/ x = p
      /\ \A x : LeftOut(x) => LeftOut(x)'
  BY <1>0, AcceptKeeps DEF Inv
<1>2. TypeInv' /\ AuditInv' /\ RowsInv'
  <2>1. TypeInv'
    BY <1>0, <1>1 DEF Inv, TypeInv, At
  <2>2. AuditInv'
    BY <1>0 DEF Inv, AuditInv, EditsNotLost, AuditTellsHistory, Changes
  <2>3. RowsInv'
    BY <1>0, <1>1, RowsKeep DEF Inv
  <2> QED
    BY <2>1, <2>2, <2>3
<1>3. CallsInv'
  <2>1. ASSUME NEW c \in Clients, ~At(c, "idle"), Alone(c) PROVE Alone(c)'
    <3>1. task[c] \in Jobs /\ task'[c] = task[c] /\ drafts' = drafts
      BY <1>0 DEF Inv, TypeInv
    <3>2. At(c, "refused") => task[c].document \in Documents
      BY <3>1 DEF Jobs, Idle, At
    <3>3. At(c, "refused") => ~(Accepted(task[c].document))'
      BY <2>1, <3>1, <3>2, <1>0, <1>1 DEF Alone
    <3>4. At(c, "finish") /\ task[c].status = "FAILED" => (LeftOut(task[c].document))'
      BY <2>1, <3>1, <1>1 DEF Alone
    <3> QED
      BY <2>1, <3>1, <3>3, <3>4 DEF Alone, At
  <2>2. \A c \in Clients : At(c, "finish") /\ task[c].status = "COMMITTED"
                             => (Accepted(task[c].document))'
    BY <1>0, <1>1 DEF Inv, CallsInv
  <2> QED
    BY <2>1, <2>2, <1>0 DEF Inv, CallsInv, At
<1> QED
  BY <1>1, <1>2, <1>3 DEF Inv

\* A call that ends or dies without writing.
LEMMA LeaveKeeps ==
  ASSUME Inv, NEW c \in Clients, ~At(c, "idle"), Become(c, Idle),
         UNCHANGED <<drafts, audit, entries, receipts, raced>>
  PROVE  Inv'
<1>1. Idle \in Jobs /\ Idle.at = "idle"
  BY DEF Jobs, Idle
<1>2. \A x : Accepted(x)' = Accepted(x)
  BY DEF Accepted
<1>3. /\ CallsInv' /\ task' \in [Clients -> Jobs]
      /\ \A b \in Clients : ~At(b, "idle")' => ~At(b, "idle") /\ task'[b].draft = task[b].draft
  BY <1>1, <1>2, StepKeeps DEF Inv
<1>4. TypeInv'
  BY <1>3 DEF Inv, TypeInv
<1>5. AuditInv' /\ KernelInv' /\ RowsInv'
  BY DEF Inv, AuditInv, EditsNotLost, AuditTellsHistory, Changes, KernelInv, RowsInv, Accepted,
         LeftOut
<1> QED
  BY <1>3, <1>4, <1>5 DEF Inv

\* The last write of a call, in a transaction of its own.
LEMMA WriteKeeps ==
  ASSUME Inv, NEW c \in Clients, ~At(c, "idle"), Become(c, Idle), UNCHANGED <<kernel, raced>>,
         NEW status \in Statuses,
         NEW version \in {drafts[task[c].draft].version, drafts[task[c].draft].version + 1},
         NEW document \in Documents, NEW receipt \in RowReceipts,
         UpdateDraft(task[c].draft, status, version, document, receipt),
         status = "COMMITTED" => Accepted(receipt.document),
         task[c].draft \notin raced => drafts[task[c].draft].status \notin Final,
         task[c].draft \notin raced /\ status = "COMMITTED" => Accepted(document),
         task[c].draft \notin raced /\ status = "FAILED" => LeftOut(document)
  PROVE  Inv'
<1> DEFINE d == task[c].draft
<1>0. /\ UNCHANGED <<entries, receipts, raced>>
      /\ d \in DOMAIN drafts
  BY DEF kernel, Inv, TypeInv
<1>1. drafts[d].version \in Nat /\ version \in Nat
  BY <1>0 DEF Inv, TypeInv, Rows
<1>2. /\ DOMAIN drafts' = DOMAIN drafts
      /\ drafts' \in [DOMAIN drafts -> Rows]
      /\ audit' \in Seq(Updates)
  BY <1>0, <1>1, UpdateKeepsType DEF Inv
<1>3. AuditInv'
  BY <1>0, UpdateKeepsAudit DEF Inv
<1>4. RowsInv'
  BY <1>0, <1>1, UpdateKeepsRows DEF Inv
<1>5. KernelInv'
  BY <1>0 DEF Inv, KernelInv, Accepted
<1>6. Idle \in Jobs /\ Idle.at = "idle"
  BY DEF Jobs, Idle
<1>7. \A x : Accepted(x)' = Accepted(x)
  BY <1>0 DEF Accepted
<1>8. /\ CallsInv' /\ task' \in [Clients -> Jobs]
      /\ \A b \in Clients : ~At(b, "idle")' => ~At(b, "idle") /\ task'[b].draft = task[b].draft
  BY <1>6, <1>7, StepKeeps DEF Inv, kernel
<1>9. TypeInv'
  BY <1>0, <1>2, <1>8 DEF Inv, TypeInv
<1> QED
  BY <1>3, <1>4, <1>5, <1>8, <1>9 DEF Inv

\* A step through the kernel, which touches no draft.
LEMMA MoveKeeps ==
  ASSUME Inv, NEW c \in Clients, ~At(c, "idle"), NEW t \in Jobs, t # Idle,
         t.draft = task[c].draft, Become(c, t), UNCHANGED <<drafts, audit, raced>>,
         entries' \in Seq(Documents \cup Foreign), receipts' \in [DOMAIN receipts' -> Answers],
         KernelInv', \A x : Accepted(x) => Accepted(x)', \A x : LeftOut(x) => LeftOut(x)',
         t.at = "finish" /\ t.status = "COMMITTED" => Accepted(t.document)',
         t.draft \notin raced => Alone(c)'
  PROVE  Inv'
<1>1. /\ CallsInv' /\ task' \in [Clients -> Jobs]
      /\ \A b \in Clients : ~At(b, "idle")' => ~At(b, "idle") /\ task'[b].draft = task[b].draft
  BY StepKeeps DEF Inv
<1>2. TypeInv'
  BY <1>1 DEF Inv, TypeInv
<1>3. AuditInv'
  BY DEF Inv, AuditInv, EditsNotLost, AuditTellsHistory, Changes
<1>4. RowsInv'
  BY RowsKeep DEF Inv
<1> QED
  BY <1>1, <1>2, <1>3, <1>4 DEF Inv

\* What is known of the job of a call in the kernel.
LEMMA InKernel ==
  ASSUME Inv, NEW c \in Clients, task[c].at \in {"commit", "refused", "finish"}
  PROVE  /\ task[c].draft \in Drafts /\ task[c].draft \in DOMAIN drafts
         /\ task[c].document \in Documents
         /\ At(c, "refused") => task[c].outcome \in Kernel!Rejecting
         /\ At(c, "finish") => task[c].status \in {"COMMITTED", "FAILED"}
         /\ ~At(c, "idle")
         /\ task[c].draft \notin raced => Alone(c)
<1>1. task[c] \in Jobs /\ ~At(c, "idle")
  BY DEF Inv, TypeInv, At
<1> QED
  BY <1>1 DEF Inv, TypeInv, CallsInv, Jobs, Idle, At

\* The step to the last write with the status the kernel's answer gives.
LEMMA FinishKeeps ==
  ASSUME Inv, NEW c \in Clients, task[c].at \in {"commit", "refused"},
         NEW document, document = task[c].document,
         NEW status \in {"COMMITTED", "FAILED"}, ToFinish(c, status),
         UNCHANGED <<drafts, audit, raced>>,
         entries' \in Seq(Documents \cup Foreign), receipts' \in [DOMAIN receipts' -> Answers],
         KernelInv', \A x : Accepted(x) => Accepted(x)', \A x : LeftOut(x) => LeftOut(x)',
         status = "COMMITTED" => Accepted(document)',
         status = "FAILED" => task[c].draft \in raced \/ LeftOut(document)'
  PROVE  Inv'
<1>0. PICK t : t = [at |-> "finish", draft |-> task[c].draft, document |-> document, status |-> status]
  OBVIOUS
<1>1. /\ task[c].draft \in Drafts /\ task[c].draft \in DOMAIN drafts /\ document \in Documents
      /\ ~At(c, "idle") /\ (task[c].draft \notin raced => Alone(c))
  BY InKernel
<1>2. t \in Jobs /\ t # Idle /\ t.draft = task[c].draft /\ Become(c, t)
  BY <1>0, <1>1 DEF Jobs, Idle, ToFinish
<1>3. task'[c] = t
  BY <1>2 DEF Become, Inv, TypeInv
<1>4. task[c].draft \notin raced => Alone(c)'
  BY <1>0, <1>1, <1>3 DEF Alone, At
<1>5. t.at = "finish" /\ t.status = "COMMITTED" => Accepted(t.document)'
  BY <1>0
<1> QED
  BY <1>1, <1>2, <1>4, <1>5, MoveKeeps

\* The kernel's part of commit_draft.
LEMMA RefuseKeeps == ASSUME Inv, NEW c \in Clients, Refuse(c) PROVE Inv'
<1>1. PICK document : document = task[c].document
  OBVIOUS
<1>2. /\ document \in Invalid /\ task[c].at = "commit" /\ ToFinish(c, "FAILED")
      /\ UNCHANGED <<drafts, audit, entries, receipts, raced>>
  BY <1>1 DEF Refuse, At, kernel
<1>3. /\ entries' \in Seq(Documents \cup Foreign) /\ receipts' \in [DOMAIN receipts' -> Answers]
      /\ KernelInv'
      /\ \A x : Accepted(x)' = Accepted(x)
      /\ \A x : LeftOut(x)' = LeftOut(x)
  BY <1>2 DEF Inv, TypeInv, KernelInv, Accepted, LeftOut
<1>4. LeftOut(document)
  BY <1>2 DEF LeftOut, Accepted, Inv, KernelInv
<1> QED
  BY <1>1, <1>2, <1>3, <1>4, FinishKeeps

LEMMA AnswerPriorKeeps == ASSUME Inv, NEW c \in Clients, AnswerPrior(c) PROVE Inv'
<1>1. PICK document : document = task[c].document
  OBVIOUS
<1> DEFINE prior == receipts[KeyOf[document]]
           status == IF prior.document = document THEN StatusFor(prior.outcome) ELSE "FAILED"
<1>2. /\ task[c].at = "commit" /\ ToFinish(c, status) /\ KeyOf[document] \in DOMAIN receipts
      /\ UNCHANGED <<drafts, audit, entries, receipts, raced>>
  BY <1>1 DEF AnswerPrior, At, kernel, Answered
<1>3. /\ entries' \in Seq(Documents \cup Foreign) /\ receipts' \in [DOMAIN receipts' -> Answers]
      /\ KernelInv'
      /\ \A x : Accepted(x)' = Accepted(x)
      /\ \A x : LeftOut(x)' = LeftOut(x)
  BY <1>2 DEF Inv, TypeInv, KernelInv, Accepted, LeftOut
<1>4. status \in {"COMMITTED", "FAILED"}
  BY DEF StatusFor
<1>5. status = "COMMITTED" => Accepted(document)
  BY <1>2 DEF StatusFor, Inv, KernelInv
<1>6. status = "FAILED" => LeftOut(document)
  <2> SUFFICES ASSUME status = "FAILED" PROVE ~Accepted(document)
    BY <1>2 DEF LeftOut
  <2>1. prior.document # document \/ prior.outcome \notin Kernel!Accepting
    BY DEF StatusFor
  <2> QED
    BY <2>1 DEF Accepted, Inv, KernelInv
<1> HIDE DEF status
<1> QED
  BY <1>1, <1>2, <1>3, <1>4, <1>5, <1>6, FinishKeeps

LEMMA AcceptStepKeeps == ASSUME Inv, NEW c \in Clients, Accept(c) PROVE Inv'
<1>1. PICK document : document = task[c].document
  OBVIOUS
<1>2. /\ task[c].at = "commit" /\ ToFinish(c, "COMMITTED") /\ document \notin Invalid
      /\ ~Answered(KeyOf[document]) /\ Kernel!Accept(document)
      /\ Record(document, Evaluate(document, store).outcome)
      /\ UNCHANGED <<drafts, audit, raced>>
  BY <1>1 DEF Accept, At
<1>3. document \in Documents
  BY <1>1, <1>2, InKernel
<1>4. /\ entries' \in Seq(Documents \cup Foreign) /\ receipts' \in [DOMAIN receipts' -> Answers]
      /\ KernelInv'
      /\ \A x : Accepted(x)' <=> Accepted(x) \/ x = document
      /\ \A x : LeftOut(x) => LeftOut(x)'
  BY <1>2, <1>3, AcceptKeeps DEF Inv
<1> QED
  BY <1>1, <1>2, <1>4, FinishKeeps

LEMMA RejectKeeps == ASSUME Inv, NEW c \in Clients, Reject(c) PROVE Inv'
<1>1. PICK t : t = [at |-> "refused", draft |-> task[c].draft, document |-> task[c].document,
                    outcome |-> Evaluate(task[c].document, store).outcome]
  OBVIOUS
<1>2. /\ task[c].at = "commit" /\ Become(c, t)
      /\ Evaluate(task[c].document, store).outcome \in Kernel!Rejecting
      /\ ~Answered(KeyOf[task[c].document])
      /\ UNCHANGED <<drafts, audit, entries, receipts, raced>>
  BY <1>1 DEF Reject, At, kernel
<1>3. /\ task[c].draft \in Drafts /\ task[c].draft \in DOMAIN drafts
      /\ task[c].document \in Documents
      /\ ~At(c, "idle") /\ (task[c].draft \notin raced => Alone(c))
  BY <1>2, InKernel
<1>4. t \in Jobs /\ t # Idle /\ t.draft = task[c].draft /\ t.at = "refused"
  BY <1>1, <1>2, <1>3 DEF Jobs, Idle
<1>5. /\ entries' \in Seq(Documents \cup Foreign) /\ receipts' \in [DOMAIN receipts' -> Answers]
      /\ KernelInv'
      /\ \A x : Accepted(x)' = Accepted(x)
      /\ \A x : LeftOut(x)' = LeftOut(x)
  BY <1>2 DEF Inv, TypeInv, KernelInv, Accepted, LeftOut
<1>6. ~Accepted(task[c].document)
  BY <1>2 DEF Answered, Accepted, Inv, KernelInv
<1>7. task'[c] = t /\ t.document = task[c].document
  BY <1>1, <1>2 DEF Become, Inv, TypeInv
<1>8. t.draft \notin raced => Alone(c)'
  BY <1>2, <1>3, <1>4, <1>6, <1>7 DEF Alone, At, Accepted
<1> QED
  BY <1>2, <1>3, <1>4, <1>5, <1>8, MoveKeeps

LEMMA RecordRejectionKeeps == ASSUME Inv, NEW c \in Clients, RecordRejection(c) PROVE Inv'
<1>1. PICK document : document = task[c].document
  OBVIOUS
<1>2. /\ task[c].at = "refused" /\ ToFinish(c, "FAILED")
      /\ Record(document, task[c].outcome)
      /\ UNCHANGED <<drafts, audit, entries, raced>>
  BY <1>1 DEF RecordRejection, At
<1>3. /\ document \in Documents /\ task[c].outcome \in Kernel!Rejecting
      /\ (task[c].draft \notin raced => Alone(c))
  BY <1>1, <1>2, InKernel DEF At
<1>4. /\ receipts' \in [DOMAIN receipts' -> Answers]
      /\ KernelInv'
      /\ \A x : Accepted(x)' = Accepted(x)
      /\ \A x : LeftOut(x) => LeftOut(x)'
      /\ KeyOf[document] \in DOMAIN receipts'
  BY <1>2, <1>3, RejectionKeeps DEF Inv
<1>5. entries' \in Seq(Documents \cup Foreign)
  BY <1>2 DEF Inv, TypeInv
<1>6. task[c].draft \in raced \/ LeftOut(document)'
  BY <1>1, <1>2, <1>3, <1>4 DEF Alone, At, LeftOut
<1> QED
  BY <1>1, <1>2, <1>4, <1>5, <1>6, FinishKeeps

-----------------------------------------------------------------------------
\* The second half of each call.
LEMMA FinishStepKeeps == ASSUME Inv, NEW c \in Clients, Finish(c) PROVE Inv'
<1> DEFINE d == task[c].draft
           receipt == [ok |-> task[c].status = "COMMITTED", document |-> task[c].document]
<1>1. /\ d \in DOMAIN drafts /\ task[c].document \in Documents /\ ~At(c, "idle")
      /\ task[c].status \in {"COMMITTED", "FAILED"} /\ At(c, "finish")
      /\ d \notin raced => Alone(c)
  BY InKernel DEF Finish, At
<1>2. drafts[d] \in Rows
  BY <1>1 DEF Inv, TypeInv
<1>3. /\ drafts[d].version \in {drafts[d].version, drafts[d].version + 1}
      /\ drafts[d].document \in Documents
  BY <1>2 DEF Rows
<1>4. receipt \in RowReceipts /\ task[c].status \in Statuses
  BY <1>1 DEF RowReceipts, Statuses, Final
<1>5. task[c].status = "COMMITTED" => Accepted(receipt.document)
  BY <1>1 DEF Inv, CallsInv
<1>6. d \notin raced =>
        /\ drafts[d].status \notin Final
        /\ task[c].status = "COMMITTED" => Accepted(drafts[d].document)
        /\ task[c].status = "FAILED" => LeftOut(drafts[d].document)
  BY <1>1, <1>5 DEF Alone, Open, Final
<1>7. /\ UpdateDraft(d, task[c].status, drafts[d].version, drafts[d].document, receipt)
      /\ Become(c, Idle) /\ UNCHANGED <<kernel, raced>>
  BY DEF Finish
<1> HIDE DEF receipt
<1> QED
  BY <1>1, <1>3, <1>4, <1>5, <1>6, <1>7, WriteKeeps

\* What is known of an edit or a rejection that is about to write.
LEMMA InWrite ==
  ASSUME Inv, NEW c \in Clients, task[c].at \in {"edit", "reject"}
  PROVE  /\ task[c].draft \in DOMAIN drafts /\ drafts[task[c].draft] \in Rows
         /\ At(c, "edit") => task[c].document \in Documents
         /\ ~At(c, "idle")
         /\ task[c].draft \notin raced => drafts[task[c].draft].status \notin Final
<1>1. task[c] \in Jobs /\ ~At(c, "idle")
  BY DEF Inv, TypeInv, At
<1>2. task[c].draft \notin raced => Alone(c)
  BY <1>1 DEF Inv, CallsInv
<1> QED
  BY <1>1, <1>2 DEF Inv, TypeInv, Jobs, Idle, At, Alone, Open, Final

LEMMA EditKeeps == ASSUME Inv, NEW c \in Clients, Edit(c) PROVE Inv'
<1> DEFINE d == task[c].draft
<1>1. /\ d \in DOMAIN drafts /\ drafts[d] \in Rows /\ task[c].document \in Documents
      /\ ~At(c, "idle") /\ (d \notin raced => drafts[d].status \notin Final)
  BY InWrite DEF Edit, At
<1>2. Become(c, Idle) /\ UNCHANGED <<kernel, raced>>
  BY DEF Edit
<1>3. CASE drafts[d].version = task[c].expected
  <2>1. UpdateDraft(d, "REVIEWED", drafts[d].version + 1, task[c].document, NoReceipt)
    BY <1>3 DEF Edit
  <2>2. /\ "REVIEWED" \in Statuses /\ NoReceipt \in RowReceipts
        /\ drafts[d].version + 1 \in {drafts[d].version, drafts[d].version + 1}
    BY DEF Statuses, Open, RowReceipts
  <2> QED
    BY <1>1, <1>2, <2>1, <2>2, WriteKeeps
<1>4. CASE drafts[d].version # task[c].expected
  <2>1. UNCHANGED <<drafts, audit, entries, receipts, raced>>
    BY <1>4 DEF Edit, kernel
  <2> QED
    BY <1>1, <1>2, <2>1, LeaveKeeps
<1> QED
  BY <1>3, <1>4

LEMMA RejectWriteKeeps == ASSUME Inv, NEW c \in Clients, RejectWrite(c) PROVE Inv'
<1> DEFINE d == task[c].draft
<1>1. /\ d \in DOMAIN drafts /\ drafts[d] \in Rows
      /\ ~At(c, "idle") /\ (d \notin raced => drafts[d].status \notin Final)
  BY InWrite DEF RejectWrite, At
<1>2. /\ Become(c, Idle) /\ UNCHANGED <<kernel, raced>>
      /\ UpdateDraft(d, "REJECTED", drafts[d].version, drafts[d].document, NoReceipt)
  BY DEF RejectWrite
<1>3. /\ "REJECTED" \in Statuses /\ NoReceipt \in RowReceipts
      /\ drafts[d].version \in {drafts[d].version, drafts[d].version + 1}
      /\ drafts[d].document \in Documents
  BY <1>1 DEF Statuses, Final, RowReceipts, Rows
<1> QED
  BY <1>1, <1>2, <1>3, WriteKeeps

\* Where each call begins.
LEMMA BeginKeeps ==
  ASSUME Inv, NEW c \in Clients, NEW d \in DOMAIN drafts,
         \/ CommitDraft(c, d)
         \/ \E document \in Documents, version \in 1 .. drafts[d].version :
              EditDraft(c, d, document, version)
         \/ RejectDraft(c, d)
  PROVE  Inv'
<1>1. d \in Drafts /\ drafts[d] \in Rows
  BY DEF Inv, TypeInv
<1>2. CASE CommitDraft(c, d)
  <2>1. PICK t : t = [at |-> "commit", draft |-> d, document |-> drafts[d].document]
    OBVIOUS
  <2>2. t \in Jobs
    BY <2>1, <1>1 DEF Jobs, Rows
  <2> QED
    BY <2>1, <2>2, <1>2, CallKeeps DEF CommitDraft
<1>3. ASSUME NEW document \in Documents, NEW version \in 1 .. drafts[d].version,
             EditDraft(c, d, document, version)
      PROVE  Inv'
  <2>1. PICK t : t = [at |-> "edit", draft |-> d, document |-> document, expected |-> version]
    OBVIOUS
  <2>2. t \in Jobs
    BY <2>1, <1>1 DEF Jobs
  <2> QED
    BY <2>1, <2>2, <1>3, CallKeeps DEF EditDraft
<1>4. CASE RejectDraft(c, d)
  <2>1. PICK t : t = [at |-> "reject", draft |-> d]
    OBVIOUS
  <2>2. t \in Jobs
    BY <2>1, <1>1 DEF Jobs
  <2> QED
    BY <2>1, <2>2, <1>4, CallKeeps DEF RejectDraft
<1> QED
  BY <1>2, <1>3, <1>4

-----------------------------------------------------------------------------
\* Every step keeps the invariant.
LEMMA NextInv == Inv /\ [Next]_vars => Inv'
<1> SUFFICES ASSUME Inv, [Next]_vars PROVE Inv'
  OBVIOUS
<1>1. ASSUME NEW c \in Clients, Crash(c) PROVE Inv'
  BY <1>1, LeaveKeeps DEF Crash, kernel
<1>2. CASE UNCHANGED vars
  BY <1>2 DEF vars, kernel, Inv, TypeInv, AuditInv, EditsNotLost, AuditTellsHistory, Changes,
     KernelInv, CallsInv, RowsInv, Alone, LeftOut, Accepted, At
<1>3. CASE Next
  BY <1>1, <1>3, StageKeeps, BeginKeeps, RefuseKeeps, AnswerPriorKeeps, AcceptStepKeeps,
     RejectKeeps, RecordRejectionKeeps, FinishStepKeeps, EditKeeps, RejectWriteKeeps,
     ForeignKeeps DEF Next
<1> QED
  BY <1>2, <1>3

LEMMA InvHolds == Spec => []Inv
BY InitInv, NextInv, PTL DEF Spec

-----------------------------------------------------------------------------
\* A draft says COMMITTED only of what is in the ledger, whoever dies between the
\* two databases; and a draft no two calls met on tells the whole truth.
THEOREM CommittedDraftsAreAccepted == Spec => []CommittedIsAccepted
<1>1. Inv => CommittedIsAccepted
  BY DEF Inv, RowsInv, CommittedIsAccepted, LeftOut
<1> QED
  BY <1>1, InvHolds, PTL

\* Of the editors who looked at one version of a draft one is let through, and
\* the audit tells every change.
THEOREM NoEditIsLost == Spec => []EditsNotLost
<1>1. Inv => EditsNotLost
  BY DEF Inv, AuditInv
<1> QED
  BY <1>1, InvHolds, PTL

-----------------------------------------------------------------------------
(* The helpers of work items.                                              *)

ItemStatuses == Wanted \cup {"TODO"}
ItemRows == [status : ItemStatuses, version : Nat]
ItemDocs == [item : Items, status : ItemStatuses, version : Nat]
ItemEntries ==
  [item : Items, version : Nat, was : ItemStatuses \cup {"NONE"}, status : ItemStatuses,
   author : {Other} \cup {Author[c] : c \in Callers}, call : Nat]
Fields == {"kind", "request", "number", "began", "attempt", "docs", "offset"}

Matches(e, doc) == e.item = doc.item /\ e.version = doc.version /\ e.status = doc.status

\* The document is the item as it was when the ledger had b entries, or later.
ReadAt(doc, b) ==
  \E n \in DOMAIN ledger :
    /\ Matches(ledger[n], doc)
    /\ \A m \in n + 1 .. b : ledger[m].item # doc.item

\* The rows are what the last entries made them, one version after the other.
ItemRowsInv ==
  /\ ledger \in Seq(ItemEntries)
  /\ DOMAIN rows \subseteq Items /\ rows \in [DOMAIN rows -> ItemRows]
  /\ \A n \in DOMAIN ledger :
       /\ ledger[n].item \in DOMAIN rows
       /\ ledger[n].version <= rows[ledger[n].item].version
  /\ \A m, n \in DOMAIN ledger :
       m < n /\ ledger[m].item = ledger[n].item => ledger[m].version < ledger[n].version
  /\ \A i \in DOMAIN rows : \E n \in DOMAIN ledger :
       /\ ledger[n].item = i /\ ledger[n].version = rows[i].version
       /\ ledger[n].status = rows[i].status

\* What the receipt of a handoff, and of a transition, says of the ledger.
HandoffTold(k, r) ==
  \E i \in Items :
    /\ k = <<"handoff", i>> /\ r.proposal.content = [item |-> i]
    /\ r.outcome \in {"COMMITTED", "VALIDATION_ERROR"}
    /\ r.outcome = "COMMITTED" => i \in DOMAIN rows
    /\ r.outcome = "VALIDATION_ERROR" =>
         \E j \in Related[i] : \A n \in 1 .. r.proposal.root : ledger[n].item # j
MovedTo(author, doc, status) ==
  \E n \in DOMAIN ledger :
    /\ ledger[n].item = doc.item /\ ledger[n].version = doc.version + 1
    /\ ledger[n].was = doc.status /\ ledger[n].status = status /\ ledger[n].author = author
ProgressTold(k, r) ==
  \E author \in {Author[c] : c \in Callers}, doc \in ItemDocs, status \in Wanted :
    /\ k = <<"progress", author, doc.item, status, doc.version>> /\ r.proposal.content = doc
    /\ doc.item \in DOMAIN rows
    /\ r.outcome \in {"COMMITTED", "TRANSACTION_CONFLICT"}
    /\ r.outcome = "COMMITTED" => MovedTo(author, doc, status)
    /\ r.outcome = "TRANSACTION_CONFLICT" => doc.version < rows[doc.item].version

ReceiptsInv ==
  /\ itemCalls \in Nat
  /\ \A k \in DOMAIN itemReceipts :
       /\ itemReceipts[k].call \in Nat /\ itemReceipts[k].call <= itemCalls
       /\ itemReceipts[k].proposal.root \in Nat /\ itemReceipts[k].proposal.root <= Len(ledger)
       /\ HandoffTold(k, itemReceipts[k]) \/ ProgressTold(k, itemReceipts[k])
  /\ \A i \in DOMAIN rows \ Outside : <<"handoff", i>> \in DOMAIN itemReceipts

\* What a call x, at l, was asked and has read ...
Shaped(l, x) ==
  /\ l \in {"page", "read", "commit"}
  /\ Fields \subseteq DOMAIN x
  /\ x.request \in Requests /\ x.kind = x.request.kind
  /\ x.number \in Nat /\ x.number <= itemCalls
  /\ x.began \in Nat /\ x.began <= Len(ledger)
  /\ x.attempt \in {0, 1} /\ (x.attempt = 1 => x.kind = "progress")
  /\ x.docs \in Seq(ItemDocs)
  /\ x.offset \in Nat /\ x.offset <= Cardinality(DOMAIN rows)
Honest(x) == \A n \in DOMAIN x.docs : ReadAt(x.docs[n], x.began)
\* ... which is everything that was there, but for what is on later pages; ...
Scanned(l, x) ==
  \A n \in 1 .. x.began :
    \/ \E m \in DOMAIN x.docs : x.docs[m].item = ledger[n].item
    \/ l = "page" /\ x.offset < Rank(ledger[n].item)
\* ... what it has built of it, ...
Built(c, l, x) ==
  l = "commit" =>
    /\ {"key", "proposal"} \subseteq DOMAIN x
    /\ x.proposal.root \in Nat /\ x.began <= x.proposal.root /\ x.proposal.root <= Len(ledger)
    /\ x.kind = "handoff" =>
         x.key = <<"handoff", x.request.item>> /\ x.proposal.content = [item |-> x.request.item]
    /\ x.kind = "progress" =>
         LET doc == x.proposal.content
         IN /\ doc \in ItemDocs /\ doc.item = x.request.item /\ ReadAt(doc, x.began)
            /\ x.key = <<"progress", Author[c], doc.item, x.request.status, doc.version>>
    /\ x.kind # "list"
\* ... and that it reads again only after an entry b that moved its item, and
\* uses a new key then.
Rebased(c, l, x, b) ==
  /\ b \in DOMAIN ledger /\ x.began < b /\ ledger[b].item = x.request.item
  /\ \A n \in DOMAIN x.docs : x.docs[n].item = x.request.item => ReadAt(x.docs[n], b)
  /\ l = "commit" => ReadAt(x.proposal.content, b)
  /\ \A k \in DOMAIN itemReceipts : itemReceipts[k].call = x.number =>
       \E v \in Nat : /\ k = <<"progress", Author[c], x.request.item, x.request.status, v>>
                      /\ v < ledger[b].version
Attempted(c, l, x) ==
  IF x.attempt = 0 THEN \A k \in DOMAIN itemReceipts : itemReceipts[k].call # x.number
  ELSE \E b \in DOMAIN ledger : Rebased(c, l, x, b)

Knows(c, l, x) ==
  Shaped(l, x) /\ Honest(x) /\ Scanned(l, x) /\ Built(c, l, x) /\ Attempted(c, l, x)

HelpersCallsInv ==
  /\ pc \in [Callers -> {"idle", "page", "read", "commit"}]
  /\ DOMAIN call = Callers
  /\ \A c \in Callers : pc[c] # "idle" => Knows(c, pc[c], call[c])
  /\ \A c, d \in Callers :
       c # d /\ pc[c] # "idle" /\ pc[d] # "idle" => call[c].number # call[d].number

HelpersInv == ItemRowsInv /\ ReceiptsInv /\ HelpersCallsInv

Told == ToldIsRecorded /\ OnlyContendedRefused /\ ListIsWhole

-----------------------------------------------------------------------------
(* The order of the items.                                                 *)

\* The sets of items are finite.
LEMMA SomeFinite ==
  ASSUME WorkItemsAssumption, NEW S \in SUBSET Items
  PROVE /\ IsFiniteSet(S) /\ Cardinality(S) \in Nat
        /\ IsFiniteSet(1 .. Cardinality(S)) /\ Cardinality(1 .. Cardinality(S)) = Cardinality(S)
<1>1. IsFiniteSet(Items)
  BY FS_Interval DEF WorkItemsAssumption, Items
<1>2. IsFiniteSet(S) /\ Cardinality(S) \in Nat
  BY <1>1, FS_Subset, FS_CardinalityType
<1>3. QED BY <1>2, FS_Interval

\* The rank of an item is its place in the order, and no other item has it.
LEMMA PlaceInOrder ==
  ASSUME WorkItemsAssumption, NEW S \in SUBSET Items
  PROVE /\ Cardinality(S) \in Nat
        /\ \A i \in S : Cardinality({k \in S : k <= i}) \in 1 .. Cardinality(S)
        /\ \A i, j \in S : Cardinality({k \in S : k <= i}) = Cardinality({k \in S : k <= j}) => i = j
<1> DEFINE Upto(i) == {k \in S : k <= i}
<1>1. \A i : Upto(i) \in SUBSET S /\ IsFiniteSet(Upto(i)) /\ Cardinality(Upto(i)) \in Nat
  <2> TAKE i
  <2>1. Upto(i) \in SUBSET S /\ Upto(i) \in SUBSET Items
    OBVIOUS
  <2> HIDE DEF Upto
  <2>2. QED BY <2>1, SomeFinite
<1>2. IsFiniteSet(S) /\ Cardinality(S) \in Nat
  BY SomeFinite
<1>3. \A i \in S : i \in Nat
  BY DEF Items, WorkItemsAssumption
<1>4. ASSUME NEW i \in S PROVE Cardinality(Upto(i)) \in 1 .. Cardinality(S)
  <2>1. i \in Upto(i)
    BY <1>3
  <2> HIDE DEF Upto
  <2>2. Cardinality(Upto(i)) <= Cardinality(S)
    BY <1>1, <1>2, FS_Subset
  <2>3. Cardinality(Upto(i)) # 0
    BY <1>1, <2>1, FS_EmptySet
  <2>4. QED BY <1>1, <1>2, <2>2, <2>3
<1>5. ASSUME NEW i \in S, NEW j \in S, i < j
      PROVE Cardinality(Upto(i)) # Cardinality(Upto(j))
  <2>1. Upto(i) \in SUBSET Upto(j) /\ j \in Upto(j) /\ j \notin Upto(i)
    BY <1>3, <1>5
  <2> HIDE DEF Upto
  <2>2. QED BY <1>1, <2>1, FS_Subset
<1>6. \A i, j \in S : i = j \/ i < j \/ j < i
  BY <1>3
<1>7. /\ \A i \in S : Cardinality(Upto(i)) \in 1 .. Cardinality(S)
      /\ \A i, j \in S : Cardinality(Upto(i)) = Cardinality(Upto(j)) => i = j
  <2> HIDE DEF Upto
  <2> QED BY <1>4, <1>5, <1>6
<1>8. QED BY <1>2, <1>7

\* The rank of an item is its place among those there are.
LEMMA RankIsPlace ==
  ASSUME WorkItemsAssumption, DOMAIN rows \subseteq Items
  PROVE /\ Cardinality(DOMAIN rows) \in Nat
        /\ \A i \in DOMAIN rows : Rank(i) \in 1 .. Cardinality(DOMAIN rows)
        /\ \A i, j \in DOMAIN rows : Rank(i) = Rank(j) => i = j
<1>1. PICK S \in SUBSET Items : S = DOMAIN rows
  OBVIOUS
<1>2. /\ Cardinality(DOMAIN rows) = Cardinality(S)
      /\ \A i : Rank(i) = Cardinality({k \in S : k <= i})
  BY <1>1 DEF Rank
<1>3. /\ Cardinality(S) \in Nat
      /\ \A i \in S : Cardinality({k \in S : k <= i}) \in 1 .. Cardinality(S)
      /\ \A i, j \in S :
           Cardinality({k \in S : k <= i}) = Cardinality({k \in S : k <= j}) => i = j
  BY PlaceInOrder
<1>4. QED BY <1>1, <1>2, <1>3

\* The same of the items a step leaves.
LEMMA LaterRank ==
  ASSUME WorkItemsAssumption, DOMAIN rows' \subseteq Items
  PROVE /\ Cardinality(DOMAIN rows)' \in Nat
        /\ \A i \in DOMAIN rows' : Rank(i)' \in Nat /\ 0 < Rank(i)'
<1>1. PICK S \in SUBSET Items : S = DOMAIN rows'
  OBVIOUS
<1>2. /\ Cardinality(DOMAIN rows)' = Cardinality(S)
      /\ \A i : Rank(i)' = Cardinality({k \in S : k <= i})
  BY <1>1 DEF Rank
<1>3. /\ Cardinality(S) \in Nat
      /\ \A i \in S : Cardinality({k \in S : k <= i}) \in 1 .. Cardinality(S)
  BY PlaceInOrder
<1>4. \A i \in S : Rank(i)' \in 1 .. Cardinality(S)
  BY <1>2, <1>3
<1>5. \A r \in 1 .. Cardinality(S) : r \in Nat /\ 0 < r
  BY <1>3
<1>6. \A i \in S : Rank(i)' \in Nat /\ 0 < Rank(i)'
  BY <1>4, <1>5
<1>7. QED BY <1>1, <1>2, <1>3, <1>6

\* A query lists every item once, at its rank.
LEMMA OrderIsWhole ==
  ASSUME WorkItemsAssumption, DOMAIN rows \subseteq Items
  PROVE /\ Len(Ordered) = Cardinality(DOMAIN rows)
        /\ \A n \in 1 .. Cardinality(DOMAIN rows) : Ordered[n] \in DOMAIN rows
        /\ \A i \in DOMAIN rows : Ordered[Rank(i)] = i
<1> DEFINE S == DOMAIN rows
           N == Cardinality(S)
           f == [i \in S |-> Rank(i)]
<1>1. /\ N \in Nat
      /\ \A i \in S : Rank(i) \in 1 .. N
      /\ \A i, j \in S : Rank(i) = Rank(j) => i = j
  BY RankIsPlace
<1>2. /\ IsFiniteSet(1 .. N) /\ Cardinality(1 .. N) = N
  BY SomeFinite
<1>3. f \in Injection(S, 1 .. N)
  <2>1. f \in [S -> 1 .. N] /\ \A a, b \in DOMAIN f : f[a] = f[b] => a = b
    BY <1>1
  <2> HIDE DEF f, N, S
  <2>2. QED BY <2>1 DEF Injection, IsInjective
<1>4. f \in Surjection(S, 1 .. N)
  <2> HIDE DEF f
  <2> QED BY <1>2, <1>3, FS_Injection
<1>5. \A n \in 1 .. N : \E i \in S : Rank(i) = n
  BY <1>4 DEF Surjection
<1>6. \A n \in 1 .. N : Ordered[n] = CHOOSE i \in S : Rank(i) = n
  BY DEF Ordered
<1>7. \A n \in 1 .. N : Ordered[n] \in S /\ Rank(Ordered[n]) = n
  BY <1>5, <1>6
<1>8. Len(Ordered) = N
  <2>1. DOMAIN Ordered = 1 .. N
    BY DEF Ordered
  <2>2. Ordered \in Seq(S)
    <3>1. Ordered = [n \in 1 .. N |-> Ordered[n]]
      BY DEF Ordered
    <3> HIDE DEF S, N
    <3>2. QED BY <1>1, <1>7, <3>1
  <2> HIDE DEF S, N
  <2>3. QED BY <1>1, <2>1, <2>2
<1>9. QED BY <1>1, <1>7, <1>8

\* An item only moves back as items come.
LEMMA RankGrows ==
  ASSUME WorkItemsAssumption, DOMAIN rows' \subseteq Items, DOMAIN rows \subseteq DOMAIN rows'
  PROVE /\ Cardinality(DOMAIN rows) \in Nat /\ Cardinality(DOMAIN rows)' \in Nat
        /\ Cardinality(DOMAIN rows) <= Cardinality(DOMAIN rows)'
        /\ \A i : Rank(i) \in Nat /\ Rank(i)' \in Nat /\ Rank(i) <= Rank(i)'
<1> DEFINE Upto(i) == {j \in DOMAIN rows : j <= i}
           Later(i) == {j \in DOMAIN rows' : j <= i}
<1>1. /\ IsFiniteSet(DOMAIN rows) /\ Cardinality(DOMAIN rows) \in Nat
      /\ IsFiniteSet(DOMAIN rows') /\ Cardinality(DOMAIN rows') \in Nat
  BY SomeFinite
<1>2. \A i : /\ IsFiniteSet(Upto(i)) /\ Cardinality(Upto(i)) \in Nat
             /\ IsFiniteSet(Later(i)) /\ Cardinality(Later(i)) \in Nat
             /\ Upto(i) \in SUBSET Later(i)
  <2> TAKE i
  <2>1. Upto(i) \in SUBSET Items /\ Later(i) \in SUBSET Items /\ Upto(i) \in SUBSET Later(i)
    OBVIOUS
  <2> HIDE DEF Upto, Later
  <2>2. QED BY <2>1, SomeFinite
<1>3. \A i : Rank(i) = Cardinality(Upto(i)) /\ Rank(i)' = Cardinality(Later(i))
  BY DEF Rank
<1>4. \A i : Cardinality(Upto(i)) <= Cardinality(Later(i))
  <2> HIDE DEF Upto, Later
  <2> QED BY <1>2, FS_Subset
<1>5. QED
  <2> HIDE DEF Upto, Later
  <2> QED BY <1>1, <1>2, <1>3, <1>4, FS_Subset

\* A finite set as a sequence: each element once.
LEMMA SequenceOfSet ==
  ASSUME NEW S, IsFiniteSet(S)
  PROVE /\ SetToSeq(S) \in [1 .. Cardinality(S) -> S] /\ Cardinality(S) \in Nat
        /\ \A m, n \in 1 .. Cardinality(S) : SetToSeq(S)[m] = SetToSeq(S)[n] => m = n
        /\ \A x \in S : \E n \in 1 .. Cardinality(S) : SetToSeq(S)[n] = x
<1> DEFINE N == Cardinality(S)
           f == SetToSeq(S)
<1>1. N \in Nat /\ ExistsBijection(1 .. N, S)
  BY FS_CardinalityType
<1>2. \E g \in [1 .. N -> S] : IsInjective(g)
  BY <1>1 DEF ExistsBijection, Bijection, Injection
<1>3. f \in [1 .. N -> S] /\ IsInjective(f)
  BY <1>2 DEF SetToSeq
<1> HIDE DEF f
<1>4. f \in Injection(1 .. N, S)
  BY <1>3 DEF Injection
<1>5. /\ IsFiniteSet(1 .. N) /\ Cardinality(1 .. N) = N
  BY <1>1, FS_Interval
<1>6. f \in Surjection(1 .. N, S)
  BY <1>1, <1>4, <1>5, FS_Injection
<1>7. QED
  <2>1. \A x \in S : \E n \in 1 .. N : f[n] = x
    BY <1>6 DEF Surjection
  <2>2. \A m, n \in 1 .. N : f[m] = f[n] => m = n
    BY <1>3 DEF IsInjective
  <2>3. QED BY <1>1, <1>3, <2>1, <2>2 DEF f

-----------------------------------------------------------------------------
(* The beginning.                                                          *)

\* What other programs have created before the first call.
LEMMA HelpersStart == ASSUME WorkItemsAssumption, HelpersInit PROVE HelpersInv
<1>1. PICK there \in SUBSET Outside :
        /\ rows = [i \in there |-> [status |-> "TODO", version |-> 1]]
        /\ ledger = SetToSeq({Entry(i, 1, "NONE", "TODO", Other, 0) : i \in there})
  BY DEF HelpersInit
<1> DEFINE E(i) == Entry(i, 1, "NONE", "TODO", Other, 0)
           S == {E(i) : i \in there}
           g == [i \in there |-> E(i)]
           N == Cardinality(S)
<1>2. there \subseteq Items
  BY DEF WorkItemsAssumption
<1>3. \A i : /\ E(i).item = i /\ E(i).version = 1 /\ E(i).status = "TODO"
  BY DEF Entry
<1>4. \A i \in Items : E(i) \in ItemEntries
  BY DEF Entry, ItemEntries, ItemStatuses
<1>5. IsFiniteSet(S)
  <2>1. IsFiniteSet(there)
    BY <1>2, SomeFinite
  <2>2. g \in Surjection(there, S)
    BY DEF Surjection
  <2> HIDE DEF S, g
  <2>3. QED BY <2>1, <2>2, FS_Surjection
<1>6. /\ ledger \in [1 .. N -> S] /\ N \in Nat
      /\ \A m, n \in 1 .. N : ledger[m] = ledger[n] => m = n
      /\ \A x \in S : \E n \in 1 .. N : ledger[n] = x
  <2> HIDE DEF E
  <2>1. ledger = SetToSeq(S)
    BY <1>1 DEF E
  <2> HIDE DEF S
  <2>2. QED BY <1>5, <2>1, SequenceOfSet
<1>7. S \subseteq ItemEntries /\ \A e \in S : e.item \in there /\ e = E(e.item)
  BY <1>2, <1>3, <1>4
<1>8. \A i \in there : E(i) \in S
  OBVIOUS
<1>9. /\ DOMAIN rows = there
      /\ \A i \in there : rows[i].status = "TODO" /\ rows[i].version = 1 /\ rows[i] \in ItemRows
  BY <1>1 DEF ItemRows, ItemStatuses
<1> HIDE DEF S, N, E
<1>10. DOMAIN ledger = 1 .. N /\ ledger \in Seq(ItemEntries)
  BY <1>6, <1>7
<1>11. ItemRowsInv
  <2>1. rows \in [DOMAIN rows -> ItemRows]
    BY <1>1, <1>9
  <2>2. \A n \in DOMAIN ledger : ledger[n] \in S
    BY <1>6, <1>10
  <2>3. \A n \in DOMAIN ledger :
          /\ ledger[n].item \in there /\ ledger[n].version = 1 /\ ledger[n] = E(ledger[n].item)
    BY <1>3, <1>7, <2>2
  <2>4. \A m, n \in DOMAIN ledger :
       m < n /\ ledger[m].item = ledger[n].item => ledger[m].version < ledger[n].version
    <3> SUFFICES ASSUME NEW m \in DOMAIN ledger, NEW n \in DOMAIN ledger, m < n,
                        ledger[m].item = ledger[n].item
                 PROVE FALSE
      OBVIOUS
    <3>1. ledger[m] = ledger[n]
      BY <2>3
    <3>2. m = n
      BY <1>6, <1>10, <3>1
    <3>3. QED BY <1>6, <1>10, <3>2
  <2>5. ASSUME NEW i \in there
        PROVE \E n \in DOMAIN ledger :
           /\ ledger[n].item = i /\ ledger[n].version = rows[i].version
           /\ ledger[n].status = rows[i].status
    <3>1. PICK n \in 1 .. N : ledger[n] = E(i)
      BY <1>6, <1>8
    <3>2. QED BY <1>3, <1>9, <1>10, <3>1
  <2>6. \A n \in DOMAIN ledger : ledger[n].version <= rows[ledger[n].item].version
    BY <1>9, <2>3
  <2>7. QED BY <1>2, <1>9, <1>10, <2>1, <2>3, <2>4, <2>5, <2>6 DEF ItemRowsInv
<1>12. ReceiptsInv
  BY <1>9 DEF HelpersInit, ReceiptsInv
<1>13. HelpersCallsInv
  BY DEF HelpersInit, HelpersCallsInv
<1>14. QED BY <1>11, <1>12, <1>13 DEF HelpersInv

-----------------------------------------------------------------------------
(* What is known stays true as the workspace grows.                        *)

Extends ==
  /\ Len(ledger) \in Nat /\ Len(ledger') \in Nat /\ Len(ledger) <= Len(ledger')
  /\ DOMAIN ledger = 1 .. Len(ledger) /\ DOMAIN ledger' = 1 .. Len(ledger')
  /\ \A n \in DOMAIN ledger : ledger'[n] = ledger[n]
  /\ DOMAIN rows \subseteq DOMAIN rows'
  /\ \A i \in DOMAIN rows :
       rows[i].version \in Nat /\ rows'[i].version \in Nat /\ rows[i].version <= rows'[i].version
  /\ itemCalls \in Nat /\ itemCalls' \in Nat /\ itemCalls <= itemCalls'

\* A step that leaves rows and ledger alone.
LEMMA SameExtends ==
  ASSUME ItemRowsInv, UNCHANGED <<rows, ledger>>, itemCalls \in Nat, itemCalls' \in Nat, itemCalls <= itemCalls'
  PROVE Extends /\ ItemRowsInv'
<1>1. ItemRowsInv'
  BY DEF ItemRowsInv, Matches
<1>2. ledger \in Seq(ItemEntries) /\ rows \in [DOMAIN rows -> ItemRows]
  BY DEF ItemRowsInv
<1>3. Len(ledger) \in Nat /\ DOMAIN ledger = 1 .. Len(ledger)
  BY <1>2
<1>4. \A i \in DOMAIN rows : rows[i].version \in Nat
  BY <1>2 DEF ItemRows
<1>5. QED BY <1>1, <1>3, <1>4 DEF Extends

\* A new entry: the item is there from then on, one version later.
LEMMA EnterExtends ==
  ASSUME ItemRowsInv, NEW i \in Items, NEW status \in ItemStatuses,
         NEW author \in {Other} \cup {Author[c] : c \in Callers}, NEW number \in Nat,
         Enter(i, status, author, number), itemCalls \in Nat, itemCalls' = itemCalls
  PROVE /\ ItemRowsInv' /\ Extends
        /\ DOMAIN rows' = DOMAIN rows \cup {i}
        /\ LET n == Len(ledger) + 1
           IN /\ n \in DOMAIN ledger' /\ ledger'[n].item = i
              /\ ledger'[n].status = status /\ ledger'[n].author = author
              /\ i \in DOMAIN rows =>
                   /\ ledger'[n].version = rows[i].version + 1
                   /\ ledger'[n].was = rows[i].status
<1> DEFINE was == IF i \in DOMAIN rows THEN rows[i] ELSE [status |-> "NONE", version |-> 0]
           e == Entry(i, was.version + 1, was.status, status, author, number)
           n == Len(ledger) + 1
           row == [status |-> status, version |-> was.version + 1]
<1>1. ledger \in Seq(ItemEntries) /\ rows \in [DOMAIN rows -> ItemRows] /\ DOMAIN rows \subseteq Items
  BY DEF ItemRowsInv
<1>2. was.version \in Nat /\ was.status \in ItemStatuses \cup {"NONE"}
  BY <1>1 DEF ItemRows
<1>3. /\ e.item = i /\ e.version = was.version + 1 /\ e.was = was.status
      /\ e.status = status /\ e.author = author /\ e \in ItemEntries
  BY <1>2 DEF Entry, ItemEntries
<1>4. ledger' = Append(ledger, e) /\ rows' = Put(rows, i, row)
  BY DEF Enter
<1>5. /\ Len(ledger) \in Nat /\ DOMAIN ledger = 1 .. Len(ledger)
      /\ ledger' \in Seq(ItemEntries) /\ Len(ledger') = n /\ DOMAIN ledger' = 1 .. n
      /\ \A m \in DOMAIN ledger : ledger'[m] = ledger[m]
      /\ ledger'[n] = e
  BY <1>1, <1>3, <1>4
<1>6. /\ DOMAIN rows' = DOMAIN rows \cup {i} /\ rows'[i] = row
      /\ \A j \in DOMAIN rows : j # i => rows'[j] = rows[j]
      /\ rows' = [j \in DOMAIN rows' |-> rows'[j]]
  BY <1>4 DEF Put
<1>7. row \in ItemRows /\ row.status = status /\ row.version = was.version + 1
  BY <1>2 DEF ItemRows
<1>8. \A j \in DOMAIN rows : rows[j].version \in Nat /\ rows[j] \in ItemRows
  BY <1>1 DEF ItemRows
<1>9. i \in DOMAIN rows => was = rows[i]
  OBVIOUS
<1>10. \A m \in DOMAIN ledger :
         /\ ledger[m].item \in DOMAIN rows
         /\ ledger[m].version <= rows[ledger[m].item].version
  BY DEF ItemRowsInv
<1>11. \A m \in DOMAIN ledger : ledger[m].version \in Nat
  <2>1. \A m \in DOMAIN ledger : ledger[m] \in ItemEntries
    BY <1>1
  <2>2. \A x \in ItemEntries : x.version \in Nat
    BY DEF ItemEntries
  <2>3. QED BY <2>1, <2>2
<1>12. \A j, k \in DOMAIN ledger :
         j < k /\ ledger[j].item = ledger[k].item => ledger[j].version < ledger[k].version
  BY DEF ItemRowsInv
<1>13. \A j \in DOMAIN rows : \E k \in DOMAIN ledger :
         /\ ledger[k].item = j /\ ledger[k].version = rows[j].version
         /\ ledger[k].status = rows[j].status
  BY DEF ItemRowsInv
<1> HIDE DEF was, e, row
<1>14. \A k \in DOMAIN ledger' : k \in DOMAIN ledger \/ (k = n /\ ledger'[k] = e)
  BY <1>5
<1>15. Extends
  BY <1>2, <1>5, <1>6, <1>7, <1>8, <1>9 DEF Extends
<1>16. ItemRowsInv'
  <2>1. DOMAIN rows' \subseteq Items /\ rows' \in [DOMAIN rows' -> ItemRows]
    BY <1>1, <1>6, <1>7, <1>8
  <2>2. ASSUME NEW k \in DOMAIN ledger'
        PROVE /\ ledger'[k].item \in DOMAIN rows'
              /\ ledger'[k].version <= rows'[ledger'[k].item].version
    <3>1. CASE k \in DOMAIN ledger
      <4>1. /\ ledger'[k] = ledger[k] /\ ledger[k].item \in DOMAIN rows
            /\ ledger[k].version <= rows[ledger[k].item].version
            /\ ledger[k].version \in Nat
        BY <1>5, <1>10, <1>11, <3>1
      <4>2. CASE ledger[k].item = i
        BY <1>2, <1>6, <1>7, <1>9, <4>1, <4>2
      <4>3. CASE ledger[k].item # i
        BY <1>6, <4>1, <4>3
      <4>4. QED BY <4>2, <4>3
    <3>2. CASE k = n /\ ledger'[k] = e
      BY <1>2, <1>3, <1>6, <1>7, <3>2
    <3>3. QED BY <1>14, <3>1, <3>2
  <2>3. ASSUME NEW j \in DOMAIN ledger', NEW k \in DOMAIN ledger', j < k,
               ledger'[j].item = ledger'[k].item
        PROVE ledger'[j].version < ledger'[k].version
    <3>1. j \in DOMAIN ledger
      BY <1>5, <2>3
    <3>2. CASE k \in DOMAIN ledger
      BY <1>5, <1>12, <2>3, <3>1, <3>2
    <3>3. CASE k = n /\ ledger'[k] = e
      <4>1. ledger'[j] = ledger[j] /\ ledger[j].item = i
        BY <1>3, <1>5, <2>3, <3>1, <3>3
      <4>2. i \in DOMAIN rows /\ ledger[j].version <= rows[i].version
        BY <1>10, <3>1, <4>1
      <4>3. was = rows[i] /\ rows[i].version \in Nat /\ ledger[j].version \in Nat
        BY <1>8, <1>9, <1>11, <3>1, <4>2
      <4>4. ledger'[k].version = rows[i].version + 1
        BY <1>3, <3>3, <4>3
      <4>5. QED BY <4>1, <4>2, <4>3, <4>4
    <3>4. QED BY <1>14, <3>2, <3>3
  <2>4. ASSUME NEW j \in DOMAIN rows'
        PROVE \E k \in DOMAIN ledger' :
           /\ ledger'[k].item = j /\ ledger'[k].version = rows'[j].version
           /\ ledger'[k].status = rows'[j].status
    <3>1. CASE j = i
      BY <1>3, <1>5, <1>6, <1>7, <3>1
    <3>2. CASE j # i
      <4>1. j \in DOMAIN rows /\ rows'[j] = rows[j]
        BY <1>6, <3>2
      <4>2. PICK k \in DOMAIN ledger :
              /\ ledger[k].item = j /\ ledger[k].version = rows[j].version
              /\ ledger[k].status = rows[j].status
        BY <1>13, <4>1
      <4>3. k \in DOMAIN ledger' /\ ledger'[k] = ledger[k]
        BY <1>5, <4>2
      <4>4. QED BY <4>1, <4>2, <4>3
    <3>3. QED BY <3>1, <3>2
  <2>5. QED BY <1>5, <2>1, <2>2, <2>3, <2>4 DEF ItemRowsInv
<1>17. i \in DOMAIN rows => e.version = rows[i].version + 1 /\ e.was = rows[i].status
  BY <1>3, <1>9
<1>18. n \in DOMAIN ledger'
  BY <1>5
<1>19. QED BY <1>3, <1>5, <1>6, <1>15, <1>16, <1>17, <1>18

\* What was read stays something the ledger has said.
LEMMA ReadStays ==
  ASSUME Extends, NEW doc, NEW b \in Nat, b <= Len(ledger), ReadAt(doc, b)
  PROVE ReadAt(doc, b)'
<1>1. PICK n \in DOMAIN ledger :
        /\ Matches(ledger[n], doc)
        /\ \A m \in n + 1 .. b : ledger[m].item # doc.item
  BY DEF ReadAt
<1>2. /\ n \in DOMAIN ledger' /\ ledger'[n] = ledger[n]
      /\ \A m \in n + 1 .. b : m \in DOMAIN ledger /\ ledger'[m] = ledger[m]
  BY <1>1 DEF Extends
<1>3. Matches(ledger[n], doc)'
  BY <1>1, <1>2 DEF Matches
<1>4. \A m \in n + 1 .. b : ledger'[m].item # doc.item
  BY <1>1, <1>2
<1>5. QED BY <1>2, <1>3, <1>4 DEF ReadAt

\* What a receipt says stays true.
LEMMA ReceiptStays ==
  ASSUME Extends, NEW k, NEW r, r.proposal.root \in Nat, r.proposal.root <= Len(ledger)
  PROVE /\ HandoffTold(k, r) => HandoffTold(k, r)'
        /\ ProgressTold(k, r) => ProgressTold(k, r)'
<1>1. /\ \A n \in DOMAIN ledger : n \in DOMAIN ledger' /\ ledger'[n] = ledger[n]
      /\ \A n \in 1 .. r.proposal.root : n \in DOMAIN ledger
      /\ DOMAIN rows \subseteq DOMAIN rows'
  BY DEF Extends
<1>2. ASSUME HandoffTold(k, r) PROVE HandoffTold(k, r)'
  BY <1>1, <1>2 DEF HandoffTold
<1>3. ASSUME NEW a, NEW doc, NEW s, MovedTo(a, doc, s) PROVE MovedTo(a, doc, s)'
  BY <1>1, <1>3 DEF MovedTo
<1>4. ASSUME ProgressTold(k, r) PROVE ProgressTold(k, r)'
  <2>1. PICK author \in {Author[c] : c \in Callers}, doc \in ItemDocs, status \in Wanted :
    /\ k = <<"progress", author, doc.item, status, doc.version>> /\ r.proposal.content = doc
    /\ doc.item \in DOMAIN rows
    /\ r.outcome \in {"COMMITTED", "TRANSACTION_CONFLICT"}
    /\ r.outcome = "COMMITTED" => MovedTo(author, doc, status)
    /\ r.outcome = "TRANSACTION_CONFLICT" => doc.version < rows[doc.item].version
    BY <1>4 DEF ProgressTold
  <2>2. doc.version \in Nat
    BY DEF ItemDocs
  <2>3. /\ rows[doc.item].version \in Nat /\ rows'[doc.item].version \in Nat
        /\ rows[doc.item].version <= rows'[doc.item].version
    BY <2>1 DEF Extends
  <2>4. r.outcome = "TRANSACTION_CONFLICT" => doc.version < rows'[doc.item].version
    BY <2>1, <2>2, <2>3
  <2>5. r.outcome = "COMMITTED" => MovedTo(author, doc, status)'
    BY <1>3, <2>1
  <2>6. QED BY <1>1, <2>1, <2>4, <2>5 DEF ProgressTold
<1>5. QED BY <1>2, <1>4

\* What a call has read and built stays true while the workspace grows.
LEMMA ReadingStays ==
  ASSUME WorkItemsAssumption, ItemRowsInv, ItemRowsInv', Extends, NEW c, NEW l, NEW x,
         Shaped(l, x), Honest(x), Scanned(l, x), Built(c, l, x)
  PROVE Shaped(l, x)' /\ Honest(x)' /\ Scanned(l, x)' /\ Built(c, l, x)'
<1>1. DOMAIN rows \subseteq Items /\ DOMAIN rows' \subseteq Items
  BY DEF ItemRowsInv
<1>2. /\ Cardinality(DOMAIN rows) \in Nat /\ Cardinality(DOMAIN rows)' \in Nat
      /\ Cardinality(DOMAIN rows) <= Cardinality(DOMAIN rows)'
      /\ \A i : Rank(i) \in Nat /\ Rank(i)' \in Nat /\ Rank(i) <= Rank(i)'
  BY <1>1, RankGrows DEF Extends
<1>3. /\ DOMAIN ledger \subseteq DOMAIN ledger' /\ \A n \in DOMAIN ledger : ledger'[n] = ledger[n]
      /\ Len(ledger) \in Nat /\ Len(ledger') \in Nat /\ Len(ledger) <= Len(ledger')
      /\ DOMAIN ledger = 1 .. Len(ledger)
  BY DEF Extends
<1>4. /\ x.began \in Nat /\ x.began <= Len(ledger) /\ x.offset \in Nat
      /\ x.attempt \in {0, 1} /\ x.docs \in Seq(ItemDocs) /\ x.offset <= Cardinality(DOMAIN rows)
  BY DEF Shaped
<1>5. Shaped(l, x)'
  <2>1. itemCalls \in Nat /\ itemCalls' \in Nat /\ itemCalls <= itemCalls' /\ x.number \in Nat /\ x.number <= itemCalls
    BY DEF Extends, Knows, Shaped
  <2>2. x.number <= itemCalls'
    BY <2>1
  <2>3. x.began <= Len(ledger') /\ x.offset <= Cardinality(DOMAIN rows)'
    BY <1>2, <1>3, <1>4
  <2>4. QED BY <2>2, <2>3 DEF Shaped
<1>6. Honest(x)'
  <2>1. ASSUME NEW n \in DOMAIN x.docs PROVE ReadAt(x.docs[n], x.began)'
    <3>1. ReadAt(x.docs[n], x.began)
      BY DEF Honest
    <3>2. PICK doc : doc = x.docs[n]
      OBVIOUS
    <3>3. PICK b : b = x.began
      OBVIOUS
    <3>4. ReadAt(doc, b)'
      BY <1>4, <3>1, <3>2, <3>3, ReadStays
    <3>5. QED BY <3>2, <3>3, <3>4
  <2>2. QED BY <2>1 DEF Honest
<1>7. Scanned(l, x)'
  <2>1. ASSUME NEW n \in 1 .. x.began
        PROVE \/ \E m \in DOMAIN x.docs : x.docs[m].item = ledger'[n].item
              \/ l = "page" /\ x.offset < Rank(ledger[n].item)'
    <3>1. n \in DOMAIN ledger /\ ledger'[n] = ledger[n]
      BY <1>3, <1>4
    <3>2. PICK i : i = ledger[n].item
      OBVIOUS
    <3>3. \/ \E m \in DOMAIN x.docs : x.docs[m].item = i
          \/ l = "page" /\ x.offset < Rank(i)
      BY <3>2 DEF Scanned
    <3>4. l = "page" /\ x.offset < Rank(i) => x.offset < Rank(i)'
      BY <1>2, <1>4
    <3>5. Rank(ledger[n].item)' = Rank(i)'
      BY <3>1, <3>2 DEF Rank
    <3>6. QED BY <3>1, <3>2, <3>3, <3>4, <3>5
  <2>2. QED BY <2>1 DEF Scanned
<1>8. Built(c, l, x)'
  <2> SUFFICES ASSUME l = "commit" PROVE Built(c, l, x)'
    BY DEF Built
  <2>1. x.proposal.root \in Nat /\ x.proposal.root <= Len(ledger)
    BY DEF Built
  <2>2. x.proposal.root <= Len(ledger')
    BY <1>3, <2>1
  <2>3. x.kind = "progress" => ReadAt(x.proposal.content, x.began)'
    <3> SUFFICES ASSUME x.kind = "progress" PROVE ReadAt(x.proposal.content, x.began)'
      OBVIOUS
    <3>1. PICK doc : doc = x.proposal.content
      OBVIOUS
    <3>2. PICK b : b = x.began
      OBVIOUS
    <3>3. ReadAt(doc, b)
      BY <3>1, <3>2 DEF Built
    <3>4. ReadAt(doc, b)'
      BY <1>4, <3>2, <3>3, ReadStays
    <3>5. QED BY <3>1, <3>2, <3>4
  <2>4. QED BY <2>2, <2>3 DEF Built
<1>9. QED BY <1>5, <1>6, <1>7, <1>8

\* What a call knows stays true while others act: they give no receipt to it.
LEMMA KnowsStays ==
  ASSUME WorkItemsAssumption, ItemRowsInv, ItemRowsInv', Extends,
         NEW c, NEW l, NEW x, Knows(c, l, x),
         \A k \in DOMAIN itemReceipts' :
           itemReceipts'[k].call = x.number => k \in DOMAIN itemReceipts /\ itemReceipts[k].call = x.number
  PROVE Knows(c, l, x)'
<1>1. Shaped(l, x)' /\ Honest(x)' /\ Scanned(l, x)' /\ Built(c, l, x)'
  BY ReadingStays DEF Knows
<1>2. /\ DOMAIN ledger \subseteq DOMAIN ledger' /\ \A n \in DOMAIN ledger : ledger'[n] = ledger[n]
      /\ Len(ledger) \in Nat /\ DOMAIN ledger = 1 .. Len(ledger)
  BY DEF Extends
<1>3. Attempted(c, l, x)'
  <2>1. CASE x.attempt = 0
    <3>1. \A k \in DOMAIN itemReceipts : itemReceipts[k].call # x.number
      BY <2>1 DEF Knows, Attempted
    <3>2. QED BY <2>1, <3>1 DEF Attempted
  <2>2. CASE x.attempt # 0
    <3>1. PICK b \in DOMAIN ledger : Rebased(c, l, x, b)
      BY <2>2 DEF Knows, Attempted
    <3>2. b \in Nat /\ b <= Len(ledger) /\ b \in DOMAIN ledger' /\ ledger'[b] = ledger[b]
      BY <1>2
    <3>3. \A doc : ReadAt(doc, b) => ReadAt(doc, b)'
      BY <3>2, ReadStays
    <3>4. /\ x.began < b /\ ledger'[b].item = x.request.item
      BY <3>1, <3>2 DEF Rebased
    <3>5. ASSUME NEW n \in DOMAIN x.docs, x.docs[n].item = x.request.item
          PROVE ReadAt(x.docs[n], b)'
      <4>1. PICK doc : doc = x.docs[n]
        OBVIOUS
      <4>2. ReadAt(doc, b)
        BY <3>1, <3>5, <4>1 DEF Rebased
      <4>3. QED BY <3>3, <4>1, <4>2
    <3>6. l = "commit" => ReadAt(x.proposal.content, b)'
      <4>1. PICK doc : doc = x.proposal.content
        OBVIOUS
      <4>2. l = "commit" => ReadAt(doc, b)
        BY <3>1, <4>1 DEF Rebased
      <4>3. QED BY <3>3, <4>1, <4>2
    <3>7. ASSUME NEW k \in DOMAIN itemReceipts', itemReceipts'[k].call = x.number
          PROVE \E v \in Nat : /\ k = <<"progress", Author[c], x.request.item, x.request.status, v>>
                               /\ v < ledger'[b].version
      BY <3>1, <3>2, <3>7 DEF Rebased
    <3>8. Rebased(c, l, x, b)'
      BY <3>2, <3>4, <3>5, <3>6, <3>7 DEF Rebased
    <3>9. QED BY <2>2, <3>2, <3>8 DEF Attempted
  <2>3. QED BY <2>1, <2>2
<1>4. QED BY <1>1, <1>3 DEF Knows

\* The receipts of a workspace that grew, with no receipt or one more.
LEMMA ReceiptsStay ==
  ASSUME ItemRowsInv', Extends, ReceiptsInv, UNCHANGED itemReceipts,
         \A i \in DOMAIN rows' \ DOMAIN rows : i \in Outside
  PROVE ReceiptsInv'
<1>1. ASSUME NEW k \in DOMAIN itemReceipts
      PROVE /\ itemReceipts[k].call <= itemCalls'
            /\ itemReceipts[k].proposal.root <= Len(ledger')
            /\ HandoffTold(k, itemReceipts[k])' \/ ProgressTold(k, itemReceipts[k])'
  <2>1. PICK r : r = itemReceipts[k]
    OBVIOUS
  <2>2. /\ r.call \in Nat /\ r.call <= itemCalls
        /\ r.proposal.root \in Nat /\ r.proposal.root <= Len(ledger)
        /\ HandoffTold(k, r) \/ ProgressTold(k, r)
    BY <2>1 DEF ReceiptsInv
  <2>3. HandoffTold(k, r)' \/ ProgressTold(k, r)'
    BY <2>2, ReceiptStays
  <2>4. r' = r /\ itemReceipts[k]' = r
    BY <2>1
  <2>5. r.call <= itemCalls' /\ r.proposal.root <= Len(ledger')
    BY <2>2 DEF Extends
  <2>6. QED BY <2>1, <2>3, <2>4, <2>5
<1>2. \A i \in DOMAIN rows' \ Outside : <<"handoff", i>> \in DOMAIN itemReceipts
  BY DEF ReceiptsInv
<1>3. itemCalls' \in Nat
  BY DEF Extends
<1>4. QED BY <1>1, <1>2, <1>3 DEF ReceiptsInv

-----------------------------------------------------------------------------
(* The steps of a call.                                                    *)

HelperLabels == {"idle", "page", "read", "commit"}
Active(c) == pc[c] # "idle"

\* A step of one caller: what the other active calls know stays true.
LEMMA CallMoves ==
  ASSUME WorkItemsAssumption, ItemRowsInv, ItemRowsInv', Extends, HelpersCallsInv,
         NEW c \in Callers, NEW l \in HelperLabels, NEW x,
         pc' = [pc EXCEPT ![c] = l], call' = [call EXCEPT ![c] = x],
         l # "idle" =>
           /\ Knows(c, l, x)'
           /\ \A d \in Callers : d # c /\ Active(d) => call[d].number # x.number,
         \A k \in DOMAIN itemReceipts' :
           \/ k \in DOMAIN itemReceipts /\ itemReceipts'[k].call = itemReceipts[k].call
           \/ \A d \in Callers : d # c /\ Active(d) => call[d].number # itemReceipts'[k].call
  PROVE HelpersCallsInv'
<1>1. /\ pc \in [Callers -> HelperLabels] /\ DOMAIN call = Callers
      /\ \A d \in Callers : Active(d) => Knows(d, pc[d], call[d])
      /\ \A d, e \in Callers : d # e /\ Active(d) /\ Active(e) => call[d].number # call[e].number
  BY DEF HelpersCallsInv, HelperLabels, Active
<1>2. /\ pc' \in [Callers -> HelperLabels] /\ DOMAIN call' = Callers
      /\ pc'[c] = l /\ call'[c] = x
      /\ \A d \in Callers : d # c => pc'[d] = pc[d] /\ call'[d] = call[d]
  BY <1>1
<1>3. ASSUME NEW d \in Callers, pc'[d] # "idle" PROVE Knows(d, pc[d], call[d])'
  <2>1. CASE d = c
    BY <1>2, <1>3, <2>1
  <2>2. CASE d # c
    <3>1. PICK m : m = pc[d]
      OBVIOUS
    <3>2. PICK y : y = call[d]
      OBVIOUS
    <3>3. Active(d) /\ Knows(d, m, y) /\ pc'[d] = m /\ call'[d] = y
      BY <1>1, <1>2, <1>3, <2>2, <3>1, <3>2 DEF Active
    <3>4. \A k \in DOMAIN itemReceipts' :
            itemReceipts'[k].call = y.number => k \in DOMAIN itemReceipts /\ itemReceipts[k].call = y.number
      BY <2>2, <3>2, <3>3
    <3>5. Knows(d, m, y)'
      BY <3>3, <3>4, KnowsStays
    <3>6. QED BY <3>3, <3>5
  <2>3. QED BY <2>1, <2>2
<1>4. \A d, e \in Callers :
        d # e /\ pc'[d] # "idle" /\ pc'[e] # "idle" => call'[d].number # call'[e].number
  BY <1>1, <1>2 DEF Active
<1>5. QED BY <1>2, <1>3, <1>4 DEF HelpersCallsInv, HelperLabels

\* A step of a call that leaves the workspace alone.
LEMMA CallMovesAlone ==
  ASSUME WorkItemsAssumption, HelpersInv, NEW c \in Callers, NEW l \in HelperLabels, NEW x,
         Active(c), UNCHANGED <<workspace, bounds>>,
         pc' = [pc EXCEPT ![c] = l], call' = [call EXCEPT ![c] = x],
         l # "idle" => Knows(c, l, x) /\ x.number = call[c].number
  PROVE HelpersInv'
<1>1. ItemRowsInv /\ ReceiptsInv /\ HelpersCallsInv
  BY DEF HelpersInv
<1>2. rows' = rows /\ ledger' = ledger /\ itemReceipts' = itemReceipts /\ itemCalls' = itemCalls /\ itemCalls \in Nat
  BY <1>1 DEF workspace, bounds, ReceiptsInv
<1>3. Extends /\ ItemRowsInv'
  BY <1>1, <1>2, SameExtends
<1>4. ReceiptsInv'
  BY <1>1, <1>2, <1>3, ReceiptsStay
<1>5. \A d \in Callers : d # c /\ Active(d) => call[d].number # call[c].number
  BY <1>1 DEF HelpersCallsInv, Active
<1>6. l # "idle" =>
           /\ Knows(c, l, x)'
           /\ \A d \in Callers : d # c /\ Active(d) => call[d].number # x.number
  BY <1>1, <1>2, <1>3, <1>5, KnowsStays
<1>7. HelpersCallsInv'
  BY <1>1, <1>2, <1>3, <1>6, CallMoves
<1>8. QED BY <1>3, <1>4, <1>7 DEF HelpersInv

\* A step that ends no call tells nothing.
LEMMA NothingTold == told' = Nothing => Told'
  BY DEF Nothing, Told, ToldIsRecorded, OnlyContendedRefused, ListIsWhole

\* A call that begins has read nothing.
LEMMA StartKnows ==
  ASSUME WorkItemsAssumption, HelpersInv, NEW c \in Callers, NEW request \in Requests,
         Start(c, request)
  PROVE HelpersInv' /\ Told'
<1> DEFINE x == [kind |-> request.kind, request |-> request, number |-> itemCalls + 1,
                 began |-> Len(ledger), attempt |-> 0, docs |-> <<>>, offset |-> 0]
<1>1. ItemRowsInv /\ ReceiptsInv /\ HelpersCallsInv
  BY DEF HelpersInv
<1>2. /\ rows' = rows /\ ledger' = ledger /\ itemReceipts' = itemReceipts /\ itemCalls' = itemCalls + 1
      /\ itemCalls \in Nat /\ pc[c] = "idle" /\ told' = Nothing
      /\ pc' = [pc EXCEPT ![c] = "page"] /\ call' = [call EXCEPT ![c] = x]
  BY <1>1 DEF Start, workspace, ReceiptsInv
<1>3. Extends /\ ItemRowsInv'
  BY <1>1, <1>2, SameExtends
<1>4. ReceiptsInv'
  BY <1>1, <1>2, <1>3, ReceiptsStay
<1>5. PICK y : y = x
  OBVIOUS
<1>6. /\ y.kind = request.kind /\ y.request = request /\ y.number = itemCalls + 1
      /\ y.began = Len(ledger) /\ y.attempt = 0 /\ y.docs = <<>> /\ y.offset = 0
      /\ Fields \subseteq DOMAIN y
  BY <1>5 DEF Fields
<1> HIDE DEF x
<1>7. Knows(c, "page", y)'
  <2>1. Len(ledger) \in Nat /\ Len(ledger') = Len(ledger) /\ DOMAIN ledger = 1 .. Len(ledger)
    BY <1>2, <1>3 DEF Extends
  <2>2. DOMAIN rows \subseteq Items
    BY <1>1 DEF ItemRowsInv
  <2>3. /\ Cardinality(DOMAIN rows) \in Nat
        /\ \A i \in DOMAIN rows : Rank(i) \in 1 .. Cardinality(DOMAIN rows)
    BY <2>2, RankIsPlace
  <2>4. Cardinality(DOMAIN rows)' = Cardinality(DOMAIN rows) /\ \A i : Rank(i)' = Rank(i)
    BY <1>2 DEF Rank
  <2>5. Shaped("page", y)'
    BY <1>2, <1>6, <2>1, <2>3, <2>4 DEF Shaped
  <2>6. Honest(y)'
    BY <1>6 DEF Honest
  <2>7. Scanned("page", y)'
    <3>1. ASSUME NEW n \in 1 .. y.began PROVE y.offset < Rank(ledger[n].item)'
      <4>1. ledger'[n] = ledger[n] /\ ledger[n].item \in DOMAIN rows
        BY <1>1, <1>2, <1>6, <2>1 DEF ItemRowsInv
      <4>2. PICK i : i = ledger[n].item
        OBVIOUS
      <4>3. Rank(ledger[n].item)' = Rank(i)
        BY <1>2, <4>2 DEF Rank
      <4>4. QED BY <1>6, <2>3, <4>1, <4>2, <4>3
    <3>2. QED BY <3>1 DEF Scanned
  <2>8. Built(c, "page", y)'
    BY DEF Built
  <2>9. Attempted(c, "page", y)'
    <3>1. \A k \in DOMAIN itemReceipts : itemReceipts[k].call \in Nat /\ itemReceipts[k].call <= itemCalls
      BY <1>1 DEF ReceiptsInv
    <3>2. \A k \in DOMAIN itemReceipts : itemReceipts[k].call # itemCalls + 1
      BY <1>2, <3>1
    <3>3. QED BY <1>2, <1>6, <3>2 DEF Attempted
  <2>10. QED BY <2>5, <2>6, <2>7, <2>8, <2>9 DEF Knows
<1>8. \A d \in Callers : d # c /\ Active(d) => call[d].number # y.number
  <2>1. \A d \in Callers : Active(d) => call[d].number \in Nat /\ call[d].number <= itemCalls
    BY <1>1 DEF HelpersCallsInv, Active, Knows, Shaped
  <2>2. \A d \in Callers : Active(d) => call[d].number # itemCalls + 1
    BY <1>2, <2>1
  <2>3. QED BY <1>6, <2>2
<1>9. HelpersCallsInv'
  <2>1. "page" \in HelperLabels
    BY DEF HelperLabels
  <2>2. call' = [call EXCEPT ![c] = y]
    BY <1>2, <1>5
  <2>3. QED BY <1>1, <1>2, <1>3, <1>7, <1>8, <2>1, <2>2, CallMoves
<1>10. QED BY <1>2, <1>3, <1>4, <1>9, NothingTold DEF HelpersInv

\* A row that is read is what its last entry says.
LEMMA FreshlyRead ==
  ASSUME ItemRowsInv, NEW i \in DOMAIN rows
  PROVE /\ Doc(i) \in ItemDocs /\ Doc(i).item = i
        /\ \A b \in Nat : b <= Len(ledger) => ReadAt(Doc(i), b)
<1>1. /\ ledger \in Seq(ItemEntries) /\ rows \in [DOMAIN rows -> ItemRows] /\ DOMAIN rows \subseteq Items
  BY DEF ItemRowsInv
<1>2. rows[i] \in ItemRows /\ i \in Items /\ Len(ledger) \in Nat /\ DOMAIN ledger = 1 .. Len(ledger)
  BY <1>1
<1>3. Doc(i) \in ItemDocs /\ Doc(i).item = i
  BY <1>2 DEF Doc, ItemDocs, ItemRows
<1>4. PICK n \in DOMAIN ledger :
        /\ ledger[n].item = i /\ ledger[n].version = rows[i].version
        /\ ledger[n].status = rows[i].status
  BY DEF ItemRowsInv
<1>5. Matches(ledger[n], Doc(i))
  BY <1>4 DEF Matches, Doc
<1>6. ASSUME NEW m \in DOMAIN ledger, n < m, ledger[m].item = i PROVE FALSE
  <2>1. ledger[n].version < ledger[m].version /\ ledger[m].version <= rows[i].version
    BY <1>4, <1>6 DEF ItemRowsInv
  <2>2. ledger[m] \in ItemEntries
    BY <1>1
  <2>3. ledger[m].version \in Nat /\ rows[i].version \in Nat
    BY <1>2, <2>2 DEF ItemEntries, ItemRows
  <2>4. QED BY <1>4, <2>1, <2>3
<1>7. ASSUME NEW b \in Nat, b <= Len(ledger) PROVE ReadAt(Doc(i), b)
  <2>1. \A m \in n + 1 .. b : m \in DOMAIN ledger /\ n < m
    BY <1>2, <1>4, <1>7
  <2>2. \A m \in n + 1 .. b : ledger[m].item # Doc(i).item
    BY <1>3, <1>6, <2>1
  <2>3. QED BY <1>4, <1>5, <2>2 DEF ReadAt
<1>8. QED BY <1>3, <1>7

\* Where the elements of a concatenation come from.
LEMMA Concatenated ==
  ASSUME NEW S, NEW s \in Seq(S), NEW t \in Seq(S), NEW u, u = s \o t
  PROVE /\ u \in Seq(S) /\ Len(u) = Len(s) + Len(t)
        /\ \A n \in DOMAIN s : n \in DOMAIN u /\ u[n] = s[n]
        /\ \A n \in DOMAIN t : Len(s) + n \in DOMAIN u /\ u[Len(s) + n] = t[n]
        /\ \A n \in DOMAIN u :
             n \in DOMAIN s \/ (n - Len(s) \in DOMAIN t /\ u[n] = t[n - Len(s)])
<1>1. /\ u \in Seq(S) /\ Len(u) = Len(s) + Len(t)
      /\ Len(s) \in Nat /\ Len(t) \in Nat
      /\ DOMAIN s = 1 .. Len(s) /\ DOMAIN t = 1 .. Len(t) /\ DOMAIN u = 1 .. Len(s) + Len(t)
  OBVIOUS
<1>2. \A n \in 1 .. Len(s) : u[n] = s[n]
  OBVIOUS
<1>3. \A n \in 1 .. Len(s) + Len(t) : n > Len(s) => u[n] = t[n - Len(s)]
  OBVIOUS
<1>4. \A n \in 1 .. Len(t) : Len(s) + n \in 1 .. Len(s) + Len(t) /\ (Len(s) + n) - Len(s) = n /\ Len(s) + n > Len(s)
  BY <1>1
<1>5. \A n \in 1 .. Len(s) + Len(t) : n \in 1 .. Len(s) \/ (n > Len(s) /\ n - Len(s) \in 1 .. Len(t))
  BY <1>1
<1>6. \A n \in 1 .. Len(s) : n \in 1 .. Len(s) + Len(t)
  BY <1>1
<1>7. \A n \in DOMAIN t : Len(s) + n \in DOMAIN u /\ u[Len(s) + n] = t[n]
  BY <1>1, <1>3, <1>4
<1>8. \A n \in DOMAIN u : n \in DOMAIN s \/ (n - Len(s) \in DOMAIN t /\ u[n] = t[n - Len(s)])
  BY <1>1, <1>3, <1>5
<1>9. QED BY <1>1, <1>2, <1>6, <1>7, <1>8

\* The next page begins where the last one ended, and the ranks of the items only
\* grow: an item that was there is on a page read or on one to come.
LEMMA PageKnows ==
  ASSUME WorkItemsAssumption, HelpersInv, NEW c \in Callers, ReadPage(c)
  PROVE HelpersInv' /\ Told'
<1>1. ItemRowsInv /\ ReceiptsInv /\ HelpersCallsInv
  BY DEF HelpersInv
<1>2. PICK y : y = call[c]
  OBVIOUS
<1> DEFINE found == Ordered
           N == Len(found)
           last == IF y.offset + PageSize < N THEN y.offset + PageSize ELSE N
           page == [n \in 1 .. last - y.offset |-> Doc(found[y.offset + n])]
           x == [y EXCEPT !.docs = @ \o page, !.offset = last]
           l == IF last < N THEN "page" ELSE "read"
<1>3. pc[c] = "page" /\ c \in DOMAIN call /\ Active(c)
  BY <1>1 DEF ReadPage, HelpersCallsInv, Active
<1>4. Knows(c, "page", y)
  BY <1>1, <1>2, <1>3 DEF HelpersCallsInv
<1>5. /\ call' = [call EXCEPT ![c].docs = @ \o page, ![c].offset = last]
      /\ pc' = [pc EXCEPT ![c] = l]
      /\ told' = Nothing /\ UNCHANGED <<workspace, bounds>>
  BY <1>2 DEF ReadPage
<1>6. call' = [call EXCEPT ![c] = x]
  <2> HIDE DEF page, last
  <2> QED BY <1>2, <1>3, <1>5
<1>7. /\ y.docs \in Seq(ItemDocs) /\ y.offset \in Nat /\ Fields \subseteq DOMAIN y
      /\ y.began \in Nat /\ y.began <= Len(ledger) /\ y.offset <= Cardinality(DOMAIN rows)
  <2>1. Shaped("page", y)
    BY <1>4 DEF Knows
  <2> QED BY <2>1 DEF Shaped
<1>8. /\ Cardinality(DOMAIN rows) \in Nat /\ N = Cardinality(DOMAIN rows)
      /\ \A n \in 1 .. N : found[n] \in DOMAIN rows
      /\ \A i \in DOMAIN rows : Rank(i) \in 1 .. N /\ found[Rank(i)] = i
  BY <1>1, RankIsPlace, OrderIsWhole DEF ItemRowsInv
<1> HIDE DEF N, found
<1>9. /\ last \in Nat /\ y.offset <= last /\ last <= N
      /\ last < N \/ last = N
      /\ \A n \in 1 .. last - y.offset : y.offset + n \in 1 .. N
      /\ last - y.offset \in Nat
  <2>1. y.offset \in Nat /\ N \in Nat /\ y.offset <= N /\ PageSize \in Nat
    BY <1>7, <1>8 DEF WorkItemsAssumption
  <2>2. last \in Nat /\ y.offset <= last /\ last <= N
    BY <2>1
  <2> HIDE DEF last
  <2> QED BY <2>1, <2>2
<1> HIDE DEF last
<1>10. \A n \in 1 .. last - y.offset : page[n] = Doc(found[y.offset + n]) /\ found[y.offset + n] \in DOMAIN rows
  BY <1>8, <1>9
<1>11. \A n \in 1 .. last - y.offset :
         /\ page[n] \in ItemDocs
         /\ \A b \in Nat : b <= Len(ledger) => ReadAt(page[n], b)
  BY <1>1, <1>10, FreshlyRead
<1>12. page = [n \in 1 .. last - y.offset |-> page[n]]
  OBVIOUS
<1> HIDE DEF page
<1>13. page \in Seq(ItemDocs) /\ Len(page) = last - y.offset
  <2>1. page \in [1 .. last - y.offset -> ItemDocs]
    BY <1>11, <1>12
  <2>2. QED BY <1>9, <2>1
<1>14. /\ x.docs = y.docs \o page /\ x.offset = last
       /\ x.kind = y.kind /\ x.request = y.request /\ x.number = y.number
       /\ x.began = y.began /\ x.attempt = y.attempt /\ DOMAIN x = DOMAIN y
  BY <1>7 DEF Fields
<1>15. /\ x.docs \in Seq(ItemDocs) /\ Len(x.docs) = Len(y.docs) + Len(page)
       /\ \A n \in DOMAIN y.docs : n \in DOMAIN x.docs /\ x.docs[n] = y.docs[n]
       /\ \A n \in DOMAIN page : Len(y.docs) + n \in DOMAIN x.docs /\ x.docs[Len(y.docs) + n] = page[n]
       /\ \A n \in DOMAIN x.docs :
            n \in DOMAIN y.docs \/ (n - Len(y.docs) \in DOMAIN page /\ x.docs[n] = page[n - Len(y.docs)])
  <2> HIDE DEF x
  <2>1. PICK s, t, u : s = y.docs /\ t = page /\ u = x.docs
    OBVIOUS
  <2>2. s \in Seq(ItemDocs) /\ t \in Seq(ItemDocs) /\ u = s \o t
    BY <1>7, <1>13, <1>14, <2>1
  <2>3. /\ u \in Seq(ItemDocs) /\ Len(u) = Len(s) + Len(t)
        /\ \A n \in DOMAIN s : n \in DOMAIN u /\ u[n] = s[n]
        /\ \A n \in DOMAIN t : Len(s) + n \in DOMAIN u /\ u[Len(s) + n] = t[n]
        /\ \A n \in DOMAIN u :
             n \in DOMAIN s \/ (n - Len(s) \in DOMAIN t /\ u[n] = t[n - Len(s)])
    BY <2>2, Concatenated
  <2>4. QED BY <2>1, <2>3
<1>16. DOMAIN page = 1 .. last - y.offset
  BY <1>9, <1>13
<1> HIDE DEF x
<1>17. \A b \in Nat : b <= Len(ledger) =>
         \A n \in DOMAIN x.docs : n \in DOMAIN y.docs \/ ReadAt(x.docs[n], b)
  BY <1>11, <1>15, <1>16
<1>18. l \in {"page", "read"} /\ (l = "read" => last = N)
  BY <1>9
<1> HIDE DEF l
<1>19. Knows(c, l, x)
  <2>1. Shaped(l, x)
    BY <1>4, <1>8, <1>9, <1>14, <1>15, <1>18 DEF Knows, Shaped
  <2>2. Honest(x)
    <3>1. \A n \in DOMAIN y.docs : ReadAt(y.docs[n], y.began)
      BY <1>4 DEF Knows, Honest
    <3>2. ASSUME NEW n \in DOMAIN x.docs PROVE ReadAt(x.docs[n], x.began)
      BY <1>7, <1>14, <1>15, <1>17, <3>1
    <3>3. QED BY <3>2 DEF Honest
  <2>3. Scanned(l, x)
    <3>1. ASSUME NEW n \in 1 .. x.began
          PROVE \/ \E m \in DOMAIN x.docs : x.docs[m].item = ledger[n].item
                \/ l = "page" /\ x.offset < Rank(ledger[n].item)
      <4>1. PICK i : i = ledger[n].item
        OBVIOUS
      <4>2. i \in DOMAIN rows
        <5>1. n \in DOMAIN ledger
          BY <1>1, <1>7, <1>14 DEF ItemRowsInv
        <5>2. QED BY <1>1, <4>1, <5>1 DEF ItemRowsInv
      <4>3. \/ \E m \in DOMAIN y.docs : y.docs[m].item = i
            \/ y.offset < Rank(i)
        BY <1>4, <1>14, <4>1 DEF Knows, Scanned
      <4>4. CASE \E m \in DOMAIN y.docs : y.docs[m].item = i
        BY <1>15, <4>1, <4>4
      <4>5. CASE y.offset < Rank(i) /\ Rank(i) <= last
        <5>1. PICK k : k = Rank(i) - y.offset
          OBVIOUS
        <5>2. k \in 1 .. last - y.offset /\ y.offset + k = Rank(i)
          <6>1. PICK r : r = Rank(i)
            OBVIOUS
          <6>2. r \in Nat /\ y.offset < r /\ r <= last /\ k = r - y.offset
            BY <1>8, <4>2, <4>5, <5>1, <6>1
          <6>3. k \in 1 .. last - y.offset /\ y.offset + k = r
            BY <1>7, <1>9, <6>2
          <6>4. QED BY <6>1, <6>3
        <5>3. page[k] = Doc(i)
          BY <1>8, <1>10, <4>2, <5>2
        <5>4. Doc(i).item = i
          BY DEF Doc
        <5>5. Len(y.docs) + k \in DOMAIN x.docs /\ x.docs[Len(y.docs) + k].item = i
          BY <1>15, <1>16, <5>2, <5>3, <5>4
        <5>6. QED BY <4>1, <5>5
      <4>6. CASE ~(Rank(i) <= last)
        <5>1. last < Rank(i) /\ last < N
          BY <1>8, <1>9, <4>2, <4>6
        <5>2. QED BY <1>9, <1>14, <1>18, <4>1, <5>1
      <4>7. QED BY <4>3, <4>4, <4>5, <4>6
    <3>2. QED BY <3>1 DEF Scanned
  <2>4. Built(c, l, x)
    BY <1>18 DEF Built
  <2>5. Attempted(c, l, x)
    <3>1. Attempted(c, "page", y)
      BY <1>4 DEF Knows
    <3>2. CASE y.attempt = 0
      BY <1>14, <3>1, <3>2 DEF Attempted
    <3>3. CASE y.attempt # 0
      <4>1. PICK b \in DOMAIN ledger : Rebased(c, "page", y, b)
        BY <3>1, <3>3 DEF Attempted
      <4>2. b \in Nat /\ b <= Len(ledger)
        BY <1>1 DEF ItemRowsInv
      <4>3. \A n \in DOMAIN x.docs : n \in DOMAIN y.docs \/ ReadAt(x.docs[n], b)
        BY <1>17, <4>2
      <4>4. \A n \in DOMAIN x.docs : x.docs[n].item = x.request.item => ReadAt(x.docs[n], b)
        BY <1>14, <1>15, <4>1, <4>3 DEF Rebased
      <4>5. Rebased(c, l, x, b)
        BY <1>14, <1>18, <4>1, <4>4 DEF Rebased
      <4>6. QED BY <1>14, <3>3, <4>5 DEF Attempted
    <3>4. QED BY <3>2, <3>3
  <2>6. QED BY <2>1, <2>2, <2>3, <2>4, <2>5 DEF Knows
<1>20. l \in HelperLabels
  BY <1>18 DEF HelperLabels
<1>21. HelpersInv'
  <2>1. x.number = call[c].number
    BY <1>2, <1>14
  <2>2. PICK ll, xx : ll = l /\ xx = x
    OBVIOUS
  <2>3. /\ ll \in HelperLabels /\ pc' = [pc EXCEPT ![c] = ll] /\ call' = [call EXCEPT ![c] = xx]
        /\ Knows(c, ll, xx) /\ xx.number = call[c].number
    BY <1>5, <1>6, <1>19, <1>20, <2>1, <2>2
  <2>4. UNCHANGED <<workspace, bounds>>
    BY <1>5
  <2>5. QED BY <1>3, <2>3, <2>4, CallMovesAlone
<1>22. QED BY <1>5, <1>21, NothingTold

\* What was read of an item is in the ledger.
LEMMA ReadIsThere ==
  ASSUME ItemRowsInv, NEW doc, NEW b, ReadAt(doc, b)
  PROVE doc.item \in DOMAIN rows
<1>1. PICK n \in DOMAIN ledger : Matches(ledger[n], doc)
  BY DEF ReadAt
<1>2. QED BY <1>1 DEF ItemRowsInv, Matches

\* What the invariant says of an active call.
LEMMA ActiveKnows ==
  ASSUME HelpersInv, NEW c \in Callers, Active(c)
  PROVE /\ ItemRowsInv /\ ReceiptsInv /\ HelpersCallsInv /\ c \in DOMAIN call /\ pc[c] \in HelperLabels
        /\ Knows(c, pc[c], call[c])
BY DEF HelpersInv, HelpersCallsInv, Active, HelperLabels

\* What a call has seen of its item is what it has read.
LEMMA SeenIsRead ==
  ASSUME HelpersInv, NEW c \in Callers, Active(c), NEW doc \in Seen(c)
  PROVE /\ doc \in ItemDocs /\ doc.item = call[c].request.item
        /\ \E n \in DOMAIN call[c].docs : doc = call[c].docs[n]
        /\ ReadAt(doc, call[c].began)
        /\ \A b : Rebased(c, pc[c], call[c], b) => ReadAt(doc, b)
<1>1. PICK n \in DOMAIN call[c].docs :
        call[c].docs[n].item = call[c].request.item /\ doc = call[c].docs[n]
  BY DEF Seen
<1>2. Knows(c, pc[c], call[c])
  BY ActiveKnows
<1>3. call[c].docs \in Seq(ItemDocs)
  BY <1>2 DEF Knows, Shaped
<1>4. doc \in ItemDocs
  BY <1>1, <1>3
<1>5. ReadAt(doc, call[c].began)
  BY <1>1, <1>2 DEF Knows, Honest
<1>6. \A b : Rebased(c, pc[c], call[c], b) => ReadAt(doc, b)
  BY <1>1 DEF Rebased
<1>7. QED BY <1>1, <1>4, <1>5, <1>6

\* A call that returns leaves nothing behind.
LEMMA ReturnKnows ==
  ASSUME WorkItemsAssumption, HelpersInv, NEW c \in Callers, Active(c), NEW result,
         Return(c, result), UNCHANGED <<workspace, bounds>>
  PROVE HelpersInv'
<1>1. pc' = [pc EXCEPT ![c] = "idle"] /\ call' = [call EXCEPT ![c] = Nothing] /\ "idle" \in HelperLabels
  BY DEF Return, HelperLabels
<1>2. PICK l, x : l = "idle" /\ x = Nothing
  OBVIOUS
<1>3. QED BY <1>1, <1>2, CallMovesAlone

\* A list has read every page.
LEMMA ListKnows ==
  ASSUME WorkItemsAssumption, HelpersInv, NEW c \in Callers, List(c)
  PROVE HelpersInv' /\ Told'
<1>1. /\ pc[c] = "read" /\ Active(c) /\ UNCHANGED <<workspace, bounds>>
      /\ Return(c, [kind |-> "listed", began |-> call[c].began, docs |-> call[c].docs])
      /\ ledger' = ledger
  BY DEF List, Active, workspace
<1>2. HelpersInv'
  BY <1>1, ReturnKnows
<1>3. PICK y : y = call[c]
  OBVIOUS
<1>4. ItemRowsInv /\ Knows(c, "read", y)
  BY <1>1, <1>3, ActiveKnows
<1>5. told' = [kind |-> "listed", began |-> y.began, docs |-> y.docs]
  BY <1>1, <1>3 DEF Return
<1>6. told'.kind = "listed" /\ told'.began = y.began /\ told'.docs = y.docs
  BY <1>5
<1>7. \A n \in 1 .. y.began : \E m \in DOMAIN y.docs : y.docs[m].item = ledger[n].item
  BY <1>4 DEF Knows, Scanned
<1>8. ASSUME NEW k \in DOMAIN y.docs
      PROVE \E n \in DOMAIN ledger :
            /\ ledger[n].item = y.docs[k].item /\ ledger[n].version = y.docs[k].version
            /\ ledger[n].status = y.docs[k].status
            /\ \A m \in n + 1 .. y.began : ledger[m].item # y.docs[k].item
  <2>1. ReadAt(y.docs[k], y.began)
    BY <1>4 DEF Knows, Honest
  <2>2. QED BY <2>1 DEF ReadAt, Matches
<1>9. ListIsWhole'
  BY <1>1, <1>6, <1>7, <1>8 DEF ListIsWhole
<1>10. ToldIsRecorded' /\ OnlyContendedRefused'
  BY <1>6 DEF ToldIsRecorded, OnlyContendedRefused
<1>11. QED BY <1>2, <1>9, <1>10 DEF Told

\* What has been handed off is there.
LEMMA HandedTold ==
  ASSUME NEW i, i \in DOMAIN rows', told' = [kind |-> "handed", item |-> i]
  PROVE Told'
<1>1. told'.kind = "handed" /\ told'.item = i
  OBVIOUS
<1>2. QED BY <1>1 DEF Told, ToldIsRecorded, OnlyContendedRefused, ListIsWhole

\* A handoff that finds its item ends without a commit.
LEMMA HandoffKnownKnows ==
  ASSUME WorkItemsAssumption, HelpersInv, NEW c \in Callers, HandoffKnown(c)
  PROVE HelpersInv' /\ Told'
<1>1. /\ Active(c) /\ UNCHANGED <<workspace, bounds>> /\ Seen(c) # {}
      /\ Return(c, [kind |-> "handed", item |-> call[c].request.item])
      /\ rows' = rows
  BY DEF HandoffKnown, Active, workspace
<1>2. HelpersInv'
  BY <1>1, ReturnKnows
<1>3. PICK doc \in Seen(c) : TRUE
  BY <1>1
<1>4. doc.item = call[c].request.item /\ doc.item \in DOMAIN rows
  BY <1>1, SeenIsRead, ReadIsThere DEF HelpersInv
<1>5. PICK i : i = call[c].request.item
  OBVIOUS
<1>6. i \in DOMAIN rows' /\ told' = [kind |-> "handed", item |-> i]
  BY <1>1, <1>4, <1>5 DEF Return
<1>7. QED BY <1>2, <1>6, HandedTold

\* A transition that does not find its item ends without a commit.
LEMMA ProgressUnknownKnows ==
  ASSUME WorkItemsAssumption, HelpersInv, NEW c \in Callers, ProgressUnknown(c)
  PROVE HelpersInv' /\ Told'
<1>1. /\ Active(c) /\ UNCHANGED <<workspace, bounds>>
      /\ Return(c, [kind |-> "refused", code |-> "WORK_ITEM_NOT_FOUND"])
  BY DEF ProgressUnknown, Active
<1>2. HelpersInv'
  BY <1>1, ReturnKnows
<1>3. told'.kind = "refused" /\ told'.code = "WORK_ITEM_NOT_FOUND"
  BY <1>1 DEF Return
<1>4. QED BY <1>2, <1>3 DEF Told, ToldIsRecorded, OnlyContendedRefused, ListIsWhole

\* A proposal that is built of what was read.
LEMMA BuildingKnows ==
  ASSUME WorkItemsAssumption, HelpersInv, NEW c \in Callers, pc[c] = "read",
         NEW key, NEW content, Building(c, key, content),
         call[c].kind = "handoff" =>
           key = <<"handoff", call[c].request.item>> /\ content = [item |-> call[c].request.item],
         call[c].kind = "progress" =>
           /\ content \in Seen(c)
           /\ key = <<"progress", Author[c], content.item, call[c].request.status, content.version>>,
         call[c].kind # "list"
  PROVE HelpersInv' /\ Told'
<1>1. PICK y : y = call[c]
  OBVIOUS
<1>2. Active(c)
  BY DEF Active
<1>3. ItemRowsInv /\ ReceiptsInv /\ HelpersCallsInv /\ c \in DOMAIN call /\ Knows(c, "read", y)
  BY <1>1, <1>2, ActiveKnows
<1> DEFINE x == [field \in DOMAIN y \cup {"key", "proposal"} |->
                   CASE field = "key" -> key
                     [] field = "proposal" -> [content |-> content, root |-> Len(ledger)]
                     [] OTHER -> y[field]]
<1>4. /\ pc' = [pc EXCEPT ![c] = "commit"] /\ told' = Nothing /\ UNCHANGED <<workspace, bounds>>
      /\ call' = [call EXCEPT ![c] = x]
  BY <1>1, <1>3 DEF Building
<1>5. Fields \subseteq DOMAIN y
  BY <1>3 DEF Knows, Shaped
<1>6. /\ x.key = key /\ x.proposal = [content |-> content, root |-> Len(ledger)]
      /\ DOMAIN x = DOMAIN y \cup {"key", "proposal"}
  OBVIOUS
<1>7. /\ x.kind = y.kind /\ x.request = y.request /\ x.number = y.number
      /\ x.began = y.began /\ x.attempt = y.attempt /\ x.docs = y.docs /\ x.offset = y.offset
  BY <1>5 DEF Fields
<1> HIDE DEF x
<1>8. x.proposal.content = content /\ x.proposal.root = Len(ledger)
  BY <1>6
<1>9. PICK l : l = "commit"
  OBVIOUS
<1>10. Knows(c, l, x)
  <2>1. Shaped(l, x)
    BY <1>3, <1>5, <1>6, <1>7, <1>9 DEF Knows, Shaped
  <2>2. Honest(x)
    BY <1>3, <1>7 DEF Knows, Honest
  <2>3. Scanned(l, x)
    BY <1>3, <1>7 DEF Knows, Scanned
  <2>4. Built(c, l, x)
    <3>1. Len(ledger) \in Nat /\ y.began <= Len(ledger)
      BY <1>3 DEF ItemRowsInv, Knows, Shaped
    <3>2. y.kind = "progress" =>
            /\ content \in ItemDocs /\ content.item = y.request.item /\ ReadAt(content, y.began)
            /\ key = <<"progress", Author[c], content.item, y.request.status, content.version>>
      BY <1>1, <1>2, SeenIsRead
    <3>3. QED BY <1>1, <1>6, <1>7, <1>8, <3>1, <3>2 DEF Built
  <2>5. Attempted(c, l, x)
    <3>1. Attempted(c, "read", y)
      BY <1>3 DEF Knows
    <3>2. CASE y.attempt = 0
      BY <1>7, <3>1, <3>2 DEF Attempted
    <3>3. CASE y.attempt # 0
      <4>1. PICK b \in DOMAIN ledger : Rebased(c, "read", y, b)
        BY <3>1, <3>3 DEF Attempted
      <4>2. y.kind = "progress"
        BY <1>3, <3>3 DEF Knows, Shaped
      <4>3. ReadAt(content, b)
        BY <1>1, <1>2, <4>1, <4>2, SeenIsRead
      <4>4. Rebased(c, l, x, b)
        BY <1>7, <1>8, <4>1, <4>3 DEF Rebased
      <4>5. QED BY <1>7, <3>3, <4>4 DEF Attempted
    <3>4. QED BY <3>2, <3>3
  <2>6. QED BY <2>1, <2>2, <2>3, <2>4, <2>5 DEF Knows
<1>11. PICK xx : xx = x
  OBVIOUS
<1>12. /\ l \in HelperLabels /\ pc' = [pc EXCEPT ![c] = l] /\ call' = [call EXCEPT ![c] = xx]
       /\ Knows(c, l, xx) /\ xx.number = call[c].number
  BY <1>1, <1>4, <1>7, <1>9, <1>10, <1>11 DEF HelperLabels
<1>13. UNCHANGED <<workspace, bounds>>
  BY <1>4
<1>14. HelpersInv'
  BY <1>2, <1>12, <1>13, CallMovesAlone
<1>15. QED BY <1>4, <1>14, NothingTold

\* A proposal is built of what the call has read.
LEMMA PrepareKnows ==
  ASSUME WorkItemsAssumption, HelpersInv, NEW c \in Callers,
         PrepareHandoff(c) \/ PrepareProgress(c)
  PROVE HelpersInv' /\ Told'
<1>1. CASE PrepareHandoff(c)
  <2>1. PICK key, content :
          /\ key = <<"handoff", call[c].request.item>> /\ content = [item |-> call[c].request.item]
          /\ Building(c, key, content)
    BY <1>1 DEF PrepareHandoff
  <2>2. pc[c] = "read" /\ call[c].kind = "handoff"
    BY <1>1 DEF PrepareHandoff
  <2>3. QED BY <2>1, <2>2, BuildingKnows
<1>2. CASE PrepareProgress(c)
  <2>1. PICK content \in Seen(c) : Building(c, ProgressKey(c, content), content)
    BY <1>2 DEF PrepareProgress
  <2>2. PICK key : key = ProgressKey(c, content)
    OBVIOUS
  <2>3. key = <<"progress", Author[c], content.item, call[c].request.status, content.version>>
    BY <2>2 DEF ProgressKey
  <2>4. pc[c] = "read" /\ call[c].kind = "progress" /\ Building(c, key, content)
    BY <1>2, <2>1, <2>2 DEF PrepareProgress
  <2>5. QED BY <2>3, <2>4, BuildingKnows
<1>3. QED BY <1>1, <1>2

-----------------------------------------------------------------------------
(* The commit and what is made of its outcome.                             *)

\* What an outcome says, when it is heard, of the proposal y was settled on.
Justified(c, y, outcome) ==
  LET doc == y.proposal.content
  IN \/ outcome = "COMMITTED" /\ y.kind = "handoff" /\ doc.item \in DOMAIN rows
     \/ outcome = "COMMITTED" /\ y.kind = "progress" /\ MovedTo(Author[c], doc, y.request.status)
     \/ /\ outcome = "TRANSACTION_CONFLICT" /\ y.kind = "progress"
        /\ doc.item \in DOMAIN rows /\ doc.version < rows[doc.item].version
     \/ outcome = "IDEMPOTENCY_KEY_REUSE" /\ itemReceipts[y.key].call # y.number
     \/ /\ outcome = "VALIDATION_ERROR" /\ y.kind = "handoff"
        /\ \E j \in Related[doc.item] : \A n \in 1 .. y.proposal.root : ledger[n].item # j

\* A call that reads again.
Reread(y) == [y EXCEPT !.attempt = 1, !.docs = <<>>, !.offset = 0]

\* An entry with a later version comes after whatever the version was read at.
LEMMA LaterEntry ==
  ASSUME ItemRowsInv', NEW doc \in ItemDocs, NEW b \in Nat, ReadAt(doc, b)',
         NEW n, n \in DOMAIN ledger', ledger'[n].item = doc.item, doc.version < ledger'[n].version
  PROVE b < n
<1>1. PICK k \in DOMAIN ledger' :
        /\ ledger'[k].item = doc.item /\ ledger'[k].version = doc.version
        /\ \A m \in k + 1 .. b : ledger'[m].item # doc.item
  BY DEF ReadAt, Matches
<1>2. ledger' \in Seq(ItemEntries)
  BY DEF ItemRowsInv
<1>3. k \in Nat /\ n \in Nat
  BY <1>1, <1>2
<1>4. ledger'[n] \in ItemEntries /\ doc.version \in Nat
  BY <1>2 DEF ItemDocs
<1>5. ledger'[n].version \in Nat
  BY <1>4 DEF ItemEntries
<1>6. ~(n < k)
  <2> SUFFICES ASSUME n < k PROVE FALSE
    OBVIOUS
  <2>1. ledger'[n].version < ledger'[k].version
    BY <1>1 DEF ItemRowsInv
  <2>2. QED BY <1>1, <1>4, <1>5, <2>1
<1>7. n # k
  BY <1>1, <1>4, <1>5
<1>8. k < n
  BY <1>3, <1>6, <1>7
<1>9. b < n \/ n \in k + 1 .. b
  BY <1>3, <1>8
<1>10. QED BY <1>1, <1>9

\* A row past the version that was read: an entry made it, after the reading.
LEMMA MovedOn ==
  ASSUME ItemRowsInv', NEW doc \in ItemDocs, doc.item \in DOMAIN rows',
         doc.version < rows'[doc.item].version
  PROVE \E n \in DOMAIN ledger' :
          /\ ledger'[n].item = doc.item /\ doc.version < ledger'[n].version
          /\ \A b \in Nat : ReadAt(doc, b)' => b < n
<1>1. PICK n \in DOMAIN ledger' :
         ledger'[n].item = doc.item /\ ledger'[n].version = rows'[doc.item].version
  BY DEF ItemRowsInv
<1>2. doc.version < ledger'[n].version
  BY <1>1
<1>3. \A b \in Nat : ReadAt(doc, b)' => b < n
  BY <1>1, <1>2, LaterEntry
<1>4. QED BY <1>1, <1>2, <1>3

\* Two members make a set of two or more.
LEMMA TwoOfMany ==
  ASSUME NEW S, IsFiniteSet(S), NEW a \in S, NEW b \in S, a # b
  PROVE Cardinality(S) >= 2
<1>1. IsFiniteSet({a}) /\ Cardinality({a}) = 1
  BY FS_Singleton
<1>2. IsFiniteSet({a} \cup {b}) /\ Cardinality({a} \cup {b}) = 2
  <2>1. PICK T : T = {a}
    OBVIOUS
  <2>2. IsFiniteSet(T) /\ Cardinality(T) = 1 /\ b \notin T
    BY <1>1, <2>1
  <2>3. IsFiniteSet(T \cup {b}) /\ Cardinality(T \cup {b}) = 1 + 1
    BY <2>2, FS_AddElement
  <2>4. QED BY <2>1, <2>3
<1>3. Cardinality({a} \cup {b}) <= Cardinality(S) /\ Cardinality(S) \in Nat
  <2>1. {a} \cup {b} \in SUBSET S
    OBVIOUS
  <2>2. QED BY <2>1, FS_Subset, FS_CardinalityType
<1>4. QED BY <1>2, <1>3

\* What is told of a settled proposal is true; and a call that goes on starts its
\* reading again.
LEMMA SettleTells ==
  ASSUME WorkItemsAssumption, ItemRowsInv', NEW c \in Callers, c \in DOMAIN call, NEW y, y = call[c],
         Shaped("commit", y)', Built(c, "commit", y)', NEW outcome, Settle(c, outcome),
         Justified(c, y, outcome)',
         y.attempt = 1 => \E b \in DOMAIN ledger' :
           /\ y.began < b /\ ledger'[b].item = y.request.item /\ ReadAt(y.proposal.content, b)'
  PROVE /\ Told'
        /\ \/ pc' = [pc EXCEPT ![c] = "idle"] /\ call' = [call EXCEPT ![c] = Nothing]
           \/ /\ pc' = [pc EXCEPT ![c] = "page"] /\ outcome = "TRANSACTION_CONFLICT"
              /\ y.attempt = 0 /\ y.kind = "progress"
              /\ call' = [call EXCEPT ![c] = Reread(y)]
<1>1. PICK doc : doc = y.proposal.content
  OBVIOUS
<1>2. /\ y.began \in Nat /\ y.attempt \in {0, 1} /\ y.began <= y.proposal.root
      /\ y.proposal.root \in Nat /\ Fields \subseteq DOMAIN y
      /\ y.kind # "list"
  BY DEF Shaped, Built
<1>3. y.kind = "progress" =>
        /\ doc \in ItemDocs /\ doc.item = y.request.item /\ ReadAt(doc, y.began)'
        /\ y.key = <<"progress", Author[c], doc.item, y.request.status, doc.version>>
  BY <1>1 DEF Built
<1>4. Expected(c) = doc
  BY <1>1 DEF Expected
<1>5. ASSUME outcome = "COMMITTED", y.kind = "handoff"
      PROVE Told' /\ pc' = [pc EXCEPT ![c] = "idle"] /\ call' = [call EXCEPT ![c] = Nothing]
  <2>1. doc.item \in DOMAIN rows'
    BY <1>1, <1>5 DEF Justified
  <2>2. Return(c, [kind |-> "handed", item |-> doc.item])
    BY <1>4, <1>5 DEF Settle, Committed
  <2>3. PICK i : i = doc.item
    OBVIOUS
  <2>4. told' = [kind |-> "handed", item |-> i]
    BY <2>2, <2>3 DEF Return
  <2>5. QED BY <2>1, <2>2, <2>3, <2>4, HandedTold DEF Return
<1>6. ASSUME outcome = "COMMITTED", y.kind = "progress"
      PROVE Told' /\ pc' = [pc EXCEPT ![c] = "idle"] /\ call' = [call EXCEPT ![c] = Nothing]
  <2>1. PICK n \in DOMAIN ledger' :
          /\ ledger'[n].item = doc.item /\ ledger'[n].version = doc.version + 1
          /\ ledger'[n].was = doc.status /\ ledger'[n].status = y.request.status
          /\ ledger'[n].author = Author[c]
    BY <1>1, <1>6 DEF Justified, MovedTo
  <2>2. doc.version \in Nat
    BY <1>3, <1>6 DEF ItemDocs
  <2>3. y.began < n
    <3>1. doc.version < ledger'[n].version
      BY <2>1, <2>2
    <3>2. PICK b : b = y.began
      OBVIOUS
    <3>3. doc \in ItemDocs /\ b \in Nat /\ ReadAt(doc, b)'
      BY <1>2, <1>3, <1>6, <3>2
    <3>4. b < n
      BY <2>1, <3>1, <3>3, LaterEntry
    <3>5. QED BY <3>2, <3>4
  <2>4. n \in y.began + 1 .. Len(ledger')
    <3>1. n \in Nat /\ n <= Len(ledger') /\ Len(ledger') \in Nat
      BY <2>1 DEF ItemRowsInv
    <3>2. QED BY <1>2, <2>3, <3>1
  <2>5. Return(c, [kind |-> "moved", author |-> Author[c], item |-> doc.item,
                   status |-> y.request.status, was |-> doc.status,
                   version |-> doc.version + 1, began |-> y.began])
    BY <1>4, <1>6 DEF Settle, Committed
  <2>6. /\ told'.kind = "moved" /\ told'.author = Author[c] /\ told'.item = doc.item
        /\ told'.status = y.request.status /\ told'.was = doc.status
        /\ told'.version = doc.version + 1 /\ told'.began = y.began
    BY <2>5 DEF Return
  <2>7. ToldIsRecorded'
    BY <2>1, <2>4, <2>6 DEF ToldIsRecorded
  <2>8. OnlyContendedRefused' /\ ListIsWhole'
    BY <2>6 DEF OnlyContendedRefused, ListIsWhole
  <2>9. QED BY <2>5, <2>7, <2>8 DEF Return, Told
\* A refusal.
<1>7. ASSUME Refused(c, outcome), outcome # "COMMITTED",
             outcome = "TRANSACTION_CONFLICT" => y.attempt = 1
      PROVE Told' /\ pc' = [pc EXCEPT ![c] = "idle"] /\ call' = [call EXCEPT ![c] = Nothing]
  <2>1. Return(c, [kind |-> "refused", code |-> outcome, item |-> doc.item,
                   key |-> y.key, number |-> y.number, began |-> y.began])
    BY <1>4, <1>7 DEF Refused
  <2>2. /\ told'.kind = "refused" /\ told'.code = outcome /\ told'.item = doc.item
        /\ told'.key = y.key /\ told'.number = y.number /\ told'.began = y.began
    BY <2>1 DEF Return
  <2>3. ASSUME outcome = "TRANSACTION_CONFLICT"
        PROVE Cardinality({n \in y.began + 1 .. Len(ledger') : ledger'[n].item = doc.item}) >= 2
    <3>1. /\ y.kind = "progress" /\ doc.item \in DOMAIN rows'
          /\ doc.version < rows'[doc.item].version
      BY <1>1, <2>3 DEF Justified
    <3>2. PICK b \in DOMAIN ledger' :
            /\ y.began < b /\ ledger'[b].item = y.request.item /\ ReadAt(y.proposal.content, b)'
      BY <1>7, <2>3
    <3>3. ReadAt(doc, b)' /\ ledger'[b].item = doc.item /\ doc \in ItemDocs
      BY <1>1, <1>3, <3>1, <3>2
    <3>4. /\ Len(ledger') \in Nat /\ DOMAIN ledger' = 1 .. Len(ledger')
      BY DEF ItemRowsInv
    <3>5. b \in Nat
      BY <3>2, <3>4
    <3>6. PICK n \in DOMAIN ledger' : ledger'[n].item = doc.item /\ b < n
      BY <3>1, <3>3, <3>5, MovedOn
    <3> DEFINE S == {m \in y.began + 1 .. Len(ledger') : ledger'[m].item = doc.item}
    <3>7. b \in y.began + 1 .. Len(ledger') /\ n \in y.began + 1 .. Len(ledger') /\ b # n
      BY <1>2, <3>2, <3>4, <3>6
    <3>8. b \in S /\ n \in S /\ S \in SUBSET (y.began + 1 .. Len(ledger'))
      BY <3>3, <3>6, <3>7
    <3>9. IsFiniteSet(y.began + 1 .. Len(ledger'))
      <4>1. y.began + 1 \in Int /\ Len(ledger') \in Int
        BY <1>2, <3>4
      <4>2. QED BY <4>1, FS_Interval
    <3> HIDE DEF S
    <3>10. IsFiniteSet(S)
      BY <3>8, <3>9, FS_Subset
    <3>11. Cardinality(S) >= 2
      BY <3>7, <3>8, <3>10, TwoOfMany
    <3>12. QED BY <3>11 DEF S
  <2>4. outcome = "IDEMPOTENCY_KEY_REUSE" => itemReceipts'[y.key].call # y.number
    BY DEF Justified
  <2>5. ASSUME outcome = "VALIDATION_ERROR"
        PROVE \E i \in Related[doc.item] : ~ \E n \in 1 .. y.began : ledger'[n].item = i
    <3>1. PICK j \in Related[doc.item] : \A n \in 1 .. y.proposal.root : ledger'[n].item # j
      BY <1>1, <2>5 DEF Justified
    <3>2. \A n \in 1 .. y.began : n \in 1 .. y.proposal.root
      BY <1>2
    <3>3. QED BY <3>1, <3>2
  <2>6. OnlyContendedRefused'
    BY <2>2, <2>3, <2>4, <2>5 DEF OnlyContendedRefused
  <2>7. ToldIsRecorded' /\ ListIsWhole'
    BY <2>2 DEF ToldIsRecorded, ListIsWhole
  <2>8. QED BY <2>1, <2>6, <2>7 DEF Return, Told
<1>8. CASE outcome = "COMMITTED"
  BY <1>5, <1>6, <1>8 DEF Justified
<1>9. CASE outcome = "TRANSACTION_CONFLICT"
  <2>1. Lost(c) /\ y.kind = "progress"
    BY <1>9 DEF Settle, Justified
  <2>2. CASE y.attempt = 0
    <3>1. /\ pc' = [pc EXCEPT ![c] = "page"] /\ told' = Nothing
          /\ call' = [call EXCEPT ![c].attempt = @ + 1, ![c].docs = <<>>, ![c].offset = 0]
      BY <2>1, <2>2 DEF Lost, MaxRebaseAttempts
    <3>2. call' = [call EXCEPT ![c] = Reread(y)]
      <4>1. call' = [call EXCEPT ![c] = [y EXCEPT !.attempt = @ + 1, !.docs = <<>>, !.offset = 0]]
        BY <3>1
      <4>2. y.attempt + 1 = 1
        BY <2>2
      <4>3. QED BY <4>1, <4>2 DEF Reread
    <3>3. QED BY <1>9, <2>1, <2>2, <3>1, <3>2, NothingTold
  <2>3. CASE y.attempt = 1
    <3>1. Refused(c, outcome)
      BY <1>9, <2>1, <2>3 DEF Lost, MaxRebaseAttempts
    <3>2. QED BY <1>7, <1>9, <2>3, <3>1
  <2>4. QED BY <1>2, <2>2, <2>3
<1>10. CASE outcome \notin {"COMMITTED", "TRANSACTION_CONFLICT"}
  <2>1. Refused(c, outcome)
    BY <1>10 DEF Settle
  <2>2. QED BY <1>7, <1>10, <2>1
<1>11. QED BY <1>8, <1>9, <1>10

\* A call that lost reads again: the entry that came between is there, and the
\* key it used is of an earlier version.
LEMMA RereadKnows ==
  ASSUME WorkItemsAssumption, ItemRowsInv', NEW c \in Callers, NEW y,
         Shaped("commit", y)', Built(c, "commit", y)',
         y.attempt = 0, y.kind = "progress", Justified(c, y, "TRANSACTION_CONFLICT")',
         \A k \in DOMAIN itemReceipts' : itemReceipts'[k].call = y.number => k = y.key,
         NEW x, x = Reread(y)
  PROVE Knows(c, "page", x)'
<1>1. PICK doc : doc = y.proposal.content
  OBVIOUS
<1>2. /\ y.began \in Nat /\ y.began <= Len(ledger') /\ Fields \subseteq DOMAIN y
      /\ y.request \in Requests /\ y.kind = y.request.kind /\ y.number \in Nat /\ y.number <= itemCalls'
  BY DEF Shaped
<1>3. /\ doc \in ItemDocs /\ doc.item = y.request.item /\ ReadAt(doc, y.began)'
      /\ y.key = <<"progress", Author[c], doc.item, y.request.status, doc.version>>
  BY <1>1 DEF Built
<1>4. doc.item \in DOMAIN rows' /\ doc.version < rows'[doc.item].version
  BY <1>1 DEF Justified
<1>5. /\ x.kind = y.kind /\ x.request = y.request /\ x.number = y.number /\ x.began = y.began
      /\ x.attempt = 1 /\ x.docs = <<>> /\ x.offset = 0 /\ DOMAIN x = DOMAIN y
  BY <1>2 DEF Fields, Reread
<1>6. /\ Len(ledger') \in Nat /\ DOMAIN ledger' = 1 .. Len(ledger') /\ DOMAIN rows' \subseteq Items
      /\ ledger' \in Seq(ItemEntries)
  BY DEF ItemRowsInv
<1>7. /\ Cardinality(DOMAIN rows)' \in Nat
      /\ \A i \in DOMAIN rows' : Rank(i)' \in Nat /\ 0 < Rank(i)'
  BY <1>6, LaterRank
<1>8. PICK b \in DOMAIN ledger' :
        /\ ledger'[b].item = doc.item /\ doc.version < ledger'[b].version
        /\ \A n \in Nat : ReadAt(doc, n)' => n < b
  BY <1>3, <1>4, MovedOn
<1>9. Shaped("page", x)'
  <2>1. Fields \subseteq DOMAIN x /\ x.request \in Requests /\ x.kind = x.request.kind
    BY <1>2, <1>5
  <2>2. x.docs \in Seq(ItemDocs)
    BY <1>5
  <2>3. x.offset \in Nat /\ x.offset <= Cardinality(DOMAIN rows)'
    BY <1>5, <1>7
  <2>4. x.attempt \in {0, 1} /\ x.kind = "progress"
    BY <1>5
  <2>5. x.number \in Nat /\ x.number <= itemCalls' /\ x.began \in Nat /\ x.began <= Len(ledger')
    BY <1>2, <1>5
  <2>6. QED BY <2>1, <2>2, <2>3, <2>4, <2>5 DEF Shaped
<1>10. Honest(x)'
  BY <1>5 DEF Honest
<1>11. Scanned("page", x)'
  <2>1. ASSUME NEW n \in 1 .. x.began PROVE x.offset < Rank(ledger[n].item)'
    <3>1. n \in DOMAIN ledger'
      BY <1>2, <1>5, <1>6
    <3>2. PICK i : i = ledger'[n].item
      OBVIOUS
    <3>3. i \in DOMAIN rows'
      BY <3>1, <3>2 DEF ItemRowsInv
    <3>4. Rank(ledger[n].item)' = Rank(i)'
      BY <3>2 DEF Rank
    <3>5. QED BY <1>5, <1>7, <3>3, <3>4
  <2>2. QED BY <2>1 DEF Scanned
<1>12. Built(c, "page", x)'
  BY DEF Built
<1>13. Attempted(c, "page", x)'
  <2>1. x.began < b
    <3>1. PICK n : n = y.began
      OBVIOUS
    <3>2. n \in Nat /\ ReadAt(doc, n)'
      BY <1>2, <1>3, <3>1
    <3>3. QED BY <1>5, <1>8, <3>1, <3>2
  <2>2. ASSUME NEW k \in DOMAIN itemReceipts', itemReceipts'[k].call = x.number
        PROVE \E v \in Nat : /\ k = <<"progress", Author[c], x.request.item, x.request.status, v>>
                             /\ v < ledger'[b].version
    <3>1. k = <<"progress", Author[c], doc.item, y.request.status, doc.version>>
      BY <1>3, <1>5, <2>2
    <3>2. doc.version \in Nat
      BY <1>3 DEF ItemDocs
    <3>3. QED BY <1>3, <1>5, <1>8, <3>1, <3>2
  <2>3. Rebased(c, "page", x, b)'
    BY <1>3, <1>5, <1>8, <2>1, <2>2 DEF Rebased
  <2>4. QED BY <1>5, <1>8, <2>3 DEF Attempted
<1>14. QED BY <1>9, <1>10, <1>11, <1>12, <1>13 DEF Knows

LEMMA KeysDiffer == \A i, a, j, s, v : <<"handoff", i>> # <<"progress", a, j, s, v>>
<1> SUFFICES ASSUME NEW i, NEW a, NEW j, NEW s, NEW v, NEW k,
                    k = <<"handoff", i>>, k = <<"progress", a, j, s, v>>
             PROVE FALSE
  OBVIOUS
<1>1. k[1] = "handoff"
  OBVIOUS
<1>2. k[1] = "progress"
  OBVIOUS
<1>3. QED BY <1>1, <1>2

\* What each kind of request asks.
LEMMA RequestKinds ==
  ASSUME NEW request \in Requests
  PROVE /\ request.kind \in {"list", "handoff", "progress"}
        /\ request.kind # "list" => request.item \in Items
        /\ request.kind = "handoff" => request.item \notin Outside
        /\ request.kind = "progress" => request.status \in Wanted
BY DEF Requests

\* The outcome of a receipt that is there already.
LEMMA AgainKnows ==
  ASSUME WorkItemsAssumption, HelpersInv, NEW c \in Callers, CommitAgain(c)
  PROVE HelpersInv' /\ Told'
<1>1. PICK y : y = call[c]
  OBVIOUS
<1>2. /\ pc[c] = "commit" /\ Active(c) /\ UNCHANGED <<workspace, bounds>>
      /\ y.key \in DOMAIN itemReceipts
  BY <1>1 DEF CommitAgain, Active, Used
<1>3. PICK sameSecond \in BOOLEAN :
        Settle(c, IF sameSecond /\ itemReceipts[call[c].key].proposal = call[c].proposal
                  THEN itemReceipts[call[c].key].outcome ELSE "IDEMPOTENCY_KEY_REUSE")
  BY DEF CommitAgain
<1>4. PICK outcome :
        outcome = IF sameSecond /\ itemReceipts[call[c].key].proposal = call[c].proposal
                  THEN itemReceipts[call[c].key].outcome ELSE "IDEMPOTENCY_KEY_REUSE"
  OBVIOUS
<1>5. Settle(c, outcome)
  BY <1>3, <1>4
<1>6. /\ ItemRowsInv /\ ReceiptsInv /\ HelpersCallsInv /\ c \in DOMAIN call
      /\ Knows(c, "commit", y)
  BY <1>1, <1>2, ActiveKnows
<1>7. rows' = rows /\ ledger' = ledger /\ itemReceipts' = itemReceipts /\ itemCalls' = itemCalls /\ itemCalls \in Nat
  BY <1>2, <1>6 DEF workspace, bounds, ReceiptsInv
<1>8. Extends /\ ItemRowsInv'
  BY <1>6, <1>7, SameExtends
<1>9. /\ Shaped("commit", y)' /\ Honest(y)' /\ Scanned("commit", y)' /\ Built(c, "commit", y)'
      /\ Attempted(c, "commit", y)'
  BY <1>6, <1>7, <1>8, KnowsStays DEF Knows
<1>10. PICK doc : doc = y.proposal.content
  OBVIOUS
<1>11. /\ y.kind = "handoff" =>
            y.key = <<"handoff", y.request.item>> /\ doc = [item |-> y.request.item]
       /\ y.kind = "progress" =>
            /\ doc \in ItemDocs /\ doc.item = y.request.item
            /\ y.key = <<"progress", Author[c], doc.item, y.request.status, doc.version>>
       /\ y.kind \in {"handoff", "progress"}
       /\ y.attempt \in {0, 1} /\ (y.attempt = 1 => y.kind = "progress")
  <2>1. Built(c, "commit", y) /\ Shaped("commit", y)
    BY <1>6 DEF Knows
  <2>2. y.kind \in {"list", "handoff", "progress"}
    BY <2>1, RequestKinds DEF Shaped
  <2>3. /\ y.kind = "handoff" =>
             y.key = <<"handoff", y.request.item>> /\ doc = [item |-> y.request.item]
        /\ y.kind = "progress" =>
             /\ doc \in ItemDocs /\ doc.item = y.request.item
             /\ y.key = <<"progress", Author[c], doc.item, y.request.status, doc.version>>
        /\ y.kind # "list"
    BY <1>10, <2>1 DEF Built
  <2>4. QED BY <2>1, <2>2, <2>3 DEF Shaped
<1>12. Justified(c, y, outcome)'
  <2>1. CASE outcome = "IDEMPOTENCY_KEY_REUSE"
    <3>1. itemReceipts[y.key].call # y.number
      <4> SUFFICES ASSUME itemReceipts[y.key].call = y.number PROVE FALSE
        OBVIOUS
      <4>1. y.attempt = 1
        BY <1>2, <1>6, <1>11 DEF Knows, Attempted
      <4>2. PICK b \in DOMAIN ledger : Rebased(c, "commit", y, b)
        BY <1>6, <4>1 DEF Knows, Attempted
      <4>3. PICK v \in Nat :
              /\ y.key = <<"progress", Author[c], y.request.item, y.request.status, v>>
              /\ v < ledger[b].version
        BY <1>2, <4>2 DEF Rebased
      <4>4. v = doc.version /\ doc.item = y.request.item /\ doc \in ItemDocs
        BY <1>11, <4>1, <4>3
      <4>5. ReadAt(doc, b)' /\ ledger'[b].item = doc.item
        <5>1. ReadAt(doc, b) /\ ledger[b].item = doc.item
          BY <1>10, <4>2, <4>4 DEF Rebased
        <5>2. QED BY <1>7, <5>1 DEF ReadAt, Matches
      <4>6. b \in Nat /\ b \in DOMAIN ledger' /\ doc.version < ledger'[b].version
        BY <1>6, <1>7, <4>3, <4>4 DEF ItemRowsInv
      <4>7. b < b
        BY <1>8, <4>4, <4>5, <4>6, LaterEntry
      <4>8. QED BY <4>6, <4>7
    <3>2. QED BY <1>7, <2>1, <3>1 DEF Justified
  <2>2. CASE outcome # "IDEMPOTENCY_KEY_REUSE"
    <3>1. PICK r : r = itemReceipts[y.key]
      OBVIOUS
    <3>2. r.proposal = y.proposal /\ outcome = r.outcome
      BY <1>1, <1>4, <2>2, <3>1
    <3>3. HandoffTold(y.key, r) \/ ProgressTold(y.key, r)
      BY <1>2, <1>6, <3>1 DEF ReceiptsInv
    <3>4. CASE y.kind = "handoff"
      <4>1. ~ProgressTold(y.key, r)
        BY <1>11, <3>4, KeysDiffer DEF ProgressTold
      <4>2. PICK i \in Items :
              /\ y.key = <<"handoff", i>>
              /\ r.outcome \in {"COMMITTED", "VALIDATION_ERROR"}
              /\ r.outcome = "COMMITTED" => i \in DOMAIN rows
              /\ r.outcome = "VALIDATION_ERROR" =>
                   \E j \in Related[i] : \A n \in 1 .. r.proposal.root : ledger[n].item # j
        BY <3>3, <4>1 DEF HandoffTold
      <4>3. i = y.request.item /\ doc.item = i
        BY <1>11, <3>4, <4>2
      <4>4. CASE r.outcome = "COMMITTED"
        BY <1>7, <1>10, <3>2, <3>4, <4>2, <4>3, <4>4 DEF Justified
      <4>5. CASE r.outcome = "VALIDATION_ERROR"
        BY <1>7, <1>10, <3>2, <3>4, <4>2, <4>3, <4>5 DEF Justified
      <4>6. QED BY <4>2, <4>4, <4>5
    <3>5. CASE y.kind = "progress"
      <4>1. ~HandoffTold(y.key, r)
        <5>1. \A i : y.key # <<"handoff", i>>
          BY <1>11, <3>5, KeysDiffer
        <5>2. QED BY <5>1 DEF HandoffTold
      <4>2. PICK author \in {Author[d] : d \in Callers}, d \in ItemDocs, status \in Wanted :
              /\ y.key = <<"progress", author, d.item, status, d.version>> /\ r.proposal.content = d
              /\ d.item \in DOMAIN rows
              /\ r.outcome \in {"COMMITTED", "TRANSACTION_CONFLICT"}
              /\ r.outcome = "COMMITTED" => MovedTo(author, d, status)
              /\ r.outcome = "TRANSACTION_CONFLICT" => d.version < rows[d.item].version
        BY <3>3, <4>1 DEF ProgressTold
      <4>3. d = doc /\ author = Author[c] /\ status = y.request.status
        BY <1>10, <1>11, <3>2, <3>5, <4>2
      <4>4. CASE r.outcome = "COMMITTED"
        <5>1. MovedTo(Author[c], doc, y.request.status)
          BY <4>2, <4>3, <4>4
        <5>2. MovedTo(Author[c], doc, y.request.status)'
          BY <1>7, <5>1 DEF MovedTo
        <5>3. QED BY <1>10, <3>2, <3>5, <4>4, <5>2 DEF Justified
      <4>5. CASE r.outcome = "TRANSACTION_CONFLICT"
        BY <1>7, <1>10, <3>2, <3>5, <4>2, <4>3, <4>5 DEF Justified
      <4>6. QED BY <4>2, <4>4, <4>5
    <3>6. QED BY <1>11, <3>4, <3>5
  <2>3. QED BY <2>1, <2>2
<1>13. y.attempt = 1 => \E b \in DOMAIN ledger' :
         /\ y.began < b /\ ledger'[b].item = y.request.item /\ ReadAt(y.proposal.content, b)'
  <2> SUFFICES ASSUME y.attempt = 1
               PROVE \E b \in DOMAIN ledger' :
         /\ y.began < b /\ ledger'[b].item = y.request.item /\ ReadAt(y.proposal.content, b)'
    OBVIOUS
  <2>1. PICK b \in DOMAIN ledger' : Rebased(c, "commit", y, b)'
    BY <1>9 DEF Attempted
  <2>2. QED BY <2>1 DEF Rebased
<1>14. /\ Told'
       /\ \/ pc' = [pc EXCEPT ![c] = "idle"] /\ call' = [call EXCEPT ![c] = Nothing]
          \/ /\ pc' = [pc EXCEPT ![c] = "page"] /\ outcome = "TRANSACTION_CONFLICT"
             /\ y.attempt = 0 /\ y.kind = "progress"
             /\ call' = [call EXCEPT ![c] = Reread(y)]
  BY <1>1, <1>5, <1>6, <1>8, <1>9, <1>12, <1>13, SettleTells
<1>15. ReceiptsInv'
  BY <1>6, <1>7, <1>8, ReceiptsStay
<1>16. HelpersCallsInv'
  <2>1. \A d \in Callers : d # c /\ Active(d) => call[d].number # y.number
    BY <1>1, <1>2, <1>6 DEF HelpersCallsInv, Active
  <2>2. CASE pc' = [pc EXCEPT ![c] = "idle"] /\ call' = [call EXCEPT ![c] = Nothing]
    <3>1. PICK l, x : l = "idle" /\ x = Nothing
      OBVIOUS
    <3>2. l \in HelperLabels /\ pc' = [pc EXCEPT ![c] = l] /\ call' = [call EXCEPT ![c] = x]
      BY <2>2, <3>1 DEF HelperLabels
    <3>3. QED BY <1>6, <1>7, <1>8, <3>1, <3>2, CallMoves
  <2>3. CASE /\ pc' = [pc EXCEPT ![c] = "page"] /\ outcome = "TRANSACTION_CONFLICT"
             /\ y.attempt = 0 /\ y.kind = "progress"
             /\ call' = [call EXCEPT ![c] = Reread(y)]
    <3>1. PICK l, x : l = "page" /\ x = Reread(y)
      OBVIOUS
    <3>2. \A k \in DOMAIN itemReceipts' : itemReceipts'[k].call = y.number => k = y.key
      BY <1>6, <1>7, <2>3 DEF Knows, Attempted
    <3>3. Knows(c, l, x)'
      BY <1>8, <1>9, <1>12, <2>3, <3>1, <3>2, RereadKnows
    <3>4. "number" \in DOMAIN y
      BY <1>6 DEF Knows, Shaped, Fields
    <3>5. x.number = y.number
      BY <3>1, <3>4 DEF Reread
    <3>6. l \in HelperLabels /\ pc' = [pc EXCEPT ![c] = l] /\ call' = [call EXCEPT ![c] = x]
      BY <2>3, <3>1 DEF HelperLabels
    <3>7. QED BY <1>6, <1>7, <1>8, <2>1, <3>3, <3>5, <3>6, CallMoves
  <2>4. QED BY <1>14, <2>2, <2>3
<1>17. QED BY <1>8, <1>14, <1>15, <1>16 DEF HelpersInv

\* The first receipt of a key.
LEMMA CommitKnows ==
  ASSUME WorkItemsAssumption, HelpersInv, NEW c \in Callers, Commit(c)
  PROVE HelpersInv' /\ Told'
<1>1. PICK y : y = call[c]
  OBVIOUS
<1>2. PICK outcome : outcome = Verdict(c)
  OBVIOUS
<1>3. /\ pc[c] = "commit" /\ Active(c) /\ y.key \notin DOMAIN itemReceipts /\ Settle(c, outcome)
      /\ itemReceipts' = Put(itemReceipts, y.key,
           [proposal |-> y.proposal, outcome |-> outcome, call |-> y.number])
      /\ itemCalls' = itemCalls
      /\ IF outcome = "COMMITTED"
         THEN Enter(Expected(c).item,
                    IF y.kind = "handoff" THEN "TODO" ELSE y.request.status, Author[c], y.number)
         ELSE UNCHANGED <<rows, ledger>>
  BY <1>1, <1>2 DEF Commit, Active, Used, bounds
<1>4. /\ ItemRowsInv /\ ReceiptsInv /\ HelpersCallsInv /\ c \in DOMAIN call
      /\ Knows(c, "commit", y) /\ itemCalls \in Nat
  BY <1>1, <1>3, ActiveKnows DEF ReceiptsInv
<1>5. PICK doc : doc = y.proposal.content
  OBVIOUS
<1>6. Built(c, "commit", y) /\ Shaped("commit", y)
  BY <1>4 DEF Knows
<1>7. /\ y.request \in Requests /\ y.kind = y.request.kind
      /\ y.kind \in {"handoff", "progress"}
      /\ y.attempt \in {0, 1} /\ (y.attempt = 1 => y.kind = "progress")
      /\ y.number \in Nat /\ y.number <= itemCalls
      /\ y.request.item \in Items
      /\ y.kind = "handoff" => y.request.item \notin Outside
      /\ y.kind = "progress" => y.request.status \in Wanted
  <2>1. y.kind # "list"
    BY <1>6 DEF Built
  <2>2. QED BY <1>6, <2>1, RequestKinds DEF Shaped
<1>8. /\ y.proposal.root \in Nat /\ y.began <= y.proposal.root /\ y.proposal.root <= Len(ledger)
      /\ y.kind = "handoff" =>
           y.key = <<"handoff", y.request.item>> /\ doc = [item |-> y.request.item]
      /\ y.kind = "progress" =>
           /\ doc \in ItemDocs /\ doc.item = y.request.item /\ ReadAt(doc, y.began)
           /\ y.key = <<"progress", Author[c], doc.item, y.request.status, doc.version>>
  BY <1>5, <1>6 DEF Built
<1>9. Expected(c) = doc /\ doc.item = y.request.item /\ doc.item \in Items
  BY <1>1, <1>5, <1>7, <1>8 DEF Expected
<1>10. outcome = IF y.kind = "handoff"
                 THEN IF Related[doc.item] \subseteq DOMAIN rows /\ doc.item \notin DOMAIN rows
                      THEN "COMMITTED" ELSE "VALIDATION_ERROR"
                 ELSE IF AsRead(c) THEN "COMMITTED" ELSE "TRANSACTION_CONFLICT"
  BY <1>1, <1>2, <1>9 DEF Verdict
<1>11. PICK status : status = IF y.kind = "handoff" THEN "TODO" ELSE y.request.status
  OBVIOUS
<1>12. status \in ItemStatuses /\ Author[c] \in {Other} \cup {Author[d] : d \in Callers}
  BY <1>7, <1>11 DEF ItemStatuses
\* What the step does to the tables.
<1>13. /\ ItemRowsInv' /\ Extends
       /\ outcome = "COMMITTED" =>
            /\ DOMAIN rows' = DOMAIN rows \cup {doc.item}
            /\ LET n == Len(ledger) + 1
               IN /\ n \in DOMAIN ledger' /\ ledger'[n].item = doc.item
                  /\ ledger'[n].status = status /\ ledger'[n].author = Author[c]
                  /\ doc.item \in DOMAIN rows =>
                       /\ ledger'[n].version = rows[doc.item].version + 1
                       /\ ledger'[n].was = rows[doc.item].status
       /\ outcome # "COMMITTED" => rows' = rows /\ ledger' = ledger
  <2>1. CASE outcome = "COMMITTED"
    <3>1. PICK i, author, number : i = doc.item /\ author = Author[c] /\ number = y.number
      OBVIOUS
    <3>2. Enter(i, status, author, number)
      BY <1>3, <1>9, <1>11, <2>1, <3>1
    <3>3. /\ i \in Items /\ number \in Nat
          /\ author \in {Other} \cup {Author[d] : d \in Callers}
      BY <1>7, <1>9, <1>12, <3>1
    <3>4. /\ ItemRowsInv' /\ Extends
          /\ DOMAIN rows' = DOMAIN rows \cup {i}
          /\ LET n == Len(ledger) + 1
             IN /\ n \in DOMAIN ledger' /\ ledger'[n].item = i
                /\ ledger'[n].status = status /\ ledger'[n].author = author
                /\ i \in DOMAIN rows =>
                     /\ ledger'[n].version = rows[i].version + 1
                     /\ ledger'[n].was = rows[i].status
      BY <1>3, <1>4, <1>12, <3>2, <3>3, EnterExtends
    <3>5. QED BY <2>1, <3>1, <3>4
  <2>2. CASE outcome # "COMMITTED"
    <3>1. UNCHANGED <<rows, ledger>> /\ itemCalls' \in Nat /\ itemCalls <= itemCalls'
      BY <1>3, <1>4, <2>2
    <3>2. QED BY <1>4, <2>2, <3>1, SameExtends
  <2>3. QED BY <2>1, <2>2
<1>14. /\ DOMAIN itemReceipts' = DOMAIN itemReceipts \cup {y.key}
       /\ itemReceipts'[y.key].proposal = y.proposal /\ itemReceipts'[y.key].outcome = outcome
       /\ itemReceipts'[y.key].call = y.number
       /\ \A k \in DOMAIN itemReceipts : itemReceipts'[k] = itemReceipts[k]
  BY <1>3 DEF Put
\* What it decides.
<1>15. Justified(c, y, outcome)'
  <2>1. CASE y.kind = "handoff" /\ outcome = "COMMITTED"
    BY <1>5, <1>13, <2>1 DEF Justified
  <2>2. CASE y.kind = "handoff" /\ outcome # "COMMITTED"
    <3>1. doc.item \notin DOMAIN rows
      <4>1. doc.item \in DOMAIN rows => <<"handoff", doc.item>> \in DOMAIN itemReceipts
        BY <1>4, <1>7, <1>9, <2>2 DEF ReceiptsInv
      <4>2. QED BY <1>3, <1>8, <1>9, <2>2, <4>1
    <3>2. outcome = "VALIDATION_ERROR" /\ ~(Related[doc.item] \subseteq DOMAIN rows)
      BY <1>10, <2>2, <3>1
    <3>3. PICK j \in Related[doc.item] : j \notin DOMAIN rows
      BY <3>2
    <3>4. \A n \in DOMAIN ledger : ledger[n].item # j
      BY <1>4, <3>3 DEF ItemRowsInv
    <3>5. \A n \in 1 .. y.proposal.root : n \in DOMAIN ledger
      BY <1>8, <1>13 DEF Extends
    <3>6. \A n \in 1 .. y.proposal.root : ledger'[n].item # j
      BY <1>13, <2>2, <3>4, <3>5
    <3>7. QED BY <1>5, <2>2, <3>2, <3>3, <3>6 DEF Justified
  <2>3. CASE y.kind = "progress" /\ outcome = "COMMITTED"
    <3>1. AsRead(c)
      BY <1>10, <2>3
    <3>2. doc.item \in DOMAIN rows /\ rows[doc.item] = [status |-> doc.status, version |-> doc.version]
      BY <1>9, <3>1 DEF AsRead
    <3>3. rows[doc.item].status = doc.status /\ rows[doc.item].version = doc.version
      BY <3>2
    <3>4. status = y.request.status
      BY <1>11, <2>3
    <3>5. \E n \in DOMAIN ledger' :
            /\ ledger'[n].item = doc.item /\ ledger'[n].version = doc.version + 1
            /\ ledger'[n].was = doc.status /\ ledger'[n].status = y.request.status
            /\ ledger'[n].author = Author[c]
      BY <1>13, <2>3, <3>2, <3>3, <3>4
    <3>6. MovedTo(Author[c], doc, y.request.status)'
      BY <3>5 DEF MovedTo
    <3>7. QED BY <1>5, <2>3, <3>6 DEF Justified
  <2>4. CASE y.kind = "progress" /\ outcome # "COMMITTED"
    <3>1. outcome = "TRANSACTION_CONFLICT" /\ ~AsRead(c)
      BY <1>10, <2>4
    <3>2. doc \in ItemDocs /\ ReadAt(doc, y.began)
      BY <1>8, <2>4
    <3>3. doc.item \in DOMAIN rows
      BY <1>4, <3>2, ReadIsThere
    <3>4. PICK n \in DOMAIN ledger : Matches(ledger[n], doc)
      BY <3>2 DEF ReadAt
    <3>5. PICK k \in DOMAIN ledger :
            /\ ledger[k].item = doc.item /\ ledger[k].version = rows[doc.item].version
            /\ ledger[k].status = rows[doc.item].status
      BY <1>4, <3>3 DEF ItemRowsInv
    <3>6. ledger[n].item = doc.item /\ ledger[n].version = doc.version /\ ledger[n].status = doc.status
      BY <3>4 DEF Matches
    <3>7. doc.version <= rows[doc.item].version
      BY <1>4, <3>4, <3>6 DEF ItemRowsInv
    <3>8. rows[doc.item] \in ItemRows
      BY <1>4, <3>3 DEF ItemRowsInv
    <3>9. ASSUME doc.version = rows[doc.item].version PROVE FALSE
      <4>1. n = k
        <5>1. n \in Nat /\ k \in Nat /\ doc.version \in Nat
          <6>1. DOMAIN ledger \subseteq Nat
            BY <1>4 DEF ItemRowsInv
          <6>2. doc.version \in Nat
            BY <3>2 DEF ItemDocs
          <6> QED BY <3>4, <3>5, <6>1, <6>2
        <5>2. ~(n < k) /\ ~(k < n)
          <6>1. n < k => ledger[n].version < ledger[k].version
            BY <1>4, <3>5, <3>6 DEF ItemRowsInv
          <6>2. k < n => ledger[k].version < ledger[n].version
            BY <1>4, <3>5, <3>6 DEF ItemRowsInv
          <6>3. QED BY <3>5, <3>6, <3>9, <5>1, <6>1, <6>2
        <5>3. QED BY <5>1, <5>2
      <4>2. rows[doc.item].status = doc.status
        BY <3>5, <3>6, <4>1
      <4>3. rows[doc.item] = [status |-> doc.status, version |-> doc.version]
        BY <3>8, <3>9, <4>2 DEF ItemRows
      <4>4. QED BY <1>9, <3>1, <3>3, <4>3 DEF AsRead
    <3>10. doc.version < rows[doc.item].version
      <4>1. doc.version \in Nat /\ rows[doc.item].version \in Nat
        BY <3>2, <3>8 DEF ItemDocs, ItemRows
      <4>2. QED BY <3>7, <3>9, <4>1
    <3>11. QED BY <1>5, <1>13, <2>4, <3>1, <3>3, <3>10 DEF Justified
  <2>5. QED BY <1>7, <2>1, <2>2, <2>3, <2>4
\* What the call knows, and is told.
<1>16. /\ Shaped("commit", y)' /\ Built(c, "commit", y)'
  BY <1>4, <1>13, ReadingStays DEF Knows
<1>17. y.attempt = 1 => \E b \in DOMAIN ledger' :
         /\ y.began < b /\ ledger'[b].item = y.request.item /\ ReadAt(y.proposal.content, b)'
  <2> SUFFICES ASSUME y.attempt = 1
               PROVE \E b \in DOMAIN ledger' :
         /\ y.began < b /\ ledger'[b].item = y.request.item /\ ReadAt(y.proposal.content, b)'
    OBVIOUS
  <2>1. PICK b \in DOMAIN ledger : Rebased(c, "commit", y, b)
    BY <1>4 DEF Knows, Attempted
  <2>2. y.began < b /\ ledger[b].item = y.request.item /\ ReadAt(doc, b)
    BY <1>5, <2>1 DEF Rebased
  <2>3. b \in DOMAIN ledger' /\ ledger'[b] = ledger[b] /\ b \in Nat /\ b <= Len(ledger)
    BY <1>13 DEF Extends
  <2>4. ReadAt(doc, b)'
    BY <1>13, <2>2, <2>3, ReadStays
  <2>5. QED BY <1>5, <2>2, <2>3, <2>4
<1>18. /\ Told'
       /\ \/ pc' = [pc EXCEPT ![c] = "idle"] /\ call' = [call EXCEPT ![c] = Nothing]
          \/ /\ pc' = [pc EXCEPT ![c] = "page"] /\ outcome = "TRANSACTION_CONFLICT"
             /\ y.attempt = 0 /\ y.kind = "progress"
             /\ call' = [call EXCEPT ![c] = Reread(y)]
  BY <1>1, <1>3, <1>4, <1>13, <1>15, <1>16, <1>17, SettleTells
\* What the new receipt says.
<1>19. HandoffTold(y.key, itemReceipts[y.key])' \/ ProgressTold(y.key, itemReceipts[y.key])'
  <2>1. PICK r : r = itemReceipts'[y.key]
    OBVIOUS
  <2>2. r.proposal = y.proposal /\ r.outcome = outcome
    BY <1>14, <2>1
  <2>3. CASE y.kind = "handoff"
    <3>1. /\ outcome \in {"COMMITTED", "VALIDATION_ERROR"}
          /\ outcome = "COMMITTED" => doc.item \in DOMAIN rows'
          /\ outcome = "VALIDATION_ERROR" =>
               \E j \in Related[doc.item] : \A n \in 1 .. y.proposal.root : ledger'[n].item # j
      BY <1>5, <1>10, <1>15, <2>3 DEF Justified
    <3>2. HandoffTold(y.key, r)'
      BY <1>5, <1>8, <1>9, <2>2, <2>3, <3>1 DEF HandoffTold
    <3>3. QED BY <2>1, <3>2
  <2>4. CASE y.kind = "progress"
    <3>1. /\ outcome \in {"COMMITTED", "TRANSACTION_CONFLICT"}
          /\ outcome = "COMMITTED" => MovedTo(Author[c], doc, y.request.status)'
          /\ outcome = "TRANSACTION_CONFLICT" => doc.version < rows'[doc.item].version
      BY <1>5, <1>10, <1>15, <2>4 DEF Justified
    <3>2. doc \in ItemDocs /\ doc.item \in DOMAIN rows'
      <4>1. doc \in ItemDocs /\ ReadAt(doc, y.began)
        BY <1>8, <2>4
      <4>2. doc.item \in DOMAIN rows
        BY <1>4, <4>1, ReadIsThere
      <4>3. QED BY <1>13, <4>1, <4>2 DEF Extends
    <3>3. PICK author \in {Author[d] : d \in Callers}, wanted \in Wanted :
            author = Author[c] /\ wanted = y.request.status
      BY <1>7, <2>4
    <3>4. y.key = <<"progress", author, doc.item, wanted, doc.version>>
      BY <1>8, <2>4, <3>3
    <3>5. ProgressTold(y.key, r)'
      BY <1>5, <2>2, <3>1, <3>2, <3>3, <3>4 DEF ProgressTold
    <3>6. QED BY <2>1, <3>5
  <2>5. QED BY <1>7, <2>3, <2>4
<1>20. ReceiptsInv'
  <2>1. ASSUME NEW k \in DOMAIN itemReceipts
        PROVE /\ itemReceipts[k].call \in Nat /\ itemReceipts[k].call <= itemCalls
              /\ itemReceipts[k].proposal.root \in Nat /\ itemReceipts[k].proposal.root <= Len(ledger')
              /\ HandoffTold(k, itemReceipts[k])' \/ ProgressTold(k, itemReceipts[k])'
    <3>1. PICK r : r = itemReceipts[k]
      OBVIOUS
    <3>2. /\ r.call \in Nat /\ r.call <= itemCalls
          /\ r.proposal.root \in Nat /\ r.proposal.root <= Len(ledger)
          /\ HandoffTold(k, r) \/ ProgressTold(k, r)
      BY <1>4, <3>1 DEF ReceiptsInv
    <3>3. HandoffTold(k, r)' \/ ProgressTold(k, r)'
      BY <1>13, <3>2, ReceiptStays
    <3>4. itemReceipts'[k] = r
      BY <1>14, <3>1
    <3>5. r.proposal.root <= Len(ledger')
      BY <1>13, <3>2 DEF Extends
    <3>6. QED BY <3>1, <3>2, <3>3, <3>4, <3>5
  <2>2. y.proposal.root <= Len(ledger')
    BY <1>8, <1>13 DEF Extends
  <2>3. ASSUME NEW k \in DOMAIN itemReceipts'
        PROVE /\ itemReceipts'[k].call \in Nat /\ itemReceipts'[k].call <= itemCalls
              /\ itemReceipts'[k].proposal.root \in Nat /\ itemReceipts'[k].proposal.root <= Len(ledger')
              /\ HandoffTold(k, itemReceipts[k])' \/ ProgressTold(k, itemReceipts[k])'
    <3>1. CASE k \in DOMAIN itemReceipts
      BY <1>14, <2>1, <3>1
    <3>2. CASE k = y.key
      BY <1>7, <1>8, <1>14, <1>19, <2>2, <3>2
    <3>3. QED BY <1>14, <3>1, <3>2
  <2>4. ASSUME NEW i \in DOMAIN rows' \ Outside PROVE <<"handoff", i>> \in DOMAIN itemReceipts'
    <3>1. CASE i \in DOMAIN rows
      BY <1>4, <1>14, <2>4, <3>1 DEF ReceiptsInv
    <3>2. CASE i \notin DOMAIN rows
      <4>1. outcome = "COMMITTED" /\ i = doc.item
        BY <1>13, <2>4, <3>2
      <4>2. y.kind = "handoff"
        <5> SUFFICES ASSUME y.kind = "progress" PROVE FALSE
          BY <1>7
        <5>1. ReadAt(doc, y.began)
          BY <1>8
        <5>2. QED BY <1>4, <3>2, <4>1, <5>1, ReadIsThere
      <4>3. QED BY <1>8, <1>9, <1>14, <4>1, <4>2
    <3>3. QED BY <3>1, <3>2
  <2>5. QED BY <1>3, <1>4, <2>3, <2>4 DEF ReceiptsInv
\* The calls.
<1>21. \A d \in Callers : d # c /\ Active(d) => call[d].number # y.number
  BY <1>1, <1>3, <1>4 DEF HelpersCallsInv, Active
<1>22. \A k \in DOMAIN itemReceipts' :
         \/ k \in DOMAIN itemReceipts /\ itemReceipts'[k].call = itemReceipts[k].call
         \/ \A d \in Callers : d # c /\ Active(d) => call[d].number # itemReceipts'[k].call
  BY <1>14, <1>21
<1>23. HelpersCallsInv'
  <2>1. CASE pc' = [pc EXCEPT ![c] = "idle"] /\ call' = [call EXCEPT ![c] = Nothing]
    <3>1. PICK l, x : l = "idle" /\ x = Nothing
      OBVIOUS
    <3>2. l \in HelperLabels /\ pc' = [pc EXCEPT ![c] = l] /\ call' = [call EXCEPT ![c] = x]
      BY <2>1, <3>1 DEF HelperLabels
    <3>3. QED BY <1>4, <1>13, <1>22, <3>1, <3>2, CallMoves
  <2>2. CASE /\ pc' = [pc EXCEPT ![c] = "page"] /\ outcome = "TRANSACTION_CONFLICT"
             /\ y.attempt = 0 /\ y.kind = "progress"
             /\ call' = [call EXCEPT ![c] = Reread(y)]
    <3>1. PICK l, x : l = "page" /\ x = Reread(y)
      OBVIOUS
    <3>2. \A k \in DOMAIN itemReceipts : itemReceipts[k].call # y.number
      BY <1>4, <2>2 DEF Knows, Attempted
    <3>3. \A k \in DOMAIN itemReceipts' : itemReceipts'[k].call = y.number => k = y.key
      BY <1>14, <3>2
    <3>4. Knows(c, l, x)'
      BY <1>13, <1>15, <1>16, <2>2, <3>1, <3>3, RereadKnows
    <3>5. "number" \in DOMAIN y
      BY <1>6 DEF Shaped, Fields
    <3>6. x.number = y.number
      BY <3>1, <3>5 DEF Reread
    <3>7. l \in HelperLabels /\ pc' = [pc EXCEPT ![c] = l] /\ call' = [call EXCEPT ![c] = x]
      BY <2>2, <3>1 DEF HelperLabels
    <3>8. QED BY <1>4, <1>13, <1>21, <1>22, <3>4, <3>6, <3>7, CallMoves
  <2>3. QED BY <1>18, <2>1, <2>2
<1>24. QED BY <1>13, <1>18, <1>20, <1>23 DEF HelpersInv

-----------------------------------------------------------------------------
(* The others, and the theorems.                                           *)

\* A commit of another program.
LEMMA OthersKnow ==
  ASSUME WorkItemsAssumption, HelpersInv, NEW i \in Items, NEW status \in Wanted \cup {"TODO"},
         OthersCommit(i, status)
  PROVE HelpersInv' /\ Told'
<1>1. /\ i \in DOMAIN rows \/ i \in Outside
      /\ Enter(i, status, Other, 0) /\ told' = Nothing
      /\ itemReceipts' = itemReceipts /\ pc' = pc /\ call' = call /\ itemCalls' = itemCalls
  BY DEF OthersCommit
<1>2. ItemRowsInv /\ ReceiptsInv /\ HelpersCallsInv /\ itemCalls \in Nat
  BY DEF HelpersInv, ReceiptsInv
<1>3. PICK author, number : author = Other /\ number = 0
  OBVIOUS
<1>4. /\ author \in {Other} \cup {Author[c] : c \in Callers} /\ number \in Nat
      /\ status \in ItemStatuses /\ Enter(i, status, author, number)
  BY <1>1, <1>3 DEF ItemStatuses
<1>5. ItemRowsInv' /\ Extends /\ DOMAIN rows' = DOMAIN rows \cup {i}
  BY <1>1, <1>2, <1>4, EnterExtends
<1>6. ReceiptsInv'
  BY <1>1, <1>2, <1>5, ReceiptsStay
<1>7. ASSUME NEW c \in Callers, pc'[c] # "idle" PROVE Knows(c, pc[c], call[c])'
  <2>1. PICK l, x : l = pc[c] /\ x = call[c]
    OBVIOUS
  <2>2. Knows(c, l, x)
    BY <1>1, <1>2, <1>7, <2>1 DEF HelpersCallsInv
  <2>3. Knows(c, l, x)'
    BY <1>1, <1>2, <1>5, <2>2, KnowsStays
  <2>4. QED BY <1>1, <2>1, <2>3
<1>8. HelpersCallsInv'
  BY <1>1, <1>2, <1>7 DEF HelpersCallsInv
<1>9. QED BY <1>1, <1>5, <1>6, <1>8, NothingTold DEF HelpersInv

\* Every step keeps the invariant, and what it tells is so.
LEMMA HelpersStep ==
  ASSUME WorkItemsAssumption, HelpersInv, HelpersNext
  PROVE HelpersInv' /\ Told'
<1>1. ASSUME NEW c \in Callers, NEW request \in Requests, Start(c, request)
      PROVE HelpersInv' /\ Told'
  BY <1>1, StartKnows
<1>2. ASSUME NEW c \in Callers, ReadPage(c) PROVE HelpersInv' /\ Told'
  BY <1>2, PageKnows
<1>3. ASSUME NEW c \in Callers, List(c) PROVE HelpersInv' /\ Told'
  BY <1>3, ListKnows
<1>4. ASSUME NEW c \in Callers, HandoffKnown(c) PROVE HelpersInv' /\ Told'
  BY <1>4, HandoffKnownKnows
<1>5. ASSUME NEW c \in Callers, PrepareHandoff(c) \/ PrepareProgress(c) PROVE HelpersInv' /\ Told'
  BY <1>5, PrepareKnows
<1>6. ASSUME NEW c \in Callers, ProgressUnknown(c) PROVE HelpersInv' /\ Told'
  BY <1>6, ProgressUnknownKnows
<1>7. ASSUME NEW c \in Callers, CommitAgain(c) PROVE HelpersInv' /\ Told'
  BY <1>7, AgainKnows
<1>8. ASSUME NEW c \in Callers, Commit(c) PROVE HelpersInv' /\ Told'
  BY <1>8, CommitKnows
<1>9. ASSUME NEW i \in Items, NEW status \in Wanted \cup {"TODO"}, OthersCommit(i, status)
      PROVE HelpersInv' /\ Told'
  BY <1>9, OthersKnow
<1>10. QED BY <1>1, <1>2, <1>3, <1>4, <1>5, <1>6, <1>7, <1>8, <1>9 DEF HelpersNext

\* So does a step of nobody.
LEMMA HelpersStutter == ASSUME HelpersInv /\ Told, UNCHANGED helpersVars PROVE HelpersInv' /\ Told'
<1>1. /\ rows' = rows /\ ledger' = ledger /\ itemReceipts' = itemReceipts /\ pc' = pc /\ call' = call
      /\ told' = told /\ itemCalls' = itemCalls
  BY DEF helpersVars
<1>2. ItemRowsInv' /\ ReceiptsInv'
  <2>1. ItemRowsInv' = ItemRowsInv
    BY <1>1 DEF ItemRowsInv
  <2>2. \A k, r : HandoffTold(k, r)' = HandoffTold(k, r) /\ ProgressTold(k, r)' = ProgressTold(k, r)
    BY <1>1 DEF HandoffTold, ProgressTold, MovedTo
  <2>3. ReceiptsInv'
    BY <1>1, <2>2 DEF HelpersInv, ReceiptsInv
  <2>4. QED BY <2>1, <2>3 DEF HelpersInv
<1>3. \A c, l, x : Knows(c, l, x)' = Knows(c, l, x)
  BY <1>1 DEF Knows, Shaped, Honest, Scanned, Built, Attempted, Rebased, ReadAt, Rank, Matches
<1>4. HelpersCallsInv'
  BY <1>1, <1>3 DEF HelpersInv, HelpersCallsInv
<1>5. Told'
  BY <1>1 DEF Told, ToldIsRecorded, OnlyContendedRefused, ListIsWhole
<1>6. QED BY <1>2, <1>4, <1>5 DEF HelpersInv

\* The invariant holds, and every answer is so.
LEMMA HelpersAlways == ASSUME WorkItemsAssumption PROVE HelpersSpec => [](HelpersInv /\ Told)
<1>1. HelpersInit => HelpersInv /\ Told
  <2>1. HelpersInit => Told
    BY DEF HelpersInit, Nothing, Told, ToldIsRecorded, OnlyContendedRefused, ListIsWhole
  <2>2. QED BY <2>1, HelpersStart
<1>2. (HelpersInv /\ Told) /\ [HelpersNext]_helpersVars => (HelpersInv /\ Told)'
  BY HelpersStep, HelpersStutter
<1>3. QED BY <1>1, <1>2, PTL DEF HelpersSpec

\* What a helper returns is recorded: an item that was handed off is there, and a
\* move that is told is an entry made since the call began, of its author, from
\* the status and the version the answer names.
THEOREM WorkIsRecorded == HelpersSpec => []ToldIsRecorded
<1>1. HelpersInv /\ Told => ToldIsRecorded
  BY DEF Told
<1>2. HelpersSpec => [](HelpersInv /\ Told)
  BY HelpersAlways, WorkItemsAssumption
<1>3. QED BY <1>1, <1>2, PTL

\* A transition ends in a conflict only if its item moved twice while the call
\* ran; a key is refused as used only if another call used it; and a handoff is
\* invalid only if it refers to an item that was not there when it began.
THEOREM RefusalsAreContended == HelpersSpec => []OnlyContendedRefused
<1>1. HelpersInv /\ Told => OnlyContendedRefused
  BY DEF Told
<1>2. HelpersSpec => [](HelpersInv /\ Told)
  BY HelpersAlways, WorkItemsAssumption
<1>3. QED BY <1>1, <1>2, PTL

\* A list read page after page, while others commit, holds every item that was
\* there when it began, as it was then or later.
THEOREM ListsAreWhole == HelpersSpec => []ListIsWhole
<1>1. HelpersInv /\ Told => ListIsWhole
  BY DEF Told
<1>2. HelpersSpec => [](HelpersInv /\ Told)
  BY HelpersAlways, WorkItemsAssumption
<1>3. QED BY <1>1, <1>2, PTL

=============================================================================
