-------------------------- MODULE LifecycleProofs --------------------------
(***************************************************************************)
(* The life of a workspace directory, for any programs, files, packages    *)
(* and destinations.  Backup: what is restored is a state the workspace    *)
(* was in at one moment, no restore replaces a workspace, and what an      *)
(* export packs while nobody writes can be restored.  Setup: what it has   *)
(* bound works, and what fails is undone.                                  *)
(***************************************************************************)
EXTENDS Backup, Setup, FiniteSetTheorems, TLAPS

-----------------------------------------------------------------------------
(* What the variables may hold.                                            *)

Kernels == [ledger : Nat, rejected : Nat]
Products == [items : Nat, drafts : Nat, views : Nat]
Package ==
  [kind : {"package"}, kernel : Kernels, product : Products, blobs : SUBSET Nat,
   root : Nat, hash : Seq(Nat), quiet : BOOLEAN]
Place == [kind : {"workspace"}, kernel : Kernels, product : Products, blobs : SUBSET Nat]

Verifying == {"ledger", "state root", "views", "rebuild", "hash"}
Packing == {"check", "copy", "copy product", "copy files", "open", "zip"}
ExportTask ==
  [at : Verifying \cup Packing, op : {"export"}, path : Paths, quiet : BOOLEAN,
   next : Nat, seen : SUBSET Nat, root : Nat, views : Nat, valid : BOOLEAN, hash : Seq(Nat),
   kernel : Kernels, product : Products, blobs : SUBSET Nat]
RestoreTask ==
  [at : {"verify", "rmdir", "move"}, op : {"restore"}, place : Places, staged : Package]
\* A call that has taken nothing from the workspace yet, or has ended.
PlainTask ==
  [at : {"idle"}]
    \cup [at : {"failed", "done"}, op : {"export", "restore"}]
    \cup [at : {"stage", "failed"}, op : {"restore"}, path : Paths, place : Places]
Tasks == ExportTask \cup RestoreTask \cup PlainTask

TypeInv ==
  /\ kernel \in Kernels /\ product \in Products /\ blobs \subseteq Nat
  /\ packages \in [Paths -> {None, Partial} \cup Package]
  /\ places \in [Places -> {None, Empty} \cup Place]
  /\ task \in [Programs -> Tasks]

-----------------------------------------------------------------------------
(* The invariant.                                                          *)

HasBlobs(d, b) == \A i \in 1 .. d.items : i \in b
\* The workspace as it is: views of no later ledger, a blob for every item.
SourceOK ==
  /\ product.views <= kernel.ledger
  /\ HasBlobs(product, blobs)
  /\ State(kernel, product) \in states

\* No table of the one product state is ahead of the other.
Below(d, e) == d.items <= e.items /\ d.drafts <= e.drafts /\ d.views <= e.views
HashBelow(hash, d) == Len(hash) = 3 /\ hash[1] <= d.items /\ hash[2] <= d.drafts /\ hash[3] <= d.views
\* There was a moment after the root and the hash were read and before the
\* ledger and the tables were what they are here.
Between(root, hash, ledger, d) ==
  \E l \in Nat, e \in Products :
    /\ <<l, e>> \in states
    /\ root <= l /\ l <= ledger
    /\ HashBelow(hash, e) /\ Below(e, d)

\* The ledger and the tables a package will have, as far as they are copied.
LedgerOf(t) == IF t.at \in {"check", "copy"} THEN kernel.ledger ELSE t.kernel.ledger
ProductOf(t) == IF t.at \in {"check", "copy", "copy product"} THEN product ELSE t.product
ExportOK(t) ==
  /\ t.at \in {"views", "rebuild", "hash"} => t.root <= kernel.ledger
  /\ t.at \in Verifying \ {"hash"} => t.hash = <<>>
  /\ t.at = "hash" => /\ Len(t.hash) <= 2
                      /\ Len(t.hash) >= 1 => t.hash[1] <= product.items
                      /\ Len(t.hash) >= 2 => t.hash[2] <= product.drafts
  /\ t.at \in Packing => Between(t.root, t.hash, LedgerOf(t), ProductOf(t))
  /\ t.at = "copy files" => HasBlobs(t.product, blobs)
  /\ t.at \in {"open", "zip"} => HasBlobs(t.product, t.blobs)
PackageOK(w) == Between(w.root, w.hash, w.kernel.ledger, w.product) /\ HasBlobs(w.product, w.blobs)
RestoreOK(t) == PackageOK(t.staged) /\ (t.at \in {"rmdir", "move"} => StagedIsRight(t.staged))
TaskOK(t) == (t \in ExportTask => ExportOK(t)) /\ (t \in RestoreTask => RestoreOK(t))

Inv ==
  /\ TypeInv
  /\ SourceOK
  /\ \A p \in Programs : TaskOK(task[p])
  /\ \A path \in Paths : packages[path] \in Package => PackageOK(packages[path])
  /\ \A place \in Places : places[place] \in Place => IsWhole(places[place])

-----------------------------------------------------------------------------
(* A package that matches its manifest is of one moment.                   *)

LEMMA OneMoment ==
  ASSUME NEW w \in Package, PackageOK(w), StagedIsRight(w)
  PROVE  Workspace(w) \in Place /\ IsWhole(Workspace(w))
<1>1. PICK l \in Nat, e \in Products :
        /\ <<l, e>> \in states
        /\ w.root <= l /\ l <= w.kernel.ledger
        /\ HashBelow(w.hash, e) /\ Below(e, w.product)
  BY DEF PackageOK, Between
<1>2. w.kernel \in Kernels /\ w.product \in Products /\ w.root \in Nat /\ w.kernel.ledger \in Nat
  BY DEF Package, Kernels
<1>3. w.kernel.ledger = w.root /\ w.product.views = w.kernel.ledger
  BY DEF StagedIsRight, RootOf
<1>4. l = w.kernel.ledger
  BY <1>1, <1>2, <1>3
<1>5. /\ w.hash[1] = w.product.items /\ w.hash[2] = w.product.drafts /\ w.hash[3] = w.product.views
  BY DEF StagedIsRight, HashOf, Tables
<1>6. e.items = w.product.items /\ e.drafts = w.product.drafts /\ e.views = w.product.views
  BY <1>1, <1>2, <1>5 DEF HashBelow, Below, Products
<1>7. e = w.product
  BY <1>1, <1>2, <1>6 DEF Products
<1>8. State(w.kernel, w.product) \in states
  BY <1>1, <1>4, <1>7 DEF State
<1>9. /\ Workspace(w).kernel = w.kernel /\ Workspace(w).product = w.product
      /\ Workspace(w).blobs = w.blobs
  BY DEF Workspace
<1>10. Workspace(w) \in Place
  BY DEF Workspace, Place, Package
<1>11. IsWhole(Workspace(w))
  BY <1>3, <1>8, <1>9 DEF IsWhole, PackageOK, HasBlobs
<1> QED
  BY <1>10, <1>11

-----------------------------------------------------------------------------
(* What the writes of other programs leave as it is.                       *)

Grows ==
  /\ kernel.ledger <= kernel'.ledger /\ Below(product, product')
  /\ blobs \subseteq blobs' /\ states \subseteq states'

LEMMA SameGrows == ASSUME TypeInv, UNCHANGED <<source, states>> PROVE Grows
BY DEF TypeInv, Grows, Below, Kernels, Products, source

LEMMA BelowTransitive ==
  ASSUME NEW d \in Products, NEW e \in Products, NEW f \in Products, Below(d, e), Below(e, f)
  PROVE  Below(d, f)
BY DEF Products, Below

LEMMA BetweenGrows ==
  ASSUME NEW root \in Nat, NEW hash \in Seq(Nat), NEW k \in Nat, NEW d \in Products,
         NEW l \in Nat, NEW e \in Products,
         Between(root, hash, k, d), k <= l, Below(d, e), states \subseteq states'
  PROVE  Between(root, hash, l, e)'
<1>1. PICK m \in Nat, f \in Products :
        /\ <<m, f>> \in states
        /\ root <= m /\ m <= k
        /\ HashBelow(hash, f) /\ Below(f, d)
  BY DEF Between
<1>2. m <= l /\ Below(f, e) /\ <<m, f>> \in states'
  BY <1>1, BelowTransitive
<1> QED
  BY <1>1, <1>2 DEF Between

LEMMA PackageKeeps ==
  ASSUME NEW w \in Package, PackageOK(w), states \subseteq states' PROVE PackageOK(w)'
<1>1. /\ w.root \in Nat /\ w.hash \in Seq(Nat) /\ w.kernel.ledger \in Nat /\ w.product \in Products
      /\ w.kernel.ledger <= w.kernel.ledger /\ Below(w.product, w.product)
  BY DEF Package, Kernels, Products, Below
<1>2. Between(w.root, w.hash, w.kernel.ledger, w.product)'
  BY <1>1, BetweenGrows DEF PackageOK
<1> QED
  BY <1>2 DEF PackageOK, HasBlobs

LEMMA ExportKeeps ==
  ASSUME TypeInv, TypeInv', Grows, NEW t \in ExportTask, ExportOK(t) PROVE ExportOK(t)'
<1>0. /\ t.root \in Nat /\ t.hash \in Seq(Nat) /\ t.kernel \in Kernels /\ t.product \in Products
      /\ kernel \in Kernels /\ kernel' \in Kernels /\ product \in Products /\ product' \in Products
  BY DEF ExportTask, TypeInv
<1>1. /\ t.root \in Nat /\ t.hash \in Seq(Nat) /\ t.kernel.ledger \in Nat /\ t.product \in Products
      /\ kernel.ledger \in Nat /\ kernel'.ledger \in Nat /\ product \in Products /\ product' \in Products
  BY <1>0 DEF Kernels
<1>2. t.at \in {"views", "rebuild", "hash"} => t.root <= kernel'.ledger
  <2>1. PICK r \in Nat, k \in Nat, l \in Nat : r = t.root /\ k = kernel.ledger /\ l = kernel'.ledger
    BY <1>1
  <2>2. k <= l
    BY <2>1 DEF Grows
  <2>3. t.at \in {"views", "rebuild", "hash"} => r <= k
    BY <2>1 DEF ExportOK
  <2>4. t.at \in {"views", "rebuild", "hash"} => r <= l
    BY <2>2, <2>3
  <2> QED
    BY <2>1, <2>4
<1>3. t.at = "hash" => /\ Len(t.hash) >= 1 => t.hash[1] <= product'.items
                       /\ Len(t.hash) >= 2 => t.hash[2] <= product'.drafts
  <2> SUFFICES ASSUME t.at = "hash"
               PROVE  /\ Len(t.hash) >= 1 => t.hash[1] <= product'.items
                      /\ Len(t.hash) >= 2 => t.hash[2] <= product'.drafts
    OBVIOUS
  <2>1. PICK h \in Seq(Nat) : h = t.hash
    BY <1>1
  <2>2. PICK i \in Nat, j \in Nat, m \in Nat, n \in Nat :
          i = product.items /\ j = product.drafts /\ m = product'.items /\ n = product'.drafts
    BY <1>1 DEF Products
  <2>3. i <= m /\ j <= n
    BY <2>2 DEF Grows, Below
  <2>4. (Len(h) >= 1 => h[1] <= i) /\ (Len(h) >= 2 => h[2] <= j)
    BY <2>1, <2>2 DEF ExportOK
  <2>5. (Len(h) >= 1 => h[1] <= m) /\ (Len(h) >= 2 => h[2] <= n)
    BY <2>3, <2>4
  <2> QED
    BY <2>1, <2>2, <2>5
<1>4. t.at \in Packing => Between(t.root, t.hash, LedgerOf(t), ProductOf(t))'
  <2> SUFFICES ASSUME t.at \in Packing PROVE Between(t.root, t.hash, LedgerOf(t), ProductOf(t))'
    OBVIOUS
  <2>1. PICK k \in Nat, d \in Products : k = LedgerOf(t) /\ d = ProductOf(t)
    BY <1>1 DEF LedgerOf, ProductOf
  <2>2. PICK l \in Nat, e \in Products : l = LedgerOf(t)' /\ e = ProductOf(t)'
    <3>1. LedgerOf(t)' \in Nat /\ ProductOf(t)' \in Products
      BY <1>1 DEF LedgerOf, ProductOf
    <3> QED
      BY <3>1
  <2>3. k <= l /\ Below(d, e)
    <3>1. kernel.ledger <= kernel'.ledger /\ Below(product, product')
      BY DEF Grows
    <3>2. /\ LedgerOf(t)' = IF t.at \in {"check", "copy"} THEN kernel'.ledger ELSE t.kernel.ledger
          /\ ProductOf(t)' = IF t.at \in {"check", "copy", "copy product"} THEN product' ELSE t.product
      BY DEF LedgerOf, ProductOf
    <3>3. k <= l
      <4>1. CASE t.at \in {"check", "copy"}
        <5>1. k = kernel.ledger /\ l = kernel'.ledger
          BY <4>1, <2>1, <2>2, <3>2 DEF LedgerOf
        <5> QED
          BY <5>1, <3>1
      <4>2. CASE t.at \notin {"check", "copy"}
        <5>1. k = l
          BY <4>2, <2>1, <2>2, <3>2 DEF LedgerOf
        <5> QED
          BY <5>1
      <4> QED
        BY <4>1, <4>2
    <3>4. Below(d, e)
      <4>1. CASE t.at \in {"check", "copy", "copy product"}
        BY <4>1, <2>1, <2>2, <3>1, <3>2 DEF ProductOf
      <4>2. CASE t.at \notin {"check", "copy", "copy product"}
        <5>1. d = e
          BY <4>2, <2>1, <2>2, <3>2 DEF ProductOf
        <5> QED
          BY <5>1 DEF Below, Products
      <4> QED
        BY <4>1, <4>2
    <3> QED
      BY <3>3, <3>4
  <2>4. Between(t.root, t.hash, k, d)
    BY <2>1 DEF ExportOK
  <2>5. Between(t.root, t.hash, l, e)'
    BY <1>1, <2>3, <2>4, BetweenGrows DEF Grows
  <2> QED
    BY <2>2, <2>5
<1>5. t.at = "copy files" => HasBlobs(t.product, blobs')
  BY DEF ExportOK, HasBlobs, Grows
<1> QED
  BY <1>2, <1>3, <1>4, <1>5 DEF ExportOK, HasBlobs

LEMMA TaskKeeps ==
  ASSUME TypeInv, TypeInv', Grows, NEW t, TaskOK(t) PROVE TaskOK(t)'
<1>1. t \in ExportTask => ExportOK(t)'
  BY ExportKeeps DEF TaskOK
<1>2. t \in RestoreTask => RestoreOK(t)'
  <2> SUFFICES ASSUME t \in RestoreTask PROVE RestoreOK(t)'
    OBVIOUS
  <2>1. t.staged \in Package /\ PackageOK(t.staged)
    BY DEF RestoreTask, TaskOK, RestoreOK
  <2>2. PackageOK(t.staged)'
    BY <2>1, PackageKeeps DEF Grows
  <2> QED
    BY <2>2 DEF TaskOK, RestoreOK
<1> QED
  BY <1>1, <1>2 DEF TaskOK

LEMMA Kinds ==
  /\ \A t \in ExportTask : "quiet" \in DOMAIN t /\ t.op = "export" /\ t \notin RestoreTask /\ t \notin PlainTask
                           /\ t.at \in Verifying \cup Packing
  /\ \A t \in RestoreTask : "quiet" \notin DOMAIN t /\ t \notin ExportTask /\ t \notin PlainTask
                           /\ t.at \in {"verify", "rmdir", "move"}
  /\ \A t \in PlainTask : "quiet" \notin DOMAIN t /\ t \notin ExportTask /\ t \notin RestoreTask
                           /\ t.at \in {"idle", "failed", "done", "stage"}
<1>1. \A t \in ExportTask : "quiet" \in DOMAIN t /\ t.op = "export" /\ t.at \in Verifying \cup Packing
  BY DEF ExportTask
<1>2. \A t \in RestoreTask : "quiet" \notin DOMAIN t /\ t.at \in {"verify", "rmdir", "move"}
  BY DEF RestoreTask
<1>3. \A t \in PlainTask : "quiet" \notin DOMAIN t /\ t.at \in {"idle", "failed", "done", "stage"}
  BY DEF PlainTask
<1> QED
  BY <1>1, <1>2, <1>3
-----------------------------------------------------------------------------
(* The steps of a program: it reads, copies, packs, or moves.              *)

\* What one program does next keeps the invariant when its task, the packages
\* and the places it leaves are as they should be over the same workspace.
LEMMA Stepping ==
  ASSUME Inv, UNCHANGED <<source, states>>,
         NEW p \in Programs, NEW t \in Tasks, Become(p, t), TaskOK(t),
         NEW q \in [Paths -> {None, Partial} \cup Package], packages' = q,
         \A path \in Paths : q[path] \in Package => PackageOK(q[path]),
         NEW r \in [Places -> {None, Empty} \cup Place], places' = r,
         \A place \in Places : r[place] \in Place => IsWhole(r[place])
  PROVE  Inv'
<1>1. TypeInv'
  <2>1. kernel' = kernel /\ product' = product /\ blobs' = blobs
    BY DEF source
  <2>2. task' \in [Programs -> Tasks]
    BY DEF Inv, TypeInv, Become
  <2> QED
    BY <2>1, <2>2 DEF Inv, TypeInv
<1>2. Grows
  BY SameGrows DEF Inv
<1>3. SourceOK'
  BY DEF Inv, SourceOK, HasBlobs, State, source
<1>4. \A x \in Programs : TaskOK(task[x])'
  <2> SUFFICES ASSUME NEW x \in Programs PROVE TaskOK(task[x])'
    OBVIOUS
  <2>1. task'[x] = t \/ task'[x] = task[x]
    BY DEF Inv, TypeInv, Become
  <2>2. PICK u : u = task'[x] /\ TaskOK(u)
    BY <2>1 DEF Inv
  <2>3. TaskOK(u)'
    BY <1>1, <1>2, <2>2, TaskKeeps DEF Inv
  <2> QED
    BY <2>2, <2>3
<1>5. \A path \in Paths : (packages[path] \in Package => PackageOK(packages[path]))'
  <2> SUFFICES ASSUME NEW path \in Paths, q[path] \in Package PROVE PackageOK(q[path])'
    OBVIOUS
  <2> QED
    BY <1>2, PackageKeeps DEF Grows
<1>6. \A place \in Places : (places[place] \in Place => IsWhole(places[place]))'
  BY <1>2 DEF IsWhole, Grows
<1> QED
  BY <1>1, <1>3, <1>4, <1>5, <1>6 DEF Inv

LEMMA Reading ==
  ASSUME Inv, UNCHANGED <<source, states, packages, places>>,
         NEW p \in Programs, NEW t \in Tasks, Become(p, t), TaskOK(t)
  PROVE  Inv'
<1>1. PICK q, r : q = packages /\ r = places
  OBVIOUS
<1>2. /\ q \in [Paths -> {None, Partial} \cup Package] /\ packages' = q
      /\ \A path \in Paths : q[path] \in Package => PackageOK(q[path])
      /\ r \in [Places -> {None, Empty} \cup Place] /\ places' = r
      /\ \A place \in Places : r[place] \in Place => IsWhole(r[place])
  BY <1>1 DEF Inv, TypeInv
<1> QED
  BY <1>2, Stepping

LEMMA PlainOK == \A t \in PlainTask : t \in Tasks /\ TaskOK(t)
BY Kinds DEF Tasks, TaskOK

LEMMA ExportIsOK == \A t \in ExportTask : ExportOK(t) => t \in Tasks /\ TaskOK(t)
BY Kinds DEF Tasks, TaskOK

LEMMA RestoreIsOK == \A t \in RestoreTask : RestoreOK(t) => t \in Tasks /\ TaskOK(t)
BY Kinds DEF Tasks, TaskOK

\* The label of a task says which kind it is of.
LEMMA KindOf ==
  ASSUME Inv, NEW p \in Programs
  PROVE  /\ task[p].at \in Verifying \cup Packing => task[p] \in ExportTask /\ ExportOK(task[p])
         /\ task[p].at \in {"verify", "rmdir", "move"} => task[p] \in RestoreTask /\ RestoreOK(task[p])
         /\ task[p].at = "stage" => task[p] \in [at : {"stage", "failed"}, op : {"restore"}, path : Paths, place : Places]
<1>1. task[p] \in Tasks /\ TaskOK(task[p])
  BY DEF Inv, TypeInv
<1>2. task[p] \in PlainTask => task[p].at \notin Verifying \cup Packing /\ task[p].at \notin {"verify", "rmdir", "move"}
  BY Kinds DEF Verifying, Packing
<1>3. task[p] \in ExportTask => task[p].at \notin {"verify", "rmdir", "move", "stage"}
  BY Kinds DEF Verifying, Packing
<1>4. task[p] \in RestoreTask => task[p].at \notin Verifying \cup Packing /\ task[p].at # "stage"
  BY Kinds DEF Verifying, Packing
<1>5. task[p].at = "stage" /\ task[p] \in PlainTask => task[p] \in [at : {"stage", "failed"}, op : {"restore"}, path : Paths, place : Places]
  BY DEF PlainTask
<1> QED
  BY <1>1, <1>2, <1>3, <1>4, <1>5 DEF Tasks, TaskOK

LEMMA FailKeeps ==
  ASSUME Inv, UNCHANGED <<source, states, packages, places>>, NEW p \in Programs,
         task[p].op \in {"export", "restore"}, Fail(p)
  PROVE  Inv'
<1>1. PICK t : t = [at |-> "failed", op |-> task[p].op]
  OBVIOUS
<1>2. t \in PlainTask
  BY <1>1 DEF PlainTask
<1> QED
  BY <1>1, <1>2, PlainOK, Reading DEF Fail

LEMMA EndKeeps ==
  ASSUME Inv, UNCHANGED <<source, states, packages, places>>, NEW p \in Programs, Become(p, Idle)
  PROVE  Inv'
<1>1. Idle \in PlainTask
  BY DEF Idle, PlainTask
<1> QED
  BY <1>1, PlainOK, Reading

-----------------------------------------------------------------------------
(* The writes of other programs.                                           *)

\* An export that is no longer undisturbed is as it was otherwise.
LEMMA Quieted ==
  ASSUME NEW t \in Tasks, TaskOK(t),
         NEW u, u = IF "quiet" \in DOMAIN t THEN [t EXCEPT !.quiet = FALSE] ELSE t
  PROVE  u \in Tasks /\ TaskOK(u)
<1>1. CASE t \in ExportTask
  <2>1. u = [t EXCEPT !.quiet = FALSE]
    BY <1>1, Kinds
  <2>2. u \in ExportTask
    BY <1>1, <2>1 DEF ExportTask
  <2>3. /\ u.at = t.at /\ u.root = t.root /\ u.hash = t.hash
        /\ u.kernel = t.kernel /\ u.product = t.product /\ u.blobs = t.blobs
    BY <1>1, <2>1 DEF ExportTask
  <2>4. ExportOK(t)
    BY <1>1 DEF TaskOK
  <2>5. LedgerOf(u) = LedgerOf(t) /\ ProductOf(u) = ProductOf(t)
    BY <2>3 DEF LedgerOf, ProductOf
  <2>6. ExportOK(u)
    BY <2>3, <2>4, <2>5 DEF ExportOK
  <2> QED
    BY <2>2, <2>6, ExportIsOK
<1>2. CASE t \notin ExportTask
  <2>1. u = t
    BY <1>2, Kinds DEF Tasks
  <2> QED
    BY <2>1
<1> QED
  BY <1>1, <1>2

LEMMA Writing ==
  ASSUME Inv, NEW k \in Kernels, NEW d \in Products, NEW b \in SUBSET Nat, Write(k, d, b),
         kernel.ledger <= k.ledger, Below(product, d), blobs \subseteq b,
         d.views <= k.ledger, HasBlobs(d, b)
  PROVE  Inv'
<1>1. /\ kernel' = k /\ product' = d /\ blobs' = b /\ states' = states \cup {State(k, d)}
      /\ packages' = packages /\ places' = places
  BY DEF Write
<1>2. \A x \in Programs :
        \/ task'[x] = task[x]
        \/ task'[x] = IF "quiet" \in DOMAIN task[x] THEN [task[x] EXCEPT !.quiet = FALSE] ELSE task[x]
  BY Zenon DEF Write, Disturbed
<1>3. \A x \in Programs : task'[x] \in Tasks /\ TaskOK(task'[x])
  <2> SUFFICES ASSUME NEW x \in Programs PROVE task'[x] \in Tasks /\ TaskOK(task'[x])
    OBVIOUS
  <2>1. PICK t \in Tasks : t = task[x] /\ TaskOK(t)
    BY DEF Inv, TypeInv
  <2>2. PICK u : u = task'[x]
    OBVIOUS
  <2>3. u \in Tasks /\ TaskOK(u)
    BY <1>2, <2>1, <2>2, Quieted
  <2> QED
    BY <2>2, <2>3
<1>4. TypeInv'
  <2>1. task' \in [Programs -> Tasks]
    <3>1. task' = task \/ task' = Disturbed
      BY DEF Write
    <3>2. task' = [x \in Programs |-> task'[x]]
      BY <3>1 DEF Disturbed, Inv, TypeInv
    <3> QED
      BY <1>3, <3>2
  <2> QED
    BY <1>1, <2>1 DEF Inv, TypeInv
<1>5. Grows
  BY <1>1 DEF Grows
<1>6. SourceOK'
  BY <1>1 DEF SourceOK
<1>7. \A x \in Programs : TaskOK(task[x])'
  <2> SUFFICES ASSUME NEW x \in Programs PROVE TaskOK(task[x])'
    OBVIOUS
  <2>1. PICK u : u = task'[x] /\ TaskOK(u)
    BY <1>3
  <2>2. TaskOK(u)'
    BY <1>4, <1>5, <2>1, TaskKeeps DEF Inv
  <2> QED
    BY <2>1, <2>2
<1>8. \A path \in Paths : (packages[path] \in Package => PackageOK(packages[path]))'
  <2> SUFFICES ASSUME NEW path \in Paths, packages'[path] \in Package PROVE PackageOK(packages[path])'
    OBVIOUS
  <2>1. PICK w \in Package : w = packages'[path] /\ PackageOK(w)
    BY <1>1 DEF Inv
  <2>2. PackageOK(w)'
    BY <1>5, <2>1, PackageKeeps DEF Grows
  <2> QED
    BY <2>1, <2>2
<1>9. \A place \in Places : (places[place] \in Place => IsWhole(places[place]))'
  BY <1>1 DEF IsWhole, Inv
<1> QED
  BY <1>4, <1>6, <1>7, <1>8, <1>9 DEF Inv

LEMMA OthersKeep == ASSUME Inv, Others PROVE Inv'
<1>1. /\ kernel \in Kernels /\ product \in Products /\ blobs \in SUBSET Nat
      /\ kernel.ledger \in Nat /\ kernel.rejected \in Nat
      /\ product.items \in Nat /\ product.drafts \in Nat /\ product.views \in Nat
      /\ product.views <= kernel.ledger /\ HasBlobs(product, blobs)
      /\ Below(product, product)
  BY DEF Inv, TypeInv, SourceOK, Kernels, Products, Below
<1>2. CASE Commit
  <2>1. PICK k : k = [kernel EXCEPT !.ledger = @ + 1]
    OBVIOUS
  <2>2. k \in Kernels /\ k.ledger = kernel.ledger + 1
    BY <1>1, <2>1 DEF Kernels
  <2>3. Write(k, product, blobs)
    BY <1>2, <2>1 DEF Commit
  <2>4. kernel.ledger <= k.ledger /\ product.views <= k.ledger
    BY <1>1, <2>2
  <2> QED
    BY <1>1, <2>2, <2>3, <2>4, Writing
<1>3. CASE Reject
  <2>1. PICK k : k = [kernel EXCEPT !.rejected = @ + 1]
    OBVIOUS
  <2>2. k \in Kernels /\ k.ledger = kernel.ledger
    BY <1>1, <2>1 DEF Kernels
  <2>3. Write(k, product, blobs)
    BY <1>3, <2>1 DEF Reject
  <2>4. kernel.ledger <= k.ledger /\ product.views <= k.ledger
    BY <1>1, <2>2
  <2> QED
    BY <1>1, <2>2, <2>3, <2>4, Writing
<1>4. CASE PreserveBlob
  <2>1. PICK b : b = blobs \cup {product.items + 1}
    OBVIOUS
  <2>2. product.items + 1 \in Nat
    BY <1>1
  <2>3. b \in SUBSET Nat /\ blobs \subseteq b
    BY <1>1, <2>1, <2>2
  <2>4. HasBlobs(product, b)
    BY <1>1, <2>3 DEF HasBlobs
  <2>5. Write(kernel, product, b)
    BY <1>4, <2>1 DEF PreserveBlob
  <2>6. kernel.ledger <= kernel.ledger
    BY <1>1
  <2> QED
    BY <1>1, <2>3, <2>4, <2>5, <2>6, Writing
<1>5. CASE PutItem
  <2>1. PICK d : d = [product EXCEPT !.items = @ + 1]
    OBVIOUS
  <2>2. d \in Products /\ d.items = product.items + 1 /\ d.views = product.views /\ Below(product, d)
    BY <1>1, <2>1 DEF Products, Below
  <2>3. Write(kernel, d, blobs) /\ product.items + 1 \in blobs
    BY <1>5, <2>1 DEF PutItem
  <2>4. kernel.ledger <= kernel.ledger /\ d.views <= kernel.ledger
    BY <1>1, <2>2
  <2>5. HasBlobs(d, blobs)
    BY <1>1, <2>2, <2>3 DEF HasBlobs
  <2> QED
    BY <1>1, <2>2, <2>3, <2>4, <2>5, Writing
<1>6. CASE PutDraft
  <2>1. PICK d : d = [product EXCEPT !.drafts = @ + 1]
    OBVIOUS
  <2>2. d \in Products /\ d.items = product.items /\ d.views = product.views /\ Below(product, d)
    BY <1>1, <2>1 DEF Products, Below
  <2>3. Write(kernel, d, blobs)
    BY <1>6, <2>1 DEF PutDraft
  <2>4. kernel.ledger <= kernel.ledger /\ d.views <= kernel.ledger /\ HasBlobs(d, blobs)
    BY <1>1, <2>2 DEF HasBlobs
  <2> QED
    BY <1>1, <2>2, <2>3, <2>4, Writing
<1>7. CASE Build
  <2>1. PICK d : d = [product EXCEPT !.views = kernel.ledger]
    OBVIOUS
  <2>2. d \in Products /\ d.items = product.items /\ d.views = kernel.ledger /\ Below(product, d)
    BY <1>1, <2>1 DEF Products, Below
  <2>3. Write(kernel, d, blobs)
    BY <1>7, <2>1 DEF Build
  <2>4. kernel.ledger <= kernel.ledger /\ d.views <= kernel.ledger /\ HasBlobs(d, blobs)
    BY <1>1, <2>2 DEF HasBlobs
  <2> QED
    BY <1>1, <2>2, <2>3, <2>4, Writing
<1> QED
  BY <1>2, <1>3, <1>4, <1>5, <1>6, <1>7 DEF Others

-----------------------------------------------------------------------------
(* An export.                                                              *)

LEMMA BeginExportKeeps == ASSUME Inv, NEW p \in Programs, NEW path \in Paths, BeginExport(p, path) PROVE Inv'
<1>1. PICK t : t = [at |-> "ledger", op |-> "export", path |-> path, quiet |-> TRUE,
                    next |-> 1, seen |-> {}, root |-> 0, views |-> 0, valid |-> FALSE, hash |-> <<>>,
                    kernel |-> NoLedger, product |-> NoTables, blobs |-> {}]
  OBVIOUS
<1>2. NoLedger \in Kernels /\ NoTables \in Products
  BY DEF NoLedger, NoTables, Kernels, Products
<1>3. t \in ExportTask
  BY <1>1, <1>2 DEF ExportTask, Verifying
<1>4. ExportOK(t)
  BY <1>1 DEF ExportOK, Verifying, Packing
<1>5. Become(p, t) /\ UNCHANGED <<source, states, packages, places>>
  BY <1>1 DEF BeginExport
<1> QED
  BY <1>3, <1>4, <1>5, ExportIsOK, Reading

LEMMA ReadLedgerKeeps == ASSUME Inv, NEW p \in Programs, ReadLedger(p) PROVE Inv'
<1>1. PICK t \in ExportTask : t = task[p] /\ ExportOK(t) /\ t.at = "ledger"
  BY KindOf DEF ReadLedger, At, Verifying
<1>2. PICK next \in Nat, at \in {"ledger", "state root"}, seen \in SUBSET Nat :
        Become(p, [t EXCEPT !.seen = seen, !.next = next, !.at = at])
  <2>1. PICK n \in Nat : n = t.next /\ kernel.ledger \in Nat /\ t.seen \in SUBSET Nat
    BY <1>1 DEF Inv, TypeInv, Kernels, ExportTask
  <2>2. PICK seen, next, at :
          /\ seen = t.seen \cup {kernel.ledger}
          /\ next = IF n = Len(LedgerReads) THEN 1 ELSE n + 1
          /\ at = IF t.next = Len(LedgerReads) THEN "state root" ELSE t.at
    OBVIOUS
  <2>3. seen \in SUBSET Nat
    BY <2>1, <2>2
  <2>4. next \in Nat
    <3>1. 1 \in Nat /\ n + 1 \in Nat
      BY <2>1
    <3> QED
      BY <2>2, <3>1
  <2>5. at \in {"ledger", "state root"}
    BY <1>1, <2>2
  <2>6. Become(p, [t EXCEPT !.seen = seen, !.next = next, !.at = at])
    BY <1>1, <2>1, <2>2 DEF ReadLedger
  <2> QED
    BY <2>3, <2>4, <2>5, <2>6
<1>3. PICK u : u = [t EXCEPT !.seen = seen, !.next = next, !.at = at]
  OBVIOUS
<1>4. u \in ExportTask /\ u.at \in {"ledger", "state root"} /\ u.hash = t.hash
  BY <1>1, <1>2, <1>3 DEF ExportTask, Verifying
<1>5. ExportOK(u)
  BY <1>1, <1>4 DEF ExportOK, Verifying, Packing
<1> QED
  BY <1>2, <1>3, <1>4, <1>5, ExportIsOK, Reading DEF ReadLedger

LEMMA ReadStateRootKeeps == ASSUME Inv, NEW p \in Programs, ReadStateRoot(p) PROVE Inv'
<1>1. PICK t \in ExportTask : t = task[p] /\ ExportOK(t) /\ t.at = "state root"
  BY KindOf DEF ReadStateRoot, At, Verifying
<1>2. PICK k \in Nat : k = kernel.ledger
  BY DEF Inv, TypeInv, Kernels
<1> DEFINE u == [t EXCEPT !.at = "views", !.root = k]
<1>3. u \in ExportTask /\ u.at = "views" /\ u.root = k /\ u.hash = t.hash
  BY DEF ExportTask, Verifying
<1> HIDE DEF u
<1>4. ExportOK(u)
  <2>1. k <= k
    OBVIOUS
  <2>2. u.root <= kernel.ledger
    BY <1>2, <1>3, <2>1
  <2>3. u.hash = <<>>
    BY <1>1, <1>3 DEF ExportOK, Verifying
  <2> QED
    BY <1>3, <2>2, <2>3 DEF ExportOK, Verifying, Packing
<1>5. Become(p, u)
  BY <1>1, <1>2 DEF ReadStateRoot, RootOf, u
<1> QED
  BY <1>3, <1>4, <1>5, ExportIsOK, Reading DEF ReadStateRoot

LEMMA ListViewsKeeps == ASSUME Inv, NEW p \in Programs, ListViews(p) PROVE Inv'
<1>1. PICK t \in ExportTask : t = task[p] /\ ExportOK(t) /\ t.at = "views"
  BY KindOf DEF ListViews, At, Verifying
<1>2. PICK v \in Nat : v = product.views
  BY DEF Inv, TypeInv, Products
<1> DEFINE u == [t EXCEPT !.at = "rebuild", !.views = v]
<1>3. u \in ExportTask /\ u.at = "rebuild" /\ u.root = t.root /\ u.hash = t.hash
  BY DEF ExportTask, Verifying
<1>4. ExportOK(u)
  BY <1>1, <1>3 DEF ExportOK, Verifying, Packing
<1>5. Become(p, u)
  BY <1>1, <1>2 DEF ListViews
<1> QED
  BY <1>3, <1>4, <1>5, ExportIsOK, Reading DEF ListViews

LEMMA RebuildViewsKeeps == ASSUME Inv, NEW p \in Programs, RebuildViews(p) PROVE Inv'
<1>1. PICK t \in ExportTask : t = task[p] /\ ExportOK(t) /\ t.at = "rebuild"
  BY KindOf DEF RebuildViews, At, Verifying
<1>2. PICK v \in BOOLEAN : v = (Verifies(t.seen) /\ t.views = kernel.ledger)
  OBVIOUS
<1> DEFINE u == [t EXCEPT !.at = "hash", !.valid = v]
<1>3. u \in ExportTask /\ u.at = "hash" /\ u.root = t.root /\ u.hash = t.hash
  BY DEF ExportTask, Verifying
<1>4. u.hash = <<>> /\ t.root <= kernel.ledger
  BY <1>1, <1>3 DEF ExportOK, Verifying
<1>5. ExportOK(u)
  BY <1>3, <1>4 DEF ExportOK, Verifying, Packing
<1>6. Become(p, u)
  BY <1>1, <1>2 DEF RebuildViews
<1> QED
  BY <1>3, <1>5, <1>6, ExportIsOK, Reading DEF RebuildViews

\* With the last table hashed, this is the moment between root, hash and copies.
LEMMA HashTableKeeps == ASSUME Inv, NEW p \in Programs, HashTable(p) PROVE Inv'
<1>1. PICK t \in ExportTask : t = task[p] /\ ExportOK(t) /\ t.at = "hash"
  BY KindOf DEF HashTable, At, Verifying
<1>2. /\ t.hash \in Seq(Nat) /\ Len(t.hash) <= 2 /\ t.root \in Nat /\ t.root <= kernel.ledger
      /\ Len(t.hash) >= 1 => t.hash[1] <= product.items
      /\ Len(t.hash) >= 2 => t.hash[2] <= product.drafts
  <2>1. t.hash \in Seq(Nat) /\ t.root \in Nat
    BY DEF ExportTask
  <2> QED
    BY <1>1, <2>1 DEF ExportOK
<1>3. PICK k \in Nat, d \in Products : k = kernel.ledger /\ d = product /\ <<k, d>> \in states
  BY DEF Inv, TypeInv, SourceOK, State, Kernels
<1>4. d.items \in Nat /\ d.drafts \in Nat /\ d.views \in Nat /\ Below(d, d)
  BY DEF Products, Below
<1>5. PICK m \in 0 .. 2 : m = Len(t.hash)
  <2>1. PICK m : m = Len(t.hash)
    OBVIOUS
  <2>2. m \in Nat /\ m <= 2
    BY <1>2, <2>1
  <2>3. m \in 0 .. 2
    BY <2>2
  <2> QED
    BY <2>1, <2>3
<1>6. PICK n \in Nat : /\ n = d[Tables[m + 1]]
                       /\ m = 0 => n = d.items
                       /\ m = 1 => n = d.drafts
                       /\ m = 2 => n = d.views
  <2>1. CASE m = 0
    BY <1>4, <2>1 DEF Tables
  <2>2. CASE m = 1
    BY <1>4, <2>2 DEF Tables
  <2>3. CASE m = 2
    BY <1>4, <2>3 DEF Tables
  <2> QED
    BY <2>1, <2>2, <2>3
<1> DEFINE hash == Append(t.hash, n)
           at == IF m = 2 THEN "check" ELSE "hash"
           u == [t EXCEPT !.hash = hash, !.at = at]
<1>7. /\ hash \in Seq(Nat) /\ Len(hash) = m + 1 /\ hash[m + 1] = n
      /\ \A i \in 1 .. m : hash[i] = t.hash[i]
  BY <1>2, <1>5
<1>8. at \in {"check", "hash"}
  OBVIOUS
<1>9. Become(p, u)
  <2>1. product[Tables[Len(task[p].hash) + 1]] = n
    BY <1>1, <1>3, <1>5, <1>6
  <2>2. (IF Len(hash) = Len(Tables) THEN "check" ELSE t.at) = at
    BY <1>1, <1>7 DEF Tables
  <2> HIDE DEF at
  <2> QED
    BY <1>1, <2>1, <2>2 DEF HashTable
<1>10. at = "check" <=> m = 2
  OBVIOUS
<1> HIDE DEF hash, at
<1>11. u \in ExportTask /\ u.at = at /\ u.root = t.root /\ u.hash = hash
  <2>1. at \in Verifying \cup Packing
    BY <1>8 DEF Verifying, Packing
  <2>2. hash \in Seq(Nat)
    BY <1>7
  <2> QED
    BY <2>1, <2>2 DEF ExportTask
<1> HIDE DEF u
<1>12. /\ hash[1] <= d.items
       /\ m >= 1 => hash[2] <= d.drafts
       /\ m = 2 => hash[3] <= d.views
  <2>1. CASE m = 0
    BY <1>4, <1>6, <1>7, <2>1
  <2>2. CASE m = 1
    BY <1>2, <1>3, <1>4, <1>5, <1>6, <1>7, <2>2
  <2>3. CASE m = 2
    BY <1>2, <1>3, <1>4, <1>5, <1>6, <1>7, <2>3
  <2> QED
    BY <2>1, <2>2, <2>3
<1>13. ExportOK(u)
  <2>1. CASE m = 2
    <3>1. u.at = "check"
      BY <1>10, <1>11, <2>1
    <3>2. HashBelow(hash, d)
      BY <1>7, <1>12, <2>1 DEF HashBelow
    <3>3. t.root <= k /\ k <= k
      BY <1>2, <1>3
    <3>4. Between(t.root, hash, k, d)
      BY <1>3, <1>4, <3>2, <3>3 DEF Between
    <3>5. LedgerOf(u) = k /\ ProductOf(u) = d
      BY <1>3, <3>1 DEF LedgerOf, ProductOf
    <3>6. Between(u.root, u.hash, LedgerOf(u), ProductOf(u))
      BY <1>11, <3>4, <3>5
    <3> QED
      BY <3>1, <3>6 DEF ExportOK, Verifying, Packing
  <2>2. CASE m # 2
    <3>1. u.at = "hash" /\ Len(hash) <= 2
      BY <1>7, <1>8, <1>10, <1>11, <2>2
    <3>2. Len(hash) >= 2 => m >= 1
      BY <1>7
    <3>3. /\ hash[1] <= product.items
          /\ Len(hash) >= 2 => hash[2] <= product.drafts
      BY <1>3, <1>12, <3>2
    <3> QED
      BY <1>2, <1>11, <3>1, <3>3 DEF ExportOK, Verifying, Packing
  <2> QED
    BY <2>1, <2>2
<1> QED
  BY <1>9, <1>11, <1>13, ExportIsOK, Reading DEF HashTable

LEMMA CheckSourceKeeps == ASSUME Inv, NEW p \in Programs, CheckSource(p) PROVE Inv'
<1>1. PICK t \in ExportTask : t = task[p] /\ ExportOK(t) /\ t.at = "check"
  BY KindOf DEF CheckSource, At, Packing
<1>2. CASE t.valid
  <2> DEFINE u == [t EXCEPT !.at = "copy"]
  <2>1. u \in ExportTask /\ u.at = "copy" /\ u.root = t.root /\ u.hash = t.hash
    BY DEF ExportTask, Packing
  <2>2. Become(p, u)
    BY <1>1, <1>2 DEF CheckSource, Goto
  <2> HIDE DEF u
  <2>3. LedgerOf(u) = LedgerOf(t) /\ ProductOf(u) = ProductOf(t)
    BY <1>1, <2>1 DEF LedgerOf, ProductOf
  <2>4. Between(u.root, u.hash, LedgerOf(u), ProductOf(u))
    BY <1>1, <2>1, <2>3 DEF ExportOK, Packing
  <2>5. ExportOK(u)
    BY <2>1, <2>4 DEF ExportOK, Verifying, Packing
  <2> QED
    BY <2>1, <2>2, <2>5, ExportIsOK, Reading DEF CheckSource
<1>3. CASE ~t.valid
  BY <1>1, <1>3, Kinds, FailKeeps DEF CheckSource
<1> QED
  BY <1>2, <1>3

LEMMA CopyKernelKeeps == ASSUME Inv, NEW p \in Programs, CopyKernel(p) PROVE Inv'
<1>1. PICK t \in ExportTask : t = task[p] /\ ExportOK(t) /\ t.at = "copy"
  BY KindOf DEF CopyKernel, At, Packing
<1>2. PICK k \in Kernels : k = kernel
  BY DEF Inv, TypeInv
<1> DEFINE u == [t EXCEPT !.at = "copy product", !.kernel = k]
<1>3. u \in ExportTask /\ u.at = "copy product" /\ u.root = t.root /\ u.hash = t.hash /\ u.kernel = k
  BY DEF ExportTask, Packing
<1>4. Become(p, u)
  BY <1>1, <1>2 DEF CopyKernel
<1> HIDE DEF u
<1>5. LedgerOf(u) = LedgerOf(t) /\ ProductOf(u) = ProductOf(t)
  BY <1>1, <1>2, <1>3 DEF LedgerOf, ProductOf
<1>6. Between(u.root, u.hash, LedgerOf(u), ProductOf(u))
  BY <1>1, <1>3, <1>5 DEF ExportOK, Packing
<1>7. ExportOK(u)
  BY <1>3, <1>6 DEF ExportOK, Verifying, Packing
<1> QED
  BY <1>3, <1>4, <1>7, ExportIsOK, Reading DEF CopyKernel

LEMMA CopyProductKeeps == ASSUME Inv, NEW p \in Programs, CopyProduct(p) PROVE Inv'
<1>1. PICK t \in ExportTask : t = task[p] /\ ExportOK(t) /\ t.at = "copy product"
  BY KindOf DEF CopyProduct, At, Packing
<1>2. PICK d \in Products : d = product /\ HasBlobs(d, blobs)
  BY DEF Inv, TypeInv, SourceOK
<1> DEFINE u == [t EXCEPT !.at = "copy files", !.product = d]
<1>3. /\ u \in ExportTask /\ u.at = "copy files" /\ u.root = t.root /\ u.hash = t.hash
      /\ u.kernel = t.kernel /\ u.product = d
  BY DEF ExportTask, Packing
<1>4. Become(p, u)
  BY <1>1, <1>2 DEF CopyProduct
<1> HIDE DEF u
<1>5. LedgerOf(u) = LedgerOf(t) /\ ProductOf(u) = ProductOf(t)
  BY <1>1, <1>2, <1>3 DEF LedgerOf, ProductOf
<1>6. Between(u.root, u.hash, LedgerOf(u), ProductOf(u))
  BY <1>1, <1>3, <1>5 DEF ExportOK, Packing
<1>7. ExportOK(u)
  BY <1>2, <1>3, <1>6 DEF ExportOK, Verifying, Packing
<1> QED
  BY <1>3, <1>4, <1>7, ExportIsOK, Reading DEF CopyProduct

LEMMA CopyFilesKeeps == ASSUME Inv, NEW p \in Programs, CopyFiles(p) PROVE Inv'
<1>1. PICK t \in ExportTask : t = task[p] /\ ExportOK(t) /\ t.at = "copy files"
  BY KindOf DEF CopyFiles, At, Packing
<1>2. PICK b \in SUBSET Nat : b = blobs
  BY DEF Inv, TypeInv
<1> DEFINE u == [t EXCEPT !.at = "open", !.blobs = b]
<1>3. /\ u \in ExportTask /\ u.at = "open" /\ u.root = t.root /\ u.hash = t.hash
      /\ u.kernel = t.kernel /\ u.product = t.product /\ u.blobs = b
  BY DEF ExportTask, Packing
<1>4. Become(p, u)
  BY <1>1, <1>2 DEF CopyFiles
<1> HIDE DEF u
<1>5. LedgerOf(u) = LedgerOf(t) /\ ProductOf(u) = ProductOf(t)
  BY <1>1, <1>3 DEF LedgerOf, ProductOf
<1>6. Between(u.root, u.hash, LedgerOf(u), ProductOf(u)) /\ HasBlobs(u.product, u.blobs)
  BY <1>1, <1>2, <1>3, <1>5 DEF ExportOK, Packing
<1>7. ExportOK(u)
  BY <1>3, <1>6 DEF ExportOK, Verifying, Packing
<1> QED
  BY <1>3, <1>4, <1>7, ExportIsOK, Reading DEF CopyFiles

LEMMA OpenPackageKeeps == ASSUME Inv, NEW p \in Programs, OpenPackage(p) PROVE Inv'
<1>1. PICK t \in ExportTask : t = task[p] /\ ExportOK(t) /\ t.at = "open"
  BY KindOf DEF OpenPackage, At, Packing
<1> DEFINE u == [t EXCEPT !.at = "zip"]
<1>2. /\ u \in ExportTask /\ u.at = "zip" /\ u.root = t.root /\ u.hash = t.hash
      /\ u.kernel = t.kernel /\ u.product = t.product /\ u.blobs = t.blobs
  BY DEF ExportTask, Packing
<1>3. Become(p, u)
  BY <1>1 DEF OpenPackage, Goto
<1> HIDE DEF u
<1>4. LedgerOf(u) = LedgerOf(t) /\ ProductOf(u) = ProductOf(t)
  BY <1>1, <1>2 DEF LedgerOf, ProductOf
<1>5. Between(u.root, u.hash, LedgerOf(u), ProductOf(u)) /\ HasBlobs(u.product, u.blobs)
  BY <1>1, <1>2, <1>4 DEF ExportOK, Packing
<1>6. ExportOK(u)
  BY <1>2, <1>5 DEF ExportOK, Verifying, Packing
<1>7. PICK q, r : q = packages' /\ r = places
  OBVIOUS
<1>8. q \in [Paths -> {None, Partial} \cup Package]
  BY <1>7 DEF OpenPackage, Inv, TypeInv
<1>9. Partial \notin Package
  BY DEF Partial, Package
<1>10. \A path \in Paths : q[path] \in Package => PackageOK(q[path])
  BY <1>7, <1>9 DEF OpenPackage, Inv, TypeInv
<1>11. /\ r \in [Places -> {None, Empty} \cup Place] /\ places' = r
       /\ \A place \in Places : r[place] \in Place => IsWhole(r[place])
  BY <1>7 DEF OpenPackage, Inv, TypeInv
<1> QED
  BY <1>2, <1>3, <1>6, <1>7, <1>8, <1>10, <1>11, ExportIsOK, Stepping DEF OpenPackage

LEMMA ClosePackageKeeps == ASSUME Inv, NEW p \in Programs, ClosePackage(p) PROVE Inv'
<1>1. PICK t \in ExportTask : t = task[p] /\ ExportOK(t) /\ t.at = "zip"
  BY KindOf DEF ClosePackage, At, Packing
<1> DEFINE w == [kind |-> "package", kernel |-> t.kernel, product |-> t.product, blobs |-> t.blobs,
                 root |-> t.root, hash |-> t.hash, quiet |-> t.quiet]
           u == [at |-> "done", op |-> "export"]
<1>2. w \in Package
  BY DEF ExportTask, Package
<1>3. PackageOK(w)
  BY <1>1 DEF ExportOK, PackageOK, LedgerOf, ProductOf, Packing
<1>4. u \in PlainTask /\ Become(p, u)
  BY DEF PlainTask, ClosePackage
<1>5. packages' = [packages EXCEPT ![t.path] = w]
  BY <1>1 DEF ClosePackage
<1> HIDE DEF w, u
<1>6. PICK q, r : q = packages' /\ r = places
  OBVIOUS
<1>7. q \in [Paths -> {None, Partial} \cup Package]
  BY <1>2, <1>5, <1>6 DEF Inv, TypeInv
<1>8. \A path \in Paths : q[path] \in Package => PackageOK(q[path])
  BY <1>3, <1>5, <1>6 DEF Inv, TypeInv
<1>9. /\ r \in [Places -> {None, Empty} \cup Place] /\ places' = r
      /\ \A place \in Places : r[place] \in Place => IsWhole(r[place])
  BY <1>6 DEF ClosePackage, Inv, TypeInv
<1> QED
  BY <1>4, <1>6, <1>7, <1>8, <1>9, PlainOK, Stepping DEF ClosePackage

-----------------------------------------------------------------------------
(* A restore.                                                              *)

LEMMA BeginRestoreKeeps ==
  ASSUME Inv, NEW p \in Programs, NEW path \in Paths, NEW place \in Places, BeginRestore(p, path, place) PROVE Inv'
<1>1. PICK t : t = [at |-> IF places[place].kind = "workspace" THEN "failed" ELSE "stage",
                    op |-> "restore", path |-> path, place |-> place]
  OBVIOUS
<1>2. t \in PlainTask
  BY <1>1 DEF PlainTask
<1>3. Become(p, t) /\ UNCHANGED <<source, states, packages, places>>
  BY <1>1 DEF BeginRestore
<1> QED
  BY <1>2, <1>3, PlainOK, Reading

LEMMA UnzipKeeps == ASSUME Inv, NEW p \in Programs, Unzip(p) PROVE Inv'
<1>1. /\ task[p] \in [at : {"stage", "failed"}, op : {"restore"}, path : Paths, place : Places]
      /\ task[p].op = "restore" /\ task[p].path \in Paths /\ task[p].place \in Places
  BY KindOf DEF Unzip, At
<1>2. PICK w : w = packages[task[p].path]
  OBVIOUS
<1>3. CASE w.kind = "package"
  <2>1. w \in Package /\ PackageOK(w)
    <3>1. w \in {None, Partial} \cup Package
      BY <1>1, <1>2 DEF Inv, TypeInv
    <3>2. w \in Package
      BY <1>3, <3>1 DEF None, Partial
    <3> QED
      BY <1>1, <1>2, <3>2 DEF Inv
  <2> DEFINE u == [at |-> "verify", op |-> "restore", place |-> task[p].place, staged |-> w]
  <2>2. PICK v : v = u
    OBVIOUS
  <2>3. v \in RestoreTask /\ v.at = "verify" /\ v.staged = w
    BY <1>1, <2>1, <2>2 DEF RestoreTask
  <2>4. RestoreOK(v)
    BY <2>1, <2>3 DEF RestoreOK
  <2>5. Become(p, v)
    BY <1>2, <1>3, <2>2 DEF Unzip
  <2> QED
    BY <2>3, <2>4, <2>5, RestoreIsOK, Reading DEF Unzip
<1>4. CASE w.kind # "package"
  BY <1>1, <1>2, <1>4, FailKeeps DEF Unzip
<1> QED
  BY <1>3, <1>4

LEMMA VerifyStagedKeeps == ASSUME Inv, NEW p \in Programs, VerifyStaged(p) PROVE Inv'
<1>1. PICK t \in RestoreTask : t = task[p] /\ RestoreOK(t) /\ t.at = "verify"
  BY KindOf DEF VerifyStaged, At
<1>2. CASE StagedIsRight(t.staged)
  <2> DEFINE u == [t EXCEPT !.at = "rmdir"]
  <2>1. u \in RestoreTask /\ u.staged = t.staged
    BY DEF RestoreTask
  <2>2. Become(p, u)
    BY <1>1, <1>2 DEF VerifyStaged, Goto
  <2> HIDE DEF u
  <2>3. RestoreOK(u)
    BY <1>1, <1>2, <2>1 DEF RestoreOK
  <2> QED
    BY <2>1, <2>2, <2>3, RestoreIsOK, Reading DEF VerifyStaged
<1>3. CASE ~StagedIsRight(t.staged)
  <2>1. t.op = "restore"
    BY DEF RestoreTask
  <2> QED
    BY <1>1, <1>3, <2>1, FailKeeps DEF VerifyStaged
<1> QED
  BY <1>2, <1>3

LEMMA RemovePlaceKeeps == ASSUME Inv, NEW p \in Programs, RemovePlace(p) PROVE Inv'
<1>1. PICK t \in RestoreTask : t = task[p] /\ RestoreOK(t) /\ t.at = "rmdir" /\ t.op = "restore" /\ t.place \in Places
  BY KindOf DEF RemovePlace, At, RestoreTask
<1>2. CASE places[t.place].kind = "workspace"
  BY <1>1, <1>2, FailKeeps DEF RemovePlace
<1>3. CASE places[t.place].kind # "workspace"
  <2> DEFINE u == [t EXCEPT !.at = "move"]
  <2>1. u \in RestoreTask /\ u.staged = t.staged
    BY DEF RestoreTask
  <2>2. Become(p, u)
    BY <1>1, <1>3 DEF RemovePlace, Goto
  <2> HIDE DEF u
  <2>3. RestoreOK(u)
    BY <1>1, <2>1 DEF RestoreOK
  <2>4. PICK q, r : q = packages /\ r = places'
    OBVIOUS
  <2>5. r = [places EXCEPT ![t.place] = None]
    BY <1>1, <1>3, <2>4 DEF RemovePlace
  <2>6. None \notin Place
    BY DEF None, Place
  <2>7. /\ r \in [Places -> {None, Empty} \cup Place]
        /\ \A place \in Places : r[place] \in Place => IsWhole(r[place])
    BY <2>5, <2>6 DEF Inv, TypeInv
  <2>8. /\ q \in [Paths -> {None, Partial} \cup Package] /\ packages' = q
        /\ \A path \in Paths : q[path] \in Package => PackageOK(q[path])
    BY <2>4 DEF RemovePlace, Inv, TypeInv
  <2> QED
    BY <2>1, <2>2, <2>3, <2>4, <2>7, <2>8, RestoreIsOK, Stepping DEF RemovePlace
<1> QED
  BY <1>2, <1>3

LEMMA MovePlaceKeeps == ASSUME Inv, NEW p \in Programs, MovePlace(p) PROVE Inv'
<1>1. PICK t \in RestoreTask : t = task[p] /\ RestoreOK(t) /\ t.at = "move" /\ t.op = "restore" /\ t.place \in Places
  BY KindOf DEF MovePlace, At, RestoreTask
<1>2. CASE places[t.place].kind = "workspace"
  BY <1>1, <1>2, FailKeeps DEF MovePlace
<1>3. CASE places[t.place].kind # "workspace"
  <2> DEFINE u == [at |-> "done", op |-> "restore"]
  <2>1. u \in PlainTask
    BY DEF PlainTask
  <2>2. Become(p, u)
    BY <1>1, <1>3 DEF MovePlace
  <2> HIDE DEF u
  <2>3. PICK w \in Package : w = t.staged /\ PackageOK(w) /\ StagedIsRight(w)
    BY <1>1 DEF RestoreTask, RestoreOK
  <2>4. Workspace(w) \in Place /\ IsWhole(Workspace(w))
    BY <2>3, OneMoment
  <2>5. PICK q, r : q = packages /\ r = places'
    OBVIOUS
  <2>6. r = [places EXCEPT ![t.place] = Workspace(w)]
    BY <1>1, <1>3, <2>3, <2>5 DEF MovePlace
  <2>7. /\ r \in [Places -> {None, Empty} \cup Place]
        /\ \A place \in Places : r[place] \in Place => IsWhole(r[place])
    BY <2>4, <2>6 DEF Inv, TypeInv
  <2>8. /\ q \in [Paths -> {None, Partial} \cup Package] /\ packages' = q
        /\ \A path \in Paths : q[path] \in Package => PackageOK(q[path])
    BY <2>5 DEF MovePlace, Inv, TypeInv
  <2> QED
    BY <2>1, <2>2, <2>5, <2>7, <2>8, PlainOK, Stepping DEF MovePlace
<1> QED
  BY <1>2, <1>3

-----------------------------------------------------------------------------
(* The theorems.                                                           *)

LEMMA InitHolds == Init => Inv
<1> SUFFICES ASSUME Init PROVE Inv
  OBVIOUS
<1>1. kernel = [ledger |-> 1, rejected |-> 0] /\ product = [items |-> 0, drafts |-> 0, views |-> 1]
  BY DEF Init, NoTables
<1>2. Idle \in PlainTask /\ None \notin Package /\ None \notin Place /\ Empty \notin Place
  BY DEF Idle, PlainTask, None, Package, Place, Empty
<1>3. TypeInv
  <2>1. kernel \in Kernels /\ product \in Products
    BY <1>1 DEF Kernels, Products
  <2>2. task \in [Programs -> Tasks]
    BY <1>2, PlainOK DEF Init
  <2>3. blobs \subseteq Nat
    BY DEF Init
  <2>4. packages \in [Paths -> {None, Partial} \cup Package]
    BY DEF Init
  <2>5. places \in [Places -> {None, Empty} \cup Place]
    BY DEF Init
  <2> QED
    BY <2>1, <2>2, <2>3, <2>4, <2>5 DEF TypeInv
<1>4. SourceOK
  BY <1>1 DEF Init, SourceOK, HasBlobs
<1>5. \A p \in Programs : TaskOK(task[p])
  BY <1>2, PlainOK DEF Init
<1> QED
  BY <1>2, <1>3, <1>4, <1>5 DEF Init, Inv

LEMMA StepKeeps == Inv /\ [Next]_vars => Inv'
<1> SUFFICES ASSUME Inv, [Next]_vars PROVE Inv'
  OBVIOUS
<1>1. CASE Others
  BY <1>1, OthersKeep
<1>2. ASSUME NEW p \in Programs, NEW path \in Paths, BeginExport(p, path) PROVE Inv'
  BY <1>2, BeginExportKeeps
<1>3. ASSUME NEW p \in Programs, NEW path \in Paths, NEW place \in Places, BeginRestore(p, path, place) PROVE Inv'
  BY <1>3, BeginRestoreKeeps
<1>4. ASSUME NEW p \in Programs,
             \/ ReadLedger(p) \/ ReadStateRoot(p) \/ ListViews(p) \/ RebuildViews(p) \/ HashTable(p)
      PROVE  Inv'
  BY <1>4, ReadLedgerKeeps, ReadStateRootKeeps, ListViewsKeeps, RebuildViewsKeeps, HashTableKeeps
<1>5. ASSUME NEW p \in Programs,
             \/ CheckSource(p) \/ CopyKernel(p) \/ CopyProduct(p) \/ CopyFiles(p)
             \/ OpenPackage(p) \/ ClosePackage(p)
      PROVE  Inv'
  BY <1>5, CheckSourceKeeps, CopyKernelKeeps, CopyProductKeeps, CopyFilesKeeps, OpenPackageKeeps, ClosePackageKeeps
<1>6. ASSUME NEW p \in Programs, Unzip(p) \/ VerifyStaged(p) \/ RemovePlace(p) \/ MovePlace(p)
      PROVE  Inv'
  BY <1>6, UnzipKeeps, VerifyStagedKeeps, RemovePlaceKeeps, MovePlaceKeeps
<1>7. ASSUME NEW p \in Programs, Return(p) \/ Crash(p) PROVE Inv'
  BY <1>7, EndKeeps DEF Return, Crash
<1>8. CASE UNCHANGED vars
  <2>1. UNCHANGED <<source, states, packages, places, task>>
    BY <1>8 DEF vars
  <2>2. SourceOK' /\ TypeInv'
    BY <2>1 DEF Inv, TypeInv, SourceOK, HasBlobs, State, source
  <2>3. Grows
    BY <2>1, SameGrows DEF Inv
  <2>4. \A x \in Programs : TaskOK(task[x])'
    <3> SUFFICES ASSUME NEW x \in Programs PROVE TaskOK(task[x])'
      OBVIOUS
    <3>1. PICK t : t = task[x] /\ t = task'[x] /\ TaskOK(t)
      BY <2>1 DEF Inv
    <3>2. TaskOK(t)'
      BY <2>2, <2>3, <3>1, TaskKeeps DEF Inv
    <3> QED
      BY <3>1, <3>2
  <2>5. \A path \in Paths : (packages[path] \in Package => PackageOK(packages[path]))'
    <3> SUFFICES ASSUME NEW path \in Paths, packages'[path] \in Package PROVE PackageOK(packages[path])'
      OBVIOUS
    <3>1. PICK w \in Package : w = packages'[path] /\ PackageOK(w)
      BY <2>1 DEF Inv
    <3>2. PackageOK(w)'
      BY <2>3, <3>1, PackageKeeps DEF Grows
    <3> QED
      BY <3>1, <3>2
  <2>6. \A place \in Places : (places[place] \in Place => IsWhole(places[place]))'
    BY <2>1 DEF IsWhole, Inv
  <2> QED
    BY <2>2, <2>4, <2>5, <2>6 DEF Inv
<1> QED
  BY <1>1, <1>2, <1>3, <1>4, <1>5, <1>6, <1>7, <1>8 DEF Next

\* Only a restore changes a destination, and it looks before it removes or moves.
LEMMA NoneIsReplaced ==
  ASSUME Inv, [Next]_vars PROVE \A place \in Restored : places'[place] = places[place]
<1> SUFFICES ASSUME NEW place \in Places, places[place].kind = "workspace" PROVE places'[place] = places[place]
  BY DEF Restored
<1>1. CASE places' = places
  BY <1>1
<1>2. ASSUME NEW p \in Programs, RemovePlace(p) \/ MovePlace(p) PROVE places'[place] = places[place]
  <2>1. CASE places[task[p].place].kind = "workspace"
    BY <1>2, <2>1 DEF RemovePlace, MovePlace
  <2>2. CASE places[task[p].place].kind # "workspace"
    BY <1>2, <2>2 DEF RemovePlace, MovePlace, Inv, TypeInv
  <2> QED
    BY <2>1, <2>2
<1>3. CASE Others
  BY <1>3 DEF Others, Commit, Reject, PreserveBlob, PutItem, PutDraft, Build, Write
<1>4. ASSUME NEW p \in Programs, NEW path \in Paths,
             BeginExport(p, path) \/ (\E to \in Places : BeginRestore(p, path, to))
      PROVE  places' = places
  BY <1>4 DEF BeginExport, BeginRestore
<1>5. ASSUME NEW p \in Programs,
             \/ ReadLedger(p) \/ ReadStateRoot(p) \/ ListViews(p) \/ RebuildViews(p) \/ HashTable(p)
             \/ CheckSource(p) \/ CopyKernel(p) \/ CopyProduct(p) \/ CopyFiles(p)
             \/ OpenPackage(p) \/ ClosePackage(p)
             \/ Unzip(p) \/ VerifyStaged(p) \/ Return(p) \/ Crash(p)
      PROVE  places' = places
  BY <1>5 DEF ReadLedger, ReadStateRoot, ListViews, RebuildViews, HashTable, CheckSource, CopyKernel,
              CopyProduct, CopyFiles, OpenPackage, ClosePackage, Unzip, VerifyStaged, Return, Crash
<1>6. CASE UNCHANGED vars
  BY <1>6 DEF vars
<1> QED
  BY <1>1, <1>2, <1>3, <1>4, <1>5, <1>6 DEF Next

\* The invariant holds in every run: the statements of a manifest and the copies
\* beside it are of moments in order.
LEMMA Always == Spec => []Inv
BY InitHolds, StepKeeps, PTL DEF Spec

\* restore_backup gives back a state that export_backup's workspace was in at
\* one moment, with current views and every blob, however many programs write,
\* export, restore and die meanwhile; and it never replaces a workspace.
THEOREM RestoresAreWhole == Spec => RestoredIsWhole
<1>1. Inv /\ Inv' /\ [Next]_vars =>
        [/\ \A place \in Restored : places'[place] = places[place]
         /\ (\A place \in Restored : IsWhole(places[place]))']_vars
  <2> SUFFICES ASSUME Inv, Inv', [Next]_vars
               PROVE  /\ \A place \in Restored : places'[place] = places[place]
                      /\ (\A place \in Restored : IsWhole(places[place]))'
    OBVIOUS
  <2>1. \A place \in Places : places'[place].kind = "workspace" => places'[place] \in Place
    BY DEF Inv, TypeInv, None, Empty
  <2>2. (\A place \in Restored : IsWhole(places[place]))'
    BY <2>1 DEF Restored, Inv
  <2> QED
    BY <2>2, NoneIsReplaced
<1> QED
  BY <1>1, Always, PTL DEF Spec, RestoredIsWhole

-----------------------------------------------------------------------------
(* Exports that nobody wrote beside.                                       *)

Read == {"hash"} \cup Packing
\* All that an undisturbed export has read or copied is as it was.
QuietOK(t) ==
  /\ t.at = "ledger" => t.seen \subseteq {kernel.ledger}
  /\ t.at # "ledger" => t.seen = {kernel.ledger}
  /\ t.at \in {"views", "rebuild"} \cup Read => t.root = kernel.ledger
  /\ t.at \in {"rebuild"} \cup Read => t.views = product.views
  /\ t.at \in Read => (t.valid <=> product.views = kernel.ledger)
  /\ t.at = "hash" => Len(t.hash) <= 2 /\ \A i \in 1 .. Len(t.hash) : t.hash[i] = product[Tables[i]]
  /\ t.at \in Packing => t.hash = HashOf(product)
  /\ t.at \in Packing \ {"check"} => t.valid
  /\ t.at \in Packing \ {"check", "copy"} => t.kernel.ledger = kernel.ledger
  /\ t.at \in {"copy files", "open", "zip"} => t.product = product
Undisturbed(t) == t \in ExportTask /\ t.quiet
QuietInv ==
  /\ \A p \in Programs : Undisturbed(task[p]) => QuietOK(task[p])
  /\ \A path \in Paths : packages[path] \in Package /\ packages[path].quiet => StagedIsRight(packages[path])

LEMMA QuietTask ==
  ASSUME Inv, QuietInv, UNCHANGED <<source, packages>>,
         NEW p \in Programs, NEW t, Become(p, t), Undisturbed(t) => QuietOK(t)
  PROVE  QuietInv'
<1>1. kernel' = kernel /\ product' = product /\ packages' = packages
  BY DEF source
<1>2. \A x \in Programs : (Undisturbed(task[x]) => QuietOK(task[x]))'
  <2> SUFFICES ASSUME NEW x \in Programs, Undisturbed(task'[x]) PROVE QuietOK(task[x])'
    BY DEF Undisturbed
  <2>1. task'[x] = t \/ task'[x] = task[x]
    BY DEF Inv, TypeInv, Become
  <2>2. PICK u : u = task'[x] /\ QuietOK(u)
    BY <2>1 DEF QuietInv
  <2>3. QuietOK(u)'
    BY <1>1, <2>2 DEF QuietOK
  <2> QED
    BY <2>2, <2>3
<1>3. \A path \in Paths : (packages[path] \in Package /\ packages[path].quiet => StagedIsRight(packages[path]))'
  BY <1>1 DEF QuietInv, StagedIsRight
<1> QED
  BY <1>2, <1>3 DEF QuietInv

LEMMA QuietPlain ==
  ASSUME Inv, QuietInv, UNCHANGED <<source, packages>>,
         NEW p \in Programs, NEW t, Become(p, t), t \notin ExportTask
  PROVE  QuietInv'
BY QuietTask DEF Undisturbed

\* A write that leaves exports undisturbed changes nothing they look at.
LEMMA QuietWriting ==
  ASSUME Inv, QuietInv, NEW k, NEW d, NEW b, Write(k, d, b) PROVE QuietInv'
<1>1. packages' = packages /\ kernel' = k /\ product' = d
  BY DEF Write
<1>2. CASE d = product /\ k.ledger = kernel.ledger /\ task' = task
  <2>1. kernel'.ledger = kernel.ledger /\ product' = product
    BY <1>1, <1>2
  <2>2. \A x \in Programs : (Undisturbed(task[x]) => QuietOK(task[x]))'
    <3> SUFFICES ASSUME NEW x \in Programs, Undisturbed(task'[x]) PROVE QuietOK(task[x])'
      BY DEF Undisturbed
    <3>1. PICK u : u = task[x] /\ u = task'[x] /\ QuietOK(u)
      BY <1>2 DEF QuietInv
    <3>2. QuietOK(u)'
      BY <2>1, <3>1 DEF QuietOK
    <3> QED
      BY <3>1, <3>2
  <2>3. \A path \in Paths : (packages[path] \in Package /\ packages[path].quiet => StagedIsRight(packages[path]))'
    BY <1>1 DEF QuietInv, StagedIsRight
  <2> QED
    BY <2>2, <2>3 DEF QuietInv
<1>3. CASE task' = Disturbed
  <2>1. \A x \in Programs : ~Undisturbed(task'[x])
    <3> SUFFICES ASSUME NEW x \in Programs PROVE ~Undisturbed(task'[x])
      OBVIOUS
    <3>1. PICK t \in Tasks : t = task[x]
      BY DEF Inv, TypeInv
    <3>2. PICK u : u = task'[x] /\ u = IF "quiet" \in DOMAIN t THEN [t EXCEPT !.quiet = FALSE] ELSE t
      BY <1>3, <3>1 DEF Disturbed
    <3>3. CASE t \in ExportTask
      <4>1. "quiet" \in DOMAIN t
        BY <3>3, Kinds
      <4>2. u.quiet = FALSE
        BY <3>2, <4>1
      <4> QED
        BY <3>2, <4>2 DEF Undisturbed
    <3>4. CASE t \notin ExportTask
      BY <3>1, <3>2, <3>4, Kinds DEF Tasks, Undisturbed
    <3> QED
      BY <3>3, <3>4
  <2>2. \A path \in Paths : (packages[path] \in Package /\ packages[path].quiet => StagedIsRight(packages[path]))'
    BY <1>1 DEF QuietInv, StagedIsRight
  <2> QED
    BY <2>1, <2>2 DEF QuietInv, Undisturbed
<1> QED
  BY <1>2, <1>3 DEF Write

LEMMA HashIsOf ==
  ASSUME NEW hash \in Seq(Nat), Len(hash) = 3, NEW d,
         hash[1] = d[Tables[1]], hash[2] = d[Tables[2]], hash[3] = d[Tables[3]]
  PROVE  hash = HashOf(d)
<1>1. DOMAIN Tables = 1 .. 3 /\ DOMAIN hash = 1 .. 3
  BY DEF Tables
<1>2. \A i \in 1 .. 3 : hash[i] = d[Tables[i]]
  OBVIOUS
<1>3. hash = [i \in 1 .. 3 |-> hash[i]]
  BY <1>1
<1> QED
  BY <1>1, <1>2, <1>3 DEF HashOf

LEMMA QuietExport ==
  ASSUME Inv, QuietInv, NEW p \in Programs,
         \/ \E path \in Paths : BeginExport(p, path)
         \/ ReadLedger(p) \/ ReadStateRoot(p) \/ ListViews(p) \/ RebuildViews(p)
  PROVE  QuietInv'
<1>1. ASSUME NEW path \in Paths, BeginExport(p, path) PROVE QuietInv'
  <2>1. PICK t : t = [at |-> "ledger", op |-> "export", path |-> path, quiet |-> TRUE,
                      next |-> 1, seen |-> {}, root |-> 0, views |-> 0, valid |-> FALSE, hash |-> <<>>,
                      kernel |-> NoLedger, product |-> NoTables, blobs |-> {}]
    OBVIOUS
  <2>2. QuietOK(t)
    BY <2>1 DEF QuietOK, Read, Packing
  <2> QED
    BY <1>1, <2>1, <2>2, QuietTask DEF BeginExport
<1>2. PICK t : t = task[p] /\ (Undisturbed(t) => QuietOK(t))
  BY DEF QuietInv
<1>3. CASE ReadLedger(p)
  <2>1. t \in ExportTask /\ t.at = "ledger"
    BY <1>2, <1>3, KindOf DEF ReadLedger, At, Verifying
  <2>2. PICK n, at : /\ at \in {"ledger", "state root"}
                     /\ Become(p, [t EXCEPT !.seen = @ \cup {kernel.ledger}, !.next = n, !.at = at])
    <3>1. (IF t.next = Len(LedgerReads) THEN "state root" ELSE t.at) \in {"ledger", "state root"}
      BY <2>1
    <3> QED
      BY <1>2, <1>3, <3>1 DEF ReadLedger
  <2> DEFINE u == [t EXCEPT !.seen = @ \cup {kernel.ledger}, !.next = n, !.at = at]
  <2>3. u.at = at /\ u.seen = t.seen \cup {kernel.ledger} /\ u.quiet = t.quiet
    BY <2>1 DEF ExportTask
  <2>4. Become(p, u)
    BY <2>2
  <2> HIDE DEF u
  <2>5. Undisturbed(u) => QuietOK(u)
    <3> SUFFICES ASSUME Undisturbed(u) PROVE QuietOK(u)
      OBVIOUS
    <3>1. t.seen \subseteq {kernel.ledger}
      BY <1>2, <2>1, <2>3 DEF Undisturbed, QuietOK
    <3>2. u.seen = {kernel.ledger}
      BY <2>3, <3>1
    <3> QED
      BY <2>2, <2>3, <3>2 DEF QuietOK, Read, Packing
  <2> QED
    BY <1>3, <2>4, <2>5, QuietTask DEF ReadLedger
<1>4. CASE ReadStateRoot(p)
  <2>1. t \in ExportTask /\ t.at = "state root"
    BY <1>2, <1>4, KindOf DEF ReadStateRoot, At, Verifying
  <2> DEFINE u == [t EXCEPT !.at = "views", !.root = kernel.ledger]
  <2>2. u.at = "views" /\ u.root = kernel.ledger /\ u.seen = t.seen /\ u.quiet = t.quiet
    BY <2>1 DEF ExportTask
  <2>3. Become(p, u)
    BY <1>2, <1>4 DEF ReadStateRoot, RootOf
  <2> HIDE DEF u
  <2>4. Undisturbed(u) => QuietOK(u)
    BY <1>2, <2>1, <2>2 DEF Undisturbed, QuietOK, Read, Packing
  <2> QED
    BY <1>4, <2>3, <2>4, QuietTask DEF ReadStateRoot
<1>5. CASE ListViews(p)
  <2>1. t \in ExportTask /\ t.at = "views"
    BY <1>2, <1>5, KindOf DEF ListViews, At, Verifying
  <2> DEFINE u == [t EXCEPT !.at = "rebuild", !.views = product.views]
  <2>2. u.at = "rebuild" /\ u.views = product.views /\ u.root = t.root /\ u.seen = t.seen /\ u.quiet = t.quiet
    BY <2>1 DEF ExportTask
  <2>3. Become(p, u)
    BY <1>2, <1>5 DEF ListViews
  <2> HIDE DEF u
  <2>4. Undisturbed(u) => QuietOK(u)
    BY <1>2, <2>1, <2>2 DEF Undisturbed, QuietOK, Read, Packing
  <2> QED
    BY <1>5, <2>3, <2>4, QuietTask DEF ListViews
<1>6. CASE RebuildViews(p)
  <2>1. t \in ExportTask /\ ExportOK(t) /\ t.at = "rebuild"
    BY <1>2, <1>6, KindOf DEF RebuildViews, At, Verifying
  <2>2. PICK v : v = (Verifies(t.seen) /\ t.views = kernel.ledger)
    OBVIOUS
  <2> DEFINE u == [t EXCEPT !.at = "hash", !.valid = v]
  <2>3. /\ u.at = "hash" /\ u.valid = v /\ u.views = t.views /\ u.root = t.root
        /\ u.seen = t.seen /\ u.quiet = t.quiet /\ u.hash = t.hash
    BY <2>1 DEF ExportTask
  <2>4. Become(p, u)
    BY <1>2, <1>6, <2>2 DEF RebuildViews
  <2> HIDE DEF u
  <2>5. u.hash = <<>>
    BY <2>1, <2>3 DEF ExportOK, Verifying
  <2>6. Undisturbed(u) => QuietOK(u)
    <3> SUFFICES ASSUME Undisturbed(u) PROVE QuietOK(u)
      OBVIOUS
    <3>1. t.seen = {kernel.ledger} /\ t.root = kernel.ledger /\ t.views = product.views
      BY <1>2, <2>1, <2>3 DEF Undisturbed, QuietOK
    <3>2. Cardinality({kernel.ledger}) = 1
      BY FS_Singleton
    <3>3. u.valid <=> product.views = kernel.ledger
      BY <2>2, <2>3, <3>1, <3>2 DEF Verifies
    <3> QED
      BY <2>3, <2>5, <3>1, <3>3 DEF QuietOK, Read, Packing
  <2> QED
    BY <1>6, <2>4, <2>6, QuietTask DEF RebuildViews
<1> QED
  BY <1>1, <1>3, <1>4, <1>5, <1>6

LEMMA QuietHash == ASSUME Inv, QuietInv, NEW p \in Programs, HashTable(p) PROVE QuietInv'
<1>1. PICK t : t = task[p] /\ t \in ExportTask /\ ExportOK(t) /\ t.at = "hash" /\ (Undisturbed(t) => QuietOK(t))
  BY KindOf DEF HashTable, At, Verifying, QuietInv
<1>2. PICK hash : hash = Append(t.hash, product[Tables[Len(t.hash) + 1]])
  OBVIOUS
<1>3. PICK at : at = IF Len(hash) = Len(Tables) THEN "check" ELSE t.at
  OBVIOUS
<1> DEFINE u == [t EXCEPT !.hash = hash, !.at = at]
<1>4. Become(p, u) /\ UNCHANGED <<source, packages>>
  BY <1>1, <1>2, <1>3 DEF HashTable
<1>5. /\ u.at = at /\ u.hash = hash /\ u.quiet = t.quiet /\ u.seen = t.seen /\ u.root = t.root
      /\ u.views = t.views /\ u.valid = t.valid
  BY <1>1 DEF ExportTask
<1> HIDE DEF u
<1>6. Undisturbed(u) => QuietOK(u)
  <2> SUFFICES ASSUME Undisturbed(u) PROVE QuietOK(u)
    OBVIOUS
  <2>1. QuietOK(t)
    BY <1>1, <1>5 DEF Undisturbed
  <2>2. /\ t.seen = {kernel.ledger} /\ t.root = kernel.ledger /\ t.views = product.views
        /\ (t.valid <=> product.views = kernel.ledger)
    BY <1>1, <2>1 DEF QuietOK, Read
  <2>3. PICK h \in Seq(Nat) : h = t.hash
    BY <1>1 DEF ExportTask
  <2>4. Len(h) <= 2 /\ \A i \in 1 .. Len(h) : h[i] = product[Tables[i]]
    BY <1>1, <2>1, <2>3 DEF QuietOK
  <2>5. product[Tables[Len(h) + 1]] \in Nat
    <3>1. PICK m : m = Len(h)
      OBVIOUS
    <3>2. m \in Nat /\ m <= 2
      BY <2>3, <2>4, <3>1
    <3>3. m = 0 \/ m = 1 \/ m = 2
      BY <3>2
    <3>4. PICK d \in Products : d = product
      BY DEF Inv, TypeInv
    <3>5. d.items \in Nat /\ d.drafts \in Nat /\ d.views \in Nat
      BY DEF Products
    <3>6. d[Tables[m + 1]] \in Nat
      <4>1. CASE m = 0
        BY <3>5, <4>1 DEF Tables
      <4>2. CASE m = 1
        BY <3>5, <4>2 DEF Tables
      <4>3. CASE m = 2
        BY <3>5, <4>3 DEF Tables
      <4> QED
        BY <3>3, <4>1, <4>2, <4>3
    <3> QED
      BY <3>1, <3>4, <3>6
  <2>6. PICK n \in Nat : n = product[Tables[Len(h) + 1]]
    BY <2>5
  <2>7. hash = Append(h, n)
    BY <1>2, <2>3, <2>6
  <2>8. hash \in Seq(Nat) /\ Len(hash) = Len(h) + 1 /\ hash[Len(h) + 1] = n /\ \A i \in 1 .. Len(h) : hash[i] = h[i]
    BY <2>3, <2>6, <2>7
  <2>9. \A i \in 1 .. Len(hash) : hash[i] = product[Tables[i]]
    <3> SUFFICES ASSUME NEW i \in 1 .. Len(hash) PROVE hash[i] = product[Tables[i]]
      OBVIOUS
    <3>1. CASE i = Len(h) + 1
      BY <2>6, <2>8, <3>1
    <3>2. CASE i # Len(h) + 1
      <4>1. i \in 1 .. Len(h)
        BY <2>3, <2>8, <3>2
      <4> QED
        BY <2>4, <2>8, <4>1
    <3> QED
      BY <3>1, <3>2
  <2>10. CASE Len(hash) = 3
    <3>1. hash = HashOf(product)
      BY <2>8, <2>9, <2>10, HashIsOf
    <3>2. at = "check"
      BY <1>3, <2>10 DEF Tables
    <3> QED
      BY <1>5, <2>2, <3>1, <3>2 DEF QuietOK, Read, Packing
  <2>11. CASE Len(hash) # 3
    <3>1. at = "hash"
      BY <1>1, <1>3, <2>11 DEF Tables
    <3>2. Len(hash) <= 2
      BY <2>3, <2>4, <2>8, <2>11
    <3> QED
      BY <1>5, <2>2, <2>9, <3>1, <3>2 DEF QuietOK, Read, Packing
  <2> QED
    BY <2>10, <2>11
<1> QED
  BY <1>4, <1>6, QuietTask

\* An undisturbed export of current views verifies; what it copies is what it read.
LEMMA QuietCopy ==
  ASSUME Inv, QuietInv, NEW p \in Programs, CheckSource(p) \/ CopyKernel(p) \/ CopyProduct(p) \/ CopyFiles(p)
  PROVE  QuietInv'
<1>1. PICK t : t = task[p] /\ t \in ExportTask /\ (Undisturbed(t) => QuietOK(t))
  BY KindOf DEF CheckSource, CopyKernel, CopyProduct, CopyFiles, At, Packing, QuietInv
<1>2. UNCHANGED <<source, packages>>
  BY DEF CheckSource, CopyKernel, CopyProduct, CopyFiles
<1>3. CASE CheckSource(p)
  <2>1. t.at = "check"
    BY <1>1, <1>3 DEF CheckSource, At
  <2>2. CASE t.valid
    <3> DEFINE u == [t EXCEPT !.at = "copy"]
    <3>1. Become(p, u)
      BY <1>1, <1>3, <2>2 DEF CheckSource, Goto
    <3>2. /\ u.at = "copy" /\ u.quiet = t.quiet /\ u.seen = t.seen /\ u.root = t.root
          /\ u.views = t.views /\ u.valid = t.valid /\ u.hash = t.hash
      BY <1>1 DEF ExportTask
    <3> HIDE DEF u
    <3>3. Undisturbed(u) => QuietOK(u)
      BY <1>1, <2>1, <2>2, <3>2 DEF Undisturbed, QuietOK, Read, Packing
    <3> QED
      BY <1>2, <3>1, <3>3, QuietTask
  <2>3. CASE ~t.valid
    <3>1. PICK u : u = [at |-> "failed", op |-> task[p].op]
      OBVIOUS
    <3>2. u \notin ExportTask
      <4>1. u.at = "failed"
        BY <3>1
      <4> QED
        BY <4>1, Kinds DEF Verifying, Packing
    <3> QED
      BY <1>1, <1>2, <1>3, <2>3, <3>1, <3>2, QuietPlain DEF CheckSource, Fail
  <2> QED
    BY <2>2, <2>3
<1>4. CASE CopyKernel(p)
  <2>1. t.at = "copy"
    BY <1>1, <1>4 DEF CopyKernel, At
  <2> DEFINE u == [t EXCEPT !.at = "copy product", !.kernel = kernel]
  <2>2. Become(p, u)
    BY <1>1, <1>4 DEF CopyKernel
  <2>3. /\ u.at = "copy product" /\ u.kernel = kernel /\ u.quiet = t.quiet /\ u.seen = t.seen /\ u.root = t.root
        /\ u.views = t.views /\ u.valid = t.valid /\ u.hash = t.hash
    BY <1>1 DEF ExportTask
  <2> HIDE DEF u
  <2>4. Undisturbed(u) => QuietOK(u)
    BY <1>1, <2>1, <2>3 DEF Undisturbed, QuietOK, Read, Packing
  <2> QED
    BY <1>2, <2>2, <2>4, QuietTask
<1>5. CASE CopyProduct(p)
  <2>1. t.at = "copy product"
    BY <1>1, <1>5 DEF CopyProduct, At
  <2> DEFINE u == [t EXCEPT !.at = "copy files", !.product = product]
  <2>2. Become(p, u)
    BY <1>1, <1>5 DEF CopyProduct
  <2>3. /\ u.at = "copy files" /\ u.product = product /\ u.kernel = t.kernel /\ u.quiet = t.quiet
        /\ u.seen = t.seen /\ u.root = t.root /\ u.views = t.views /\ u.valid = t.valid /\ u.hash = t.hash
    BY <1>1 DEF ExportTask
  <2> HIDE DEF u
  <2>4. Undisturbed(u) => QuietOK(u)
    BY <1>1, <2>1, <2>3 DEF Undisturbed, QuietOK, Read, Packing
  <2> QED
    BY <1>2, <2>2, <2>4, QuietTask
<1>6. CASE CopyFiles(p)
  <2>1. t.at = "copy files"
    BY <1>1, <1>6 DEF CopyFiles, At
  <2> DEFINE u == [t EXCEPT !.at = "open", !.blobs = blobs]
  <2>2. Become(p, u)
    BY <1>1, <1>6 DEF CopyFiles
  <2>3. /\ u.at = "open" /\ u.product = t.product /\ u.kernel = t.kernel /\ u.quiet = t.quiet
        /\ u.seen = t.seen /\ u.root = t.root /\ u.views = t.views /\ u.valid = t.valid /\ u.hash = t.hash
    BY <1>1 DEF ExportTask
  <2> HIDE DEF u
  <2>4. Undisturbed(u) => QuietOK(u)
    BY <1>1, <2>1, <2>3 DEF Undisturbed, QuietOK, Read, Packing
  <2> QED
    BY <1>2, <2>2, <2>4, QuietTask
<1> QED
  BY <1>3, <1>4, <1>5, <1>6

\* What an undisturbed export of current views packs is what it verified.
LEMMA QuietPack ==
  ASSUME Inv, QuietInv, NEW p \in Programs, OpenPackage(p) \/ ClosePackage(p)
  PROVE  QuietInv'
<1>1. PICK t : t = task[p] /\ t \in ExportTask /\ t.at \in {"open", "zip"} /\ (Undisturbed(t) => QuietOK(t))
  BY KindOf DEF OpenPackage, ClosePackage, At, Packing, QuietInv
<1>2. kernel' = kernel /\ product' = product
  BY DEF OpenPackage, ClosePackage, source
<1>3. PICK u : Become(p, u) /\ (Undisturbed(u) => QuietOK(u))
  <2>1. CASE OpenPackage(p)
    <3> DEFINE u == [t EXCEPT !.at = "zip"]
    <3>1. Become(p, u) /\ t.at = "open"
      BY <1>1, <2>1 DEF OpenPackage, Goto, At
    <3>2. /\ u.at = "zip" /\ u.product = t.product /\ u.kernel = t.kernel /\ u.quiet = t.quiet
          /\ u.seen = t.seen /\ u.root = t.root /\ u.views = t.views /\ u.valid = t.valid /\ u.hash = t.hash
      BY <1>1 DEF ExportTask
    <3> HIDE DEF u
    <3>3. Undisturbed(u) => QuietOK(u)
      BY <1>1, <3>1, <3>2 DEF Undisturbed, QuietOK, Read, Packing
    <3> QED
      BY <3>1, <3>3
  <2>2. CASE ClosePackage(p)
    <3>1. PICK u : u = [at |-> "done", op |-> "export"]
      OBVIOUS
    <3>2. u.at = "done"
      BY <3>1
    <3>3. u \notin ExportTask
      BY <3>2, Kinds DEF Verifying, Packing
    <3> QED
      BY <2>2, <3>1, <3>3 DEF ClosePackage, Undisturbed
  <2> QED
    BY <2>1, <2>2
<1>4. \A x \in Programs : (Undisturbed(task[x]) => QuietOK(task[x]))'
  <2> SUFFICES ASSUME NEW x \in Programs, Undisturbed(task'[x]) PROVE QuietOK(task[x])'
    BY DEF Undisturbed
  <2>1. task'[x] = u \/ task'[x] = task[x]
    BY <1>3 DEF Inv, TypeInv, Become
  <2>2. PICK v : v = task'[x] /\ QuietOK(v)
    BY <1>3, <2>1 DEF QuietInv
  <2>3. QuietOK(v)'
    BY <1>2, <2>2 DEF QuietOK
  <2> QED
    BY <2>2, <2>3
<1>5. PICK w : /\ packages' = [packages EXCEPT ![t.path] = w]
               /\ w \in Package /\ w.quiet => StagedIsRight(w)
  <2>1. CASE OpenPackage(p)
    <3>1. Partial \notin Package
      BY DEF Partial, Package
    <3> QED
      BY <1>1, <2>1, <3>1 DEF OpenPackage
  <2>2. CASE ClosePackage(p)
    <3> DEFINE w == [kind |-> "package", kernel |-> t.kernel, product |-> t.product, blobs |-> t.blobs,
                     root |-> t.root, hash |-> t.hash, quiet |-> t.quiet]
    <3>1. packages' = [packages EXCEPT ![t.path] = w] /\ t.at = "zip"
      BY <1>1, <2>2 DEF ClosePackage, At
    <3>2. /\ w.kernel = t.kernel /\ w.product = t.product /\ w.root = t.root /\ w.hash = t.hash /\ w.quiet = t.quiet
      OBVIOUS
    <3> HIDE DEF w
    <3>3. ASSUME w.quiet PROVE StagedIsRight(w)
      <4>1. QuietOK(t)
        BY <1>1, <3>2, <3>3 DEF Undisturbed
      <4>2. /\ t.root = kernel.ledger /\ (t.valid <=> product.views = kernel.ledger) /\ t.hash = HashOf(product)
            /\ t.valid /\ t.kernel.ledger = kernel.ledger /\ t.product = product
        BY <3>1, <4>1 DEF QuietOK, Read, Packing
      <4> QED
        BY <3>2, <4>2 DEF StagedIsRight, RootOf
    <3> QED
      BY <3>1, <3>3
  <2> QED
    BY <2>1, <2>2
<1>6. \A path \in Paths : (packages[path] \in Package /\ packages[path].quiet => StagedIsRight(packages[path]))'
  <2> SUFFICES ASSUME NEW path \in Paths, packages'[path] \in Package, packages'[path].quiet
               PROVE  StagedIsRight(packages'[path])
    BY DEF StagedIsRight
  <2>1. packages'[path] = w \/ packages'[path] = packages[path]
    BY <1>5 DEF Inv, TypeInv
  <2> QED
    BY <1>5, <2>1 DEF QuietInv
<1> QED
  BY <1>4, <1>6 DEF QuietInv

\* A restore, or one that ends, is no export.
LEMMA QuietRestore ==
  ASSUME Inv, QuietInv, NEW p \in Programs,
         \/ \E path \in Paths, place \in Places : BeginRestore(p, path, place)
         \/ Unzip(p) \/ VerifyStaged(p) \/ RemovePlace(p) \/ MovePlace(p) \/ Return(p) \/ Crash(p)
  PROVE  QuietInv'
<1>1. UNCHANGED <<source, packages>>
  BY DEF BeginRestore, Unzip, VerifyStaged, RemovePlace, MovePlace, Return, Crash
<1>2. ASSUME NEW t, Become(p, t), t.at \notin Verifying \cup Packing PROVE QuietInv'
  <2>1. t \notin ExportTask
    BY <1>2, Kinds
  <2> QED
    BY <1>1, <1>2, <2>1, QuietPlain
<1>3. ASSUME Fail(p) PROVE QuietInv'
  <2>1. PICK t : t = [at |-> "failed", op |-> task[p].op]
    OBVIOUS
  <2>2. t.at \notin Verifying \cup Packing
    BY <2>1 DEF Verifying, Packing
  <2> QED
    BY <1>2, <1>3, <2>1, <2>2 DEF Fail
<1>4. ASSUME NEW at \in {"rmdir", "move"}, Goto(p, at), task[p] \in RestoreTask PROVE QuietInv'
  <2>1. PICK t : t = [task[p] EXCEPT !.at = at]
    OBVIOUS
  <2>2. t.at = at
    BY <1>4, <2>1 DEF RestoreTask
  <2>3. t.at \notin Verifying \cup Packing
    BY <1>4, <2>2 DEF Verifying, Packing
  <2> QED
    BY <1>2, <1>4, <2>1, <2>3 DEF Goto
<1>5. ASSUME NEW path \in Paths, NEW place \in Places, BeginRestore(p, path, place) PROVE QuietInv'
  <2>1. PICK t : t = [at |-> IF places[place].kind = "workspace" THEN "failed" ELSE "stage",
                      op |-> "restore", path |-> path, place |-> place]
    OBVIOUS
  <2>2. t.at \in {"failed", "stage"}
    BY <2>1
  <2>3. t.at \notin Verifying \cup Packing
    BY <2>2 DEF Verifying, Packing
  <2> QED
    BY <1>2, <1>5, <2>1, <2>3 DEF BeginRestore
<1>6. CASE Unzip(p)
  <2>1. CASE packages[task[p].path].kind = "package"
    <3>1. PICK t : t = [at |-> "verify", op |-> "restore", place |-> task[p].place,
                        staged |-> packages[task[p].path]]
      OBVIOUS
    <3>2. t.at \notin Verifying \cup Packing
      BY <3>1 DEF Verifying, Packing
    <3> QED
      BY <1>2, <1>6, <2>1, <3>1, <3>2 DEF Unzip
  <2>2. CASE packages[task[p].path].kind # "package"
    BY <1>3, <1>6, <2>2 DEF Unzip
  <2> QED
    BY <2>1, <2>2
<1>7. CASE VerifyStaged(p) \/ RemovePlace(p)
  <2>1. task[p] \in RestoreTask
    BY <1>7, KindOf DEF VerifyStaged, RemovePlace, At
  <2> QED
    BY <1>3, <1>4, <1>7, <2>1 DEF VerifyStaged, RemovePlace
<1>8. CASE MovePlace(p)
  <2>1. PICK t : t = [at |-> "done", op |-> "restore"]
    OBVIOUS
  <2>2. t.at \notin Verifying \cup Packing
    BY <2>1 DEF Verifying, Packing
  <2> QED
    BY <1>2, <1>3, <1>8, <2>1, <2>2 DEF MovePlace
<1>9. CASE Return(p) \/ Crash(p)
  <2>1. Become(p, Idle)
    BY <1>9 DEF Return, Crash
  <2> QED
    BY <1>2, <2>1 DEF Idle, Verifying, Packing
<1> QED
  BY <1>5, <1>6, <1>7, <1>8, <1>9

LEMMA QuietStep == Inv /\ QuietInv /\ [Next]_vars => QuietInv'
<1> SUFFICES ASSUME Inv, QuietInv, [Next]_vars PROVE QuietInv'
  OBVIOUS
<1>1. CASE Others
  <2>1. PICK k, d, b : Write(k, d, b)
    BY <1>1 DEF Others, Commit, Reject, PreserveBlob, PutItem, PutDraft, Build
  <2> QED
    BY <2>1, QuietWriting
<1>2. ASSUME NEW p \in Programs, NEW path \in Paths,
             BeginExport(p, path) \/ (\E place \in Places : BeginRestore(p, path, place))
      PROVE  QuietInv'
  BY <1>2, QuietExport, QuietRestore
<1>3. ASSUME NEW p \in Programs,
             \/ ReadLedger(p) \/ ReadStateRoot(p) \/ ListViews(p) \/ RebuildViews(p) \/ HashTable(p)
      PROVE  QuietInv'
  BY <1>3, QuietExport, QuietHash
<1>4. ASSUME NEW p \in Programs,
             \/ CheckSource(p) \/ CopyKernel(p) \/ CopyProduct(p) \/ CopyFiles(p)
             \/ OpenPackage(p) \/ ClosePackage(p)
      PROVE  QuietInv'
  BY <1>4, QuietCopy, QuietPack
<1>5. ASSUME NEW p \in Programs,
             Unzip(p) \/ VerifyStaged(p) \/ RemovePlace(p) \/ MovePlace(p) \/ Return(p) \/ Crash(p)
      PROVE  QuietInv'
  BY <1>5, QuietRestore
<1>6. CASE UNCHANGED vars
  <2>1. kernel' = kernel /\ product' = product /\ packages' = packages /\ task' = task
    BY <1>6 DEF vars, source
  <2>2. \A x \in Programs : (Undisturbed(task[x]) => QuietOK(task[x]))'
    <3> SUFFICES ASSUME NEW x \in Programs, Undisturbed(task'[x]) PROVE QuietOK(task[x])'
      BY DEF Undisturbed
    <3>1. PICK v : v = task[x] /\ v = task'[x] /\ QuietOK(v)
      BY <2>1 DEF QuietInv
    <3>2. QuietOK(v)'
      BY <2>1, <3>1 DEF QuietOK
    <3> QED
      BY <3>1, <3>2
  <2>3. \A path \in Paths : (packages[path] \in Package /\ packages[path].quiet => StagedIsRight(packages[path]))'
    BY <2>1 DEF QuietInv, StagedIsRight
  <2> QED
    BY <2>2, <2>3 DEF QuietInv
<1> QED
  BY <1>1, <1>2, <1>3, <1>4, <1>5, <1>6 DEF Next

\* export_backup does not fail beside programs that only have proposals
\* rejected, and restore_backup accepts what it then makes.
THEOREM QuietExportsRestore == Spec => []QuietExportRestores
<1>1. Init => QuietInv
  <2> SUFFICES ASSUME Init PROVE QuietInv
    OBVIOUS
  <2>1. Idle \notin ExportTask
    <3>1. Idle.at = "idle"
      BY DEF Idle
    <3> QED
      BY <3>1, Kinds DEF Verifying, Packing
  <2>2. None \notin Package
    BY DEF None, Package
  <2> QED
    BY <2>1, <2>2 DEF Init, QuietInv, Undisturbed
<1>2. Inv /\ QuietInv => QuietExportRestores
  <2> SUFFICES ASSUME Inv, QuietInv PROVE QuietExportRestores
    OBVIOUS
  <2>1. ASSUME NEW p \in Programs, At(p, "check"), task[p].quiet, product.views = kernel.ledger PROVE task[p].valid
    <3>1. task[p] \in ExportTask
      BY <2>1, KindOf DEF At, Packing
    <3>2. QuietOK(task[p])
      BY <2>1, <3>1 DEF QuietInv, Undisturbed
    <3> QED
      BY <2>1, <3>2 DEF QuietOK, Read, Packing, At
  <2>2. ASSUME NEW path \in Paths, packages[path].kind = "package", packages[path].quiet
        PROVE  StagedIsRight(packages[path])
    <3>1. packages[path] \in Package
      BY <2>2 DEF Inv, TypeInv, None, Partial
    <3> QED
      BY <2>2, <3>1 DEF QuietInv
  <2> QED
    BY <2>1, <2>2 DEF QuietExportRestores
<1> QED
  BY <1>1, <1>2, QuietStep, Always, PTL DEF Spec


-----------------------------------------------------------------------------
(* Setups.                                                                 *)

Looking == {"claude", "codex", "resolve"}
Creating ==
  {"config", "create config", "fill config", "registry", "create registry", "fill registry", "open"}
Planning == {"plan", "skill", "service"}
Starting == {"cold", "verify", "repair", "verify again", "context"}
Applying == {"stage", "replace", "rollback"}
Over == {"failed", "done"}
Prepared == Planning \cup Starting \cup {"stage"}
SetupLabels == Looking \cup Creating \cup Planning \cup Starting \cup Applying \cup Over
SetupFields ==
  {"at", "hooks", "explicit", "skill", "read", "plan", "budget", "ws", "next", "unrestored"}

HookContents == {NoFile, BadFile} \cup HooksFiles
Bindings == {NoFile, BadFile} \cup {Binding(w) : w \in Workspaces}
PlanItems == [original : HookContents \cup Bindings, content : HooksFiles \cup Bindings]

\* The i-th item of a plan is of the i-th file.
PlannedOf(t, i) ==
  /\ i = 1 => t.plan[i].original \in HookContents /\ t.plan[i].content = ClaudeSettings(t.read.claude)
  /\ i = 2 => t.plan[i].original \in HookContents /\ t.plan[i].content = CodexHooks(t.read.codex)
  /\ i = 3 => t.plan[i].original \in Bindings /\ t.plan[i].content = Binding(t.ws)

\* What a setup carries, ...
WellShaped(t) ==
  /\ DOMAIN t = SetupFields
  /\ t.at \in SetupLabels
  /\ t.hooks \in BOOLEAN /\ t.unrestored \in BOOLEAN
  /\ t.explicit \in Workspaces \cup {"none"} /\ t.ws \in Workspaces \cup {"none"}
  /\ \A f \in DOMAIN t.read : t.read[f] \in {NoFile} \cup HooksFiles
  /\ t.plan \in Seq(PlanItems)
  /\ \A i \in 1 .. Len(t.plan) : PlannedOf(t, i)
  /\ t.next \in Nat
\* ... and how far it is with that at the label l.
Fits(t, l) ==
  /\ t.ws = "none" <=> l \in Looking
  /\ l \in {"claude", "codex", "plan", "failed"} \cup Applying => t.hooks
  /\ DOMAIN t.read = IF ~t.hooks \/ l = "claude" THEN {}
                     ELSE IF l = "codex" THEN {"claude"} ELSE Hooked
  /\ l \in Looking \cup Creating => Len(t.plan) = 0
  /\ l = "plan" => Len(t.plan) < 3
  /\ l \notin Looking \cup Creating \cup {"plan"} => Len(t.plan) = IF t.hooks THEN 3 ELSE 0
  /\ l \in {"replace", "rollback"} => t.next \in 1 .. 3
  /\ l = "failed" => t.next = 0
  /\ l \in Looking \cup Creating \cup Prepared => t.next = 1
Formed(t) == t = Free \/ t = [at |-> "refused"] \/ (WellShaped(t) /\ Fits(t, t.at))

FilesInv ==
  /\ files = [f \in Files |-> files[f]]
  /\ \A f \in Hooked : files[f] \in HookContents
  /\ files["binding"] \in Bindings
SetupTypes ==
  /\ FilesInv
  /\ DOMAIN config = Workspaces /\ DOMAIN registry = Workspaces
  /\ cold \in [Workspaces -> Nat]
  /\ DOMAIN post = Setups
  /\ \A p \in Setups : Formed(post[p])

LEMMA OrderIs == Len(Order) = 3 /\ Order[1] = "claude" /\ Order[2] = "codex" /\ Order[3] = "binding"
  BY DEF Order

\* The texts that are made of a hooks file.
LEMMA SettingsAreHooks ==
  ASSUME NEW d \in {NoFile} \cup HooksFiles
  PROVE ClaudeSettings(d) \in HooksFiles /\ CodexHooks(d) \in HooksFiles
<1>1. PICK h, l : Existing(d) = HooksFile(h, l) /\ h \in Seq({"user", "managed", "mixed"})
                  /\ l \in Seq({"user", "mixed"})
  <2>1. CASE d = NoFile
    <3>1. <<>> \in Seq({"user", "managed", "mixed"}) /\ <<>> \in Seq({"user", "mixed"})
      OBVIOUS
    <3>2. QED BY <2>1, <3>1 DEF Existing
  <2>2. CASE d # NoFile
    <3>1. d = HooksFile(d.hooks, d.legacy) /\ d.hooks \in Seq({"user", "managed", "mixed"})
          /\ d.legacy \in Seq({"user", "mixed"})
      BY <2>2 DEF HooksFiles, HooksFile
    <3>2. QED BY <2>2, <3>1 DEF Existing
  <2>3. QED BY <2>1, <2>2
<1>2. \A e : Len(e) \in Nat /\ IsFiniteSet(DOMAIN e) => CountOf(e, {"user", "mixed"}) \in Nat
  <2> SUFFICES ASSUME NEW e, IsFiniteSet(DOMAIN e) PROVE CountOf(e, {"user", "mixed"}) \in Nat
    OBVIOUS
  <2> DEFINE D == {i \in DOMAIN e : e[i] \in {"user", "mixed"}}
  <2>1. D \subseteq DOMAIN e
    OBVIOUS
  <2>2. Cardinality(D) \in Nat
    <3> HIDE DEF D
    <3> QED BY <2>1, FS_Subset, FS_CardinalityType
  <2>3. QED BY <2>2 DEF CountOf
<1>3. \A e : e \in Seq({"user", "managed", "mixed"}) => Append(Preserve(e), "managed") \in Seq({"user", "managed", "mixed"})
  <2> SUFFICES ASSUME NEW e \in Seq({"user", "managed", "mixed"})
               PROVE Append(Preserve(e), "managed") \in Seq({"user", "managed", "mixed"})
    OBVIOUS
  <2>1. Len(e) \in Nat /\ DOMAIN e = 1 .. Len(e)
    OBVIOUS
  <2>2. IsFiniteSet(1 .. Len(e))
    BY <2>1, FS_Interval
  <2>3. PICK n : n = CountOf(e, {"user", "mixed"}) /\ n \in Nat
    BY <2>1, <2>2, <1>2
  <2>4. Preserve(e) = [i \in 1 .. n |-> "user"]
    BY <2>3 DEF Preserve
  <2>5. Preserve(e) \in Seq({"user", "managed", "mixed"})
    BY <2>3, <2>4
  <2>6. QED BY <2>5
<1>4. h \o l \in Seq({"user", "managed", "mixed"})
  <2>1. l \in Seq({"user", "managed", "mixed"})
    BY <1>1
  <2>2. QED BY <1>1, <2>1
<1>5. /\ ClaudeSettings(d) = HooksFile(Append(Preserve(h), "managed"), l)
      /\ CodexHooks(d) = HooksFile(Append(Preserve(h \o l), "managed"), <<>>)
  BY <1>1 DEF ClaudeSettings, CodexHooks, HooksFile
<1>6. <<>> \in Seq({"user", "mixed"})
  OBVIOUS
<1>7. \A x, y : x \in Seq({"user", "managed", "mixed"}) /\ y \in Seq({"user", "mixed"})
                  => HooksFile(x, y) \in HooksFiles
  BY DEF HooksFile, HooksFiles
<1>8. PICK x, z : x = Append(Preserve(h), "managed") /\ z = Append(Preserve(h \o l), "managed")
  OBVIOUS
<1>9. x \in Seq({"user", "managed", "mixed"}) /\ z \in Seq({"user", "managed", "mixed"})
  BY <1>1, <1>3, <1>4, <1>8
<1>10. QED BY <1>1, <1>5, <1>6, <1>7, <1>8, <1>9

\* A workspace that sessions can open, and how far a setup has come with its own.
Ready(w) == Opens(w) /\ registry[w] = Whole
Stands(t, l) ==
  /\ l \in Planning \cup Starting \cup Applying \cup Over => Opens(t.ws)
  /\ l \in Starting \cup Applying \cup Over => registry[t.ws] = Whole
  /\ l = "cold" => overlapped \/ cold[t.ws] = 0
  /\ l \in (Starting \ {"cold"}) \cup Applying \cup Over => cold[t.ws] >= 1
BoundIsReady(document) == document.kind = "binding" => Ready(document.ws)
Working(p) == post[p].at \in SetupLabels
WorkspacesInv ==
  /\ BoundIsReady(files["binding"])
  /\ \A p \in Setups : Working(p) =>
       /\ Stands(post[p], post[p].at)
       /\ Len(post[p].plan) = 3 => BoundIsReady(post[p].plan[3].original)
  /\ ~overlapped =>
       /\ \A p, q \in Setups : Busy(p) /\ Busy(q) => p = q
       /\ \A w \in Workspaces : cold[w] <= 1

\* What a setup knows of a file it plans to replace, has replaced, or has
\* restored, unless others wrote it.
Sees(p, t) ==
  \A i \in 1 .. Len(t.plan) : <<p, Order[i]>> \notin disturbed =>
    /\ t.at \in Prepared => files[Order[i]] = t.plan[i].original
    /\ t.at = "replace" =>
         files[Order[i]] = IF i < t.next THEN t.plan[i].content ELSE t.plan[i].original
    /\ t.at = "done" => files[Order[i]] = t.plan[i].content
    /\ t.at \in {"rollback", "failed"} /\ ~t.unrestored /\ t.next < i =>
         files[Order[i]] = t.plan[i].original
SeesInv == \A p \in Setups : Working(p) => Sees(p, post[p])

\* Everything a setup has read has the user's hooks.
Counts(t) ==
  /\ \A f \in DOMAIN t.read : f \in raced \/ UserHooks(t.read[f]) = added[f]
  /\ \A i \in 1 .. Len(t.plan) :
       i = 3 \/ Order[i] \in raced \/ UserHooks(t.plan[i].original) = added[Order[i]]
CountsInv ==
  /\ added \in [Hooked -> Nat]
  /\ UserHooksKept
  /\ \A p \in Setups : Working(p) => Counts(post[p])

\* What a setup knows of the hooks files where no two overlapped.
IsManaged(document) ==
  document.kind = "document" /\ CountOf(document.hooks, {"managed", "mixed"}) = 1
Lone(t) ==
  \A i \in 1 .. Len(t.plan) : i # 3 =>
    /\ IsManaged(t.plan[i].original) => IsManaged(files[Order[i]])
    /\ files["binding"].kind = "binding" => IsManaged(t.plan[i].original)
    /\ Len(t.plan) = 3 /\ t.plan[3].original.kind = "binding" => IsManaged(t.plan[i].original)
    /\ t.at = "replace" /\ i < t.next => IsManaged(files[Order[i]])
LoneInv ==
  ~overlapped =>
    /\ files["binding"].kind = "binding" => \A f \in Hooked : IsManaged(files[f])
    /\ \A p \in Setups : Busy(p) => Lone(post[p])
SetupInv == SetupTypes /\ WorkspacesInv /\ SeesInv /\ CountsInv /\ LoneInv

-----------------------------------------------------------------------------
(* The steps of a setup, and what it carries.                              *)

LEMMA WorkingIs ==
  ASSUME SetupTypes, NEW p \in Setups, post[p].at \notin {"idle", "refused"}
  PROVE WellShaped(post[p]) /\ Fits(post[p], post[p].at) /\ Working(p)
BY DEF SetupTypes, Formed, Free, WellShaped, Working

\* The files stay, and what others know of them.
Apart == files' = files /\ disturbed' = disturbed /\ raced' = raced /\ added' = added
         /\ overlapped' = overlapped
WorkspaceTypes == DOMAIN config = Workspaces /\ DOMAIN registry = Workspaces /\ cold \in [Workspaces -> Nat]

\* One setup moves on.
LEMMA OneMoves ==
  ASSUME SetupTypes, NEW p \in Setups, NEW u, Formed(u), Assign(p, u), FilesInv', WorkspaceTypes'
  PROVE SetupTypes'
BY DEF SetupTypes, WorkspaceTypes, Assign

LEMMA FilesStay == ASSUME FilesInv, files' = files PROVE FilesInv'
BY DEF FilesInv

LEMMA EndsForm == Formed(Free) /\ Formed([at |-> "refused"])
BY DEF Formed

\* The records of a setup that differ in the label and the budget only.
Alike(t, u) == DOMAIN u = SetupFields /\ \A d \in SetupFields \ {"at", "budget"} : u[d] = t[d]
Labelled(p, l) ==
  /\ l \in SetupLabels /\ Fits(post[p], l) /\ post[p].at \notin {"idle", "refused"}
  /\ \E u : Assign(p, u) /\ u.at = l /\ Alike(post[p], u)

LEMMA AlikeIs ==
  ASSUME NEW t, NEW u, Alike(t, u)
  PROVE /\ u.hooks = t.hooks /\ u.unrestored = t.unrestored /\ u.explicit = t.explicit
        /\ u.ws = t.ws /\ u.read = t.read /\ u.plan = t.plan /\ u.next = t.next
BY DEF Alike, SetupFields

LEMMA AlikeForms ==
  ASSUME NEW t, WellShaped(t), NEW u, Alike(t, u), u.at \in SetupLabels, Fits(t, u.at)
  PROVE Formed(u)
<1>1. /\ u.hooks = t.hooks /\ u.unrestored = t.unrestored /\ u.explicit = t.explicit
      /\ u.ws = t.ws /\ u.read = t.read /\ u.plan = t.plan /\ u.next = t.next
  BY AlikeIs
<1>2. WellShaped(u)
  BY <1>1 DEF WellShaped, PlannedOf, Alike
<1>3. Fits(u, u.at)
  BY <1>1 DEF Fits
<1>4. QED BY <1>2, <1>3 DEF Formed

LEMMA LabelledTypes ==
  ASSUME SetupTypes, NEW p \in Setups, NEW l, Labelled(p, l), FilesInv', WorkspaceTypes'
  PROVE SetupTypes'
<1>1. WellShaped(post[p])
  BY WorkingIs DEF Labelled
<1>2. PICK u : Assign(p, u) /\ u.at = l /\ Alike(post[p], u)
  BY DEF Labelled
<1>3. Formed(u)
  BY <1>1, <1>2, AlikeForms DEF Labelled
<1>4. QED BY <1>2, <1>3, OneMoves

\* Where the steps that change nothing else lead.
Leads(t, l) ==
  \/ l \in Creating
  \/ l \in Prepared /\ (t.at \in Prepared \/ Len(t.plan) = 0)
  \/ l = "replace" /\ t.at = "stage"
  \/ l = "done" /\ Len(t.plan) = 0
Passes(p) ==
  /\ Apart
  /\ \/ Assign(p, [at |-> "refused"])
     \/ \E t, l : t = post[p] /\ Labelled(p, l) /\ Leads(t, l) /\ Stands(t, l)'

LEMMA GoesTo ==
  ASSUME SetupTypes, NEW p \in Setups, NEW l \in SetupLabels, post[p].at \notin {"idle", "refused"},
         Fits(post[p], l), Move(p, l)
  PROVE Labelled(p, l)
<1>1. WellShaped(post[p])
  BY WorkingIs
<1>2. PICK u : u = [post[p] EXCEPT !.at = l]
  OBVIOUS
<1>3. u.at = l /\ Alike(post[p], u)
  BY <1>1, <1>2 DEF Alike, WellShaped, SetupFields
<1>4. QED BY <1>2, <1>3 DEF Labelled, Move

\* Workspaces are made and never unmade.
Gains == \A w \in Workspaces :
  (Opens(w) => Opens(w)') /\ (registry[w] = Whole => registry'[w] = Whole) /\ cold[w] <= cold'[w]

\* A step that leaves the workspaces alone.
LEMMA WorkspacesStay ==
  ASSUME SetupTypes, config' = config, registry' = registry, cold' = cold
  PROVE WorkspaceTypes' /\ Gains
<1>1. \A w : Opens(w)' = Opens(w)
  BY DEF Opens
<1>2. \A w \in Workspaces : cold[w] <= cold[w]
  BY DEF SetupTypes
<1>3. QED BY <1>1, <1>2 DEF Gains, WorkspaceTypes, SetupTypes

\* The configuration and the registry of a new workspace, ...
LEMMA CreatingPasses ==
  ASSUME SetupTypes, WorkspacesInv, NEW p \in Setups,
         CheckConfig(p) \/ CreateConfig(p) \/ FillConfig(p) \/ CheckRegistry(p) \/ CreateRegistry(p)
           \/ FillRegistry(p)
  PROVE Passes(p) /\ WorkspaceTypes' /\ Gains
<1>1. PICK t : t = post[p]
  OBVIOUS
<1>2. post[p].at \in Creating /\ Apart
  BY DEF CheckConfig, CreateConfig, FillConfig, CheckRegistry, CreateRegistry, FillRegistry, On,
         Creating, Apart, history
<1>3. WellShaped(t) /\ Fits(t, t.at) /\ t.ws \in Workspaces
  <2>1. WellShaped(t) /\ Fits(t, t.at)
    BY <1>1, <1>2, WorkingIs DEF Creating
  <2>2. QED BY <2>1, <1>1, <1>2 DEF WellShaped, Fits, Creating, Looking
<1>4. \A l \in Creating : l \in SetupLabels /\ Fits(t, l)
  BY <1>1, <1>2, <1>3 DEF Fits, SetupLabels, Creating, Looking, Planning, Starting, Applying, Over, Prepared
<1>5. \A l \in Creating : Stands(t, l)'
  BY DEF Stands, Creating, Planning, Starting, Applying, Over
<1>6. Passes(p)
  <2>1. Assign(p, [at |-> "refused"]) \/ \E l \in Creating : Move(p, l)
    BY DEF CheckConfig, CreateConfig, FillConfig, CheckRegistry, CreateRegistry, FillRegistry,
           Refuse, Creating
  <2>2. CASE Assign(p, [at |-> "refused"])
    BY <2>2, <1>2 DEF Passes
  <2>3. ASSUME NEW l \in Creating, Move(p, l) PROVE Passes(p)
    <3>1. Labelled(p, l)
      BY <2>3, <1>1, <1>2, <1>4, GoesTo DEF Creating
    <3>2. QED BY <3>1, <1>1, <1>2, <1>5 DEF Passes, Leads
  <2>4. QED BY <2>1, <2>2, <2>3
<1>7. WorkspaceTypes'
  BY DEF CheckConfig, CreateConfig, FillConfig, CheckRegistry, CreateRegistry, FillRegistry,
         WorkspaceTypes, SetupTypes, workspaces
<1>8. \A w \in Workspaces : Opens(w) => Opens(w)'
  <2>1. PurposeOf[p] \notin {Absent, Partway}
    BY SetupAssumption
  <2>2. QED BY <2>1, <1>1, <1>3 DEF CheckConfig, CreateConfig, FillConfig, CheckRegistry, CreateRegistry,
         FillRegistry, workspaces, Opens, SetupTypes
<1>9. \A w \in Workspaces : registry[w] = Whole => registry'[w] = Whole
  BY <1>1, <1>3 DEF CheckConfig, CreateConfig, FillConfig, CheckRegistry, CreateRegistry,
         FillRegistry, workspaces, SetupTypes, Absent, Whole
<1>10. \A w \in Workspaces : cold[w] <= cold'[w]
  <2>1. cold' = cold
    BY DEF CheckConfig, CreateConfig, FillConfig, CheckRegistry, CreateRegistry, FillRegistry, workspaces
  <2>2. QED BY <2>1 DEF SetupTypes
<1>11. QED BY <1>6, <1>7, <1>8, <1>9, <1>10 DEF Gains

\* What a setup stands on, where it is past its cold start.
LEMMA StandsTells ==
  ASSUME NEW t, NEW l, Stands(t, l)
  PROVE /\ l \in Planning \cup Starting \cup Applying \cup Over => Opens(t.ws)
        /\ l \in Starting \cup Applying \cup Over => registry[t.ws] = Whole
        /\ l \in (Starting \ {"cold"}) \cup Applying \cup Over => cold[t.ws] >= 1
BY Zenon DEF Stands

LEMMA StandsThere ==
  ASSUME NEW t, NEW l, l # "cold", Opens(t.ws)', registry'[t.ws] = Whole, cold'[t.ws] >= 1
  PROVE Stands(t, l)'
BY Zenon DEF Stands

LEMMA StandsCold ==
  ASSUME NEW t, Opens(t.ws)', registry'[t.ws] = Whole, cold'[t.ws] = 0
  PROVE Stands(t, "cold")'
<1>1. "cold" \notin (Starting \ {"cold"}) \cup Applying \cup Over
  BY DEF Starting, Applying, Over
<1>2. QED BY Zenon, <1>1 DEF Stands

\* ... then the steps up to its first file, ...
LEMMA PreparingPasses ==
  ASSUME SetupTypes, WorkspacesInv, NEW p \in Setups,
         OpenNew(p) \/ ApplySkill(p) \/ OpenService(p) \/ Verify(p) \/ Repair(p) \/ VerifyAgain(p) \/ Stage(p)
  PROVE Passes(p) /\ WorkspaceTypes' /\ Gains
<1>1. PICK t : t = post[p]
  OBVIOUS
<1>2. /\ post[p].at \in {"open", "skill", "service", "verify", "repair", "verify again", "stage"}
      /\ Apart /\ config' = config /\ registry' = registry /\ cold' = cold
  BY DEF OpenNew, ApplySkill, OpenService, Verify, Repair, VerifyAgain, Stage, On, Apart, history, workspaces
<1>3. WorkspaceTypes' /\ Gains
  BY <1>2, WorkspacesStay
<1>4. WellShaped(t) /\ Fits(t, t.at) /\ Stands(t, t.at)
  BY <1>1, <1>2, WorkingIs DEF WorkspacesInv
<1>5. t.ws \in Workspaces
  BY <1>1, <1>2, <1>4 DEF WellShaped, Fits, Looking
<1>6. Opens(t.ws)' = Opens(t.ws)
  BY <1>2 DEF Opens
<1>a. cold[t.ws] \in Nat
  BY <1>5 DEF SetupTypes
<1>b. cold'[t.ws] = cold[t.ws]
  BY <1>2
<1>7. Assign(p, [at |-> "refused"]) \/ \E l \in SetupLabels : Move(p, l) /\ Fits(t, l) /\ Leads(t, l) /\ Stands(t, l)'
  <2>1. CASE OpenNew(p)
    <3>1. ASSUME Opens(t.ws), registry[t.ws] = Whole
          PROVE /\ AfterResolve(p) \in SetupLabels /\ Fits(t, AfterResolve(p)) /\ Leads(t, AfterResolve(p))
                /\ \A l : l = AfterResolve(p) => Stands(t, l)'
      <4>1. t.at = "open" /\ AfterResolve(p) = IF t.hooks THEN "plan" ELSE "skill"
        BY <1>1, <2>1 DEF OpenNew, On, AfterResolve
      <4>2. AfterResolve(p) \in {"plan", "skill"}
        BY <4>1
      <4>3. Fits(t, AfterResolve(p)) /\ Leads(t, AfterResolve(p))
        BY <4>1, <1>4 DEF Fits, Leads, Looking, Creating, Prepared, Planning, Starting, Applying, WellShaped
      <4>4. QED BY <4>2, <4>3, <3>1, <1>6 DEF Stands, SetupLabels, Planning, Starting, Applying, Over
    <3>2. QED BY <2>1, <3>1, <1>1 DEF OpenNew, Refuse
  <2>2. CASE ApplySkill(p)
    <3>1. t.at = "skill" /\ (Assign(p, [at |-> "refused"]) \/ Move(p, "service"))
      BY <2>2, <1>1 DEF ApplySkill, On, Refuse
    <3>2. /\ "service" \in SetupLabels /\ Fits(t, "service") /\ Leads(t, "service") /\ Stands(t, "service")'
      BY <3>1, <1>4, <1>6 DEF Fits, Leads, Stands, SetupLabels, Looking, Creating, Prepared, Planning, Starting, Applying, Over
    <3>3. QED BY <3>1, <3>2
  <2>3. CASE OpenService(p)
    <3>1. /\ t.at = "service"
          /\ \/ Assign(p, [at |-> "refused"])
             \/ registry[t.ws] = Whole /\ cold[t.ws] > 0 /\ Move(p, "verify")
             \/ registry[t.ws] = Whole /\ ~(cold[t.ws] > 0) /\ Move(p, "cold")
      BY <2>3, <1>1 DEF OpenService, On, Refuse
    <3>2. Fits(t, "verify") /\ Fits(t, "cold") /\ Leads(t, "verify") /\ Leads(t, "cold")
      BY <3>1, <1>4 DEF Fits, Leads, SetupLabels, Looking, Creating, Prepared, Planning, Starting, Applying, Over
    <3>a. Opens(t.ws)'
      BY <3>1, <1>4, <1>6, StandsTells DEF Planning
    <3>3. registry[t.ws] = Whole /\ cold[t.ws] > 0 => Stands(t, "verify")'
      <4>1. cold[t.ws] > 0 => cold'[t.ws] >= 1
        BY <1>a, <1>b
      <4>2. QED BY <4>1, <3>a, <1>2, StandsThere
    <3>4. registry[t.ws] = Whole /\ ~(cold[t.ws] > 0) => Stands(t, "cold")'
      <4>1. ~(cold[t.ws] > 0) => cold'[t.ws] = 0
        BY <1>a, <1>b
      <4>2. QED BY <4>1, <3>a, <1>2, StandsCold
    <3>5. {"verify", "cold"} \subseteq SetupLabels
      BY DEF SetupLabels, Starting
    <3>6. QED BY <3>1, <3>2, <3>3, <3>4, <3>5
  <2>4. CASE Verify(p) \/ Repair(p) \/ VerifyAgain(p)
    <3>1. /\ t.at \in {"verify", "repair", "verify again"}
          /\ Assign(p, [at |-> "refused"])
             \/ \E l \in {"repair", "verify again", "context"} : Move(p, l)
      BY <2>4, <1>1 DEF Verify, Repair, VerifyAgain, On, Refuse
    <3>2. \A l \in {"repair", "verify again", "context"} :
            l \in SetupLabels /\ Fits(t, l) /\ Leads(t, l) /\ Stands(t, l)'
      BY <3>1, <1>4, <1>6, <1>2 DEF Fits, Leads, Stands, SetupLabels, Looking, Creating, Prepared, Planning, Starting, Applying, Over
    <3>3. QED BY <3>1, <3>2
  <2>5. CASE Stage(p)
    <3>1. t.at = "stage" /\ Move(p, "replace")
      BY <2>5, <1>1 DEF Stage, On
    <3>2. "replace" \in SetupLabels /\ Fits(t, "replace") /\ Leads(t, "replace")
      BY <3>1, <1>4 DEF Fits, Leads, SetupLabels, Looking, Creating, Prepared, Planning, Starting, Applying, Over
    <3>3. Opens(t.ws)' /\ registry'[t.ws] = Whole /\ cold'[t.ws] >= 1
      BY <3>1, <1>4, <1>6, <1>2, StandsTells DEF Applying
    <3>4. Stands(t, "replace")'
      BY <3>3, StandsThere
    <3>5. QED BY <3>1, <3>2, <3>4
  <2>6. QED BY <2>1, <2>2, <2>3, <2>4, <2>5
<1>8. Passes(p)
  <2>1. CASE Assign(p, [at |-> "refused"])
    BY <2>1, <1>2 DEF Passes
  <2>2. ASSUME NEW l \in SetupLabels, Move(p, l), Fits(t, l), Leads(t, l), Stands(t, l)' PROVE Passes(p)
    <3>1. Labelled(p, l)
      BY <2>2, <1>1, <1>2, GoesTo
    <3>2. QED BY <3>1, <2>2, <1>1, <1>2 DEF Passes
  <2>3. QED BY <1>7, <2>1, <2>2
<1>9. QED BY <1>3, <1>8

\* ... and the calls that may find their budget too small.
LEMMA AttemptPasses ==
  ASSUME SetupTypes, WorkspacesInv, NEW p \in Setups, NEW required \in Nat,
         ColdStart(p, required) \/ Context(p, required)
  PROVE Passes(p) /\ WorkspaceTypes' /\ Gains
<1>1. PICK t : t = post[p]
  OBVIOUS
<1>2. post[p].at \in {"cold", "context"} /\ Apart /\ config' = config /\ registry' = registry
  BY DEF ColdStart, Context, On, Apart, history, workspaces
<1>3. WellShaped(t) /\ Fits(t, t.at) /\ Stands(t, t.at)
  BY <1>1, <1>2, WorkingIs DEF WorkspacesInv
<1>4. t.ws \in Workspaces
  BY <1>1, <1>2, <1>3 DEF WellShaped, Fits, Looking
<1>5. \A w : Opens(w)' = Opens(w)
  BY <1>2 DEF Opens
<1>6. \A w \in Workspaces : cold[w] \in Nat
  BY DEF SetupTypes
<1>7. /\ cold' \in [Workspaces -> Nat] /\ \A w \in Workspaces : cold[w] <= cold'[w]
      /\ required # 0 \/ t.at = "context" => cold' = cold
      /\ t.at = "cold" /\ required = 0 => cold'[t.ws] = cold[t.ws] + 1
  <2>1. CASE Context(p, required)
    BY <2>1, <1>1, <1>6 DEF Context, workspaces, On, SetupTypes
  <2>2. CASE ColdStart(p, required)
    <3>1. cold' = [cold EXCEPT ![t.ws] = IF required = 0 THEN cold[t.ws] + 1 ELSE cold[t.ws]] /\ t.at = "cold"
      BY <2>2, <1>1 DEF ColdStart, On
    <3>2. cold \in [Workspaces -> Nat]
      BY DEF SetupTypes
    <3>3. required # 0 => cold' = cold
      BY <3>1, <3>2
    <3>4. QED BY <3>1, <3>2, <3>3, <1>4, <1>6
  <2>3. QED BY <2>1, <2>2
<1>8. WorkspaceTypes' /\ Gains
  BY <1>2, <1>5, <1>7 DEF WorkspaceTypes, Gains, SetupTypes
<1>9. PICK next : /\ Attempt(p, required, next)
                  /\ next = IF t.at = "cold" THEN "verify" ELSE IF t.hooks THEN "stage" ELSE "done"
  BY <1>1 DEF ColdStart, Context, On
<1>10. next \in {"verify", "stage", "done"} /\ (t.at = "cold" <=> next = "verify")
  BY <1>2, <1>1, <1>9
<1>11. /\ next \in SetupLabels /\ t.at \in SetupLabels
       /\ Fits(t, next) /\ Leads(t, next) /\ Leads(t, t.at)
  BY <1>1, <1>2, <1>3, <1>9, <1>10 DEF Fits, Leads, WellShaped, SetupLabels, Looking, Creating, Prepared, Planning, Starting, Applying, Over
<1>12. \/ Assign(p, [at |-> "refused"])
       \/ \E u : /\ Assign(p, u) /\ Alike(t, u)
                 /\ (u.at = next /\ required = 0) \/ (u.at = t.at /\ required # 0)
  <2>1. CASE required = 0
    <3>1. PICK u : u = [t EXCEPT !.at = next, !.budget = 1]
      OBVIOUS
    <3>2. u.at = next /\ Alike(t, u)
      BY <3>1, <1>3 DEF Alike, WellShaped, SetupFields
    <3>3. Assign(p, u)
      BY <3>1, <2>1, <1>1, <1>9 DEF Attempt
    <3>4. QED BY <3>2, <3>3, <2>1
  <2>2. CASE required # 0
    <3>1. PICK b : b = NextBudget(post[p].budget, required)
      OBVIOUS
    <3>2. Assign(p, [at |-> "refused"]) \/ Assign(p, [post[p] EXCEPT !.budget = b])
      BY <2>2, <1>9, <3>1 DEF Attempt, Refuse
    <3>3. PICK u : u = [t EXCEPT !.budget = b]
      OBVIOUS
    <3>4. u.at = t.at /\ Alike(t, u)
      BY <3>3, <1>3 DEF Alike, WellShaped, SetupFields
    <3>5. QED BY <3>2, <3>3, <3>4, <2>2, <1>1
  <2>3. QED BY <2>1, <2>2
<1>13. required = 0 => Stands(t, next)'
  <2>1. Opens(t.ws) /\ registry[t.ws] = Whole /\ (t.at = "context" => cold[t.ws] >= 1)
    BY <1>2, <1>1, <1>3, StandsTells DEF Starting
  <2>2. required = 0 => cold'[t.ws] >= 1
    BY <1>2, <1>1, <2>1, <1>4, <1>6, <1>7
  <2>3. QED BY <2>1, <2>2, <1>2, <1>5, <1>10, StandsThere
<1>14. required # 0 => \A l : l = t.at => Stands(t, l)'
  BY <1>2, <1>1, <1>3, <1>5, <1>7 DEF Stands, Apart
<1>15. Passes(p)
  BY <1>1, <1>2, <1>3, <1>11, <1>12, <1>13, <1>14 DEF Passes, Labelled
<1>16. QED BY <1>8, <1>15

\* The steps before the plan: what is read is what is there.
Opened(p, u) ==
  /\ WellShaped(u) /\ Fits(u, u.at) /\ Len(u.plan) = 0
  /\ u.at \in {"plan", "skill"} => Opens(u.ws)
  /\ u.at \in Looking \cup Creating \cup {"plan", "skill"}
  /\ \A f \in DOMAIN u.read :
       u.read[f] = files[f] \/ (Working(p) /\ f \in DOMAIN post[p].read /\ u.read[f] = post[p].read[f])

EmptyPlan == Len(<<>>) = 0 /\ <<>> \in Seq(PlanItems)
LEMMA PlanIsEmpty == EmptyPlan
BY DEF EmptyPlan

LEMMA BeginOpens ==
  ASSUME SetupTypes, NEW p \in Setups, NEW hooks \in BOOLEAN,
         NEW explicit \in Workspaces \cup {"none"}, Begin(p, hooks, explicit)
  PROVE \E u : Assign(p, u) /\ (u = [at |-> "refused"] \/ Opened(p, u))
<1>1. CASE skill = Changed
  BY <1>1 DEF Begin
<1>2. CASE skill # Changed
  <2>1. PICK plan, read : plan = <<>> /\ read = [f \in {} |-> NoFile]
    OBVIOUS
  <2>2. plan \in Seq(PlanItems) /\ Len(plan) = 0 /\ DOMAIN read = {}
    BY <2>1, PlanIsEmpty DEF EmptyPlan
  <2>3. PICK l : l = IF hooks THEN "claude" ELSE "resolve"
    OBVIOUS
  <2>4. PICK u : u = [at |-> l, hooks |-> hooks, explicit |-> explicit, skill |-> skill, read |-> read,
                      plan |-> plan, budget |-> 1, ws |-> "none", next |-> 1, unrestored |-> FALSE]
    OBVIOUS
  <2>5. Assign(p, u)
    BY <1>2, <2>1, <2>3, <2>4 DEF Begin
  <2>6. /\ DOMAIN u = SetupFields /\ u.at = l /\ u.hooks = hooks /\ u.explicit = explicit /\ u.read = read
        /\ u.plan = plan /\ u.ws = "none" /\ u.next = 1 /\ u.unrestored = FALSE
    BY <2>4 DEF SetupFields
  <2>a. \A i \in 1 .. Len(plan) : PlannedOf(u, i)
    BY <2>2
  <2>b. l \in SetupLabels /\ "none" \in Workspaces \cup {"none"} /\ FALSE \in BOOLEAN
    BY <2>3 DEF SetupLabels, Looking
  <2>7. WellShaped(u)
    <3>1. u.at \in SetupLabels /\ u.hooks \in BOOLEAN /\ u.unrestored \in BOOLEAN
      BY Zenon, <2>6, <2>b
    <3>2. \A f \in DOMAIN u.read : u.read[f] \in {NoFile} \cup HooksFiles
      BY <2>2, <2>6
    <3>3. u.plan \in Seq(PlanItems) /\ \A i \in 1 .. Len(u.plan) : PlannedOf(u, i)
      BY Zenon, <2>2, <2>6, <2>a
    <3>4. u.explicit \in Workspaces \cup {"none"} /\ u.ws \in Workspaces \cup {"none"} /\ u.next \in Nat
      BY <2>6
    <3>5. QED BY <2>6, <3>1, <3>2, <3>3, <3>4 DEF WellShaped
  <2>8. Fits(u, u.at)
    BY <2>2, <2>3, <2>6 DEF Fits, Looking, Creating, Planning, Starting, Applying, Prepared
  <2>9. Opened(p, u)
    BY <2>2, <2>3, <2>6, <2>7, <2>8 DEF Opened, Looking
  <2>10. QED BY <2>5, <2>9
<1>3. QED BY <1>1, <1>2

LEMMA ReadOpens ==
  ASSUME SetupTypes, NEW p \in Setups, ReadClaude(p) \/ ReadCodex(p)
  PROVE \E u : Assign(p, u) /\ (u = [at |-> "refused"] \/ Opened(p, u))
<1>1. PICK t : t = post[p]
  OBVIOUS
<1>2. t.at \in {"claude", "codex"}
  BY <1>1 DEF ReadClaude, ReadCodex, On
<1>3. WellShaped(t) /\ Fits(t, t.at) /\ Working(p)
  BY <1>1, <1>2, WorkingIs
<1>4. t.hooks /\ t.ws = "none" /\ Len(t.plan) = 0 /\ t.next = 1
  BY <1>2, <1>3 DEF Fits, Looking
<1>5. ASSUME NEW l \in {"codex", "resolve"}, NEW f \in Hooked, NEW read, files[f] # BadFile,
             DOMAIN read = (IF l = "codex" THEN {"claude"} ELSE Hooked), f \in DOMAIN read,
             read[f] = files[f], \A g \in DOMAIN read \ {f} : g \in DOMAIN t.read /\ read[g] = t.read[g],
             Assign(p, [post[p] EXCEPT !.at = l, !.read = read])
      PROVE \E u : Assign(p, u) /\ (u = [at |-> "refused"] \/ Opened(p, u))
  <2>1. PICK u : u = [post[p] EXCEPT !.at = l, !.read = read]
    OBVIOUS
  <2>2. /\ DOMAIN u = SetupFields /\ u.at = l /\ u.read = read
        /\ \A d \in SetupFields \ {"at", "read"} : u[d] = t[d]
    BY <1>1, <1>3, <2>1 DEF WellShaped, SetupFields
  <2>3. /\ u.hooks = t.hooks /\ u.explicit = t.explicit /\ u.ws = t.ws /\ u.unrestored = t.unrestored
        /\ u.plan = t.plan /\ u.next = t.next
    BY <2>2 DEF SetupFields
  <2>4. \A g \in DOMAIN read : read[g] \in {NoFile} \cup HooksFiles
    <3>1. files[f] \in {NoFile} \cup HooksFiles
      BY <1>5 DEF SetupTypes, FilesInv, HookContents
    <3>2. QED BY <3>1, <1>3, <1>5 DEF WellShaped
  <2>5. WellShaped(u)
    BY <1>3, <1>4, <2>2, <2>3, <2>4, <1>5 DEF WellShaped, SetupLabels, Looking
  <2>6. Fits(u, u.at)
    BY <1>4, <1>5, <2>2, <2>3 DEF Fits, Looking, Creating, Planning, Starting, Applying, Prepared
  <2>7. Opened(p, u)
    BY <1>1, <1>3, <1>4, <1>5, <2>2, <2>3, <2>5, <2>6 DEF Opened, Looking
  <2>8. QED BY <2>1, <2>7, <1>5
<1>6. CASE ReadClaude(p)
  <2>1. PICK read : read = [claude |-> files["claude"]]
    OBVIOUS
  <2>2. DOMAIN read = {"claude"} /\ read["claude"] = files["claude"]
    BY <2>1
  <2>3. Assign(p, [at |-> "refused"]) \/ (files["claude"] # BadFile /\ Assign(p, [post[p] EXCEPT !.at = "codex", !.read = read]))
    BY <1>6, <2>1 DEF ReadClaude, Refuse
  <2>4. "claude" \in Hooked
    BY DEF Hooked
  <2>5. QED BY <2>2, <2>3, <2>4, <1>5
<1>7. CASE ReadCodex(p)
  <2>1. PICK read : read = [claude |-> post[p].read.claude, codex |-> files["codex"]]
    OBVIOUS
  <2>2. /\ DOMAIN read = Hooked /\ read["codex"] = files["codex"] /\ "codex" \in Hooked
        /\ \A g \in DOMAIN read \ {"codex"} : g = "claude" /\ read[g] = t.read[g]
    BY <1>1, <2>1 DEF Hooked
  <2>3. "claude" \in DOMAIN t.read
    BY <1>1, <1>3, <1>4, <1>7 DEF ReadCodex, On, Fits
  <2>4. Assign(p, [at |-> "refused"]) \/ (files["codex"] # BadFile /\ Assign(p, [post[p] EXCEPT !.at = "resolve", !.read = read]))
    <3>1. WellShaped(post[p])
      BY <1>1, <1>3
    <3>2. [post[p] EXCEPT !.at = "resolve", !.read = [claude |-> @.claude, codex |-> files["codex"]]]
          = [post[p] EXCEPT !.at = "resolve", !.read = read]
      BY <3>1, <2>1 DEF WellShaped, SetupFields
    <3>3. QED BY <1>7, <3>2 DEF ReadCodex, Refuse
  <2>5. QED BY <2>2, <2>3, <2>4, <1>5
<1>8. QED BY <1>6, <1>7

LEMMA ResolveOpens ==
  ASSUME SetupTypes, NEW p \in Setups, Resolve(p)
  PROVE \E u : Assign(p, u) /\ (u = [at |-> "refused"] \/ Opened(p, u))
<1>1. PICK t : t = post[p]
  OBVIOUS
<1>2. t.at = "resolve"
  BY <1>1 DEF Resolve, On
<1>3. WellShaped(t) /\ Fits(t, t.at) /\ Working(p)
  BY <1>1, <1>2, WorkingIs
<1>4. t.ws = "none" /\ Len(t.plan) = 0 /\ t.next = 1 /\ DOMAIN t.read = IF t.hooks THEN Hooked ELSE {}
  BY <1>2, <1>3 DEF Fits, Looking
<1>5. PICK w : w = IF t.explicit # "none" THEN t.explicit
                   ELSE IF Resolves(files["binding"]) THEN files["binding"].ws ELSE "sibling"
  OBVIOUS
<1>6. w \in Workspaces
  <2>1. Resolves(files["binding"]) => files["binding"].ws \in Workspaces
    <3>1. files["binding"] \in Bindings
      BY DEF SetupTypes, FilesInv
    <3>2. QED BY <3>1 DEF Resolves, ValidBinding, Bindings, NoFile, BadFile, Binding
  <2>2. QED BY <1>3, <1>5, <2>1 DEF WellShaped, Workspaces
<1>7. ASSUME NEW l \in Creating \cup {"plan", "skill"}, l = "plan" => t.hooks, l = "skill" => ~t.hooks,
             l \in {"plan", "skill"} => Opens(w), Assign(p, [post[p] EXCEPT !.at = l, !.ws = w])
      PROVE \E u : Assign(p, u) /\ (u = [at |-> "refused"] \/ Opened(p, u))
  <2>1. PICK u : u = [post[p] EXCEPT !.at = l, !.ws = w]
    OBVIOUS
  <2>2. /\ DOMAIN u = SetupFields /\ u.at = l /\ u.ws = w
        /\ \A d \in SetupFields \ {"at", "ws"} : u[d] = t[d]
    BY <1>1, <1>3, <2>1 DEF WellShaped, SetupFields
  <2>3. /\ u.hooks = t.hooks /\ u.explicit = t.explicit /\ u.read = t.read /\ u.unrestored = t.unrestored
        /\ u.plan = t.plan /\ u.next = t.next
    BY <2>2 DEF SetupFields
  <2>a. l \in SetupLabels /\ u.ws \in Workspaces \cup {"none"}
    BY <1>6, <2>2 DEF SetupLabels, Planning
  <2>b. \A i \in 1 .. Len(u.plan) : PlannedOf(u, i)
    BY <1>4, <2>3
  <2>4. WellShaped(u)
    BY <1>3, <2>2, <2>3, <2>a, <2>b DEF WellShaped
  <2>5. w # "none"
    BY <1>6 DEF Workspaces
  <2>6. Fits(u, u.at)
    <3>1. l \notin Looking /\ (l \in Creating \/ l = "plan" \/ (l = "skill" /\ ~t.hooks))
      BY <1>7 DEF Looking, Creating
    <3>2. l \notin Applying /\ l \notin {"claude", "codex", "failed", "resolve"}
      BY <1>7 DEF Creating, Applying
    <3>3. l \in {"plan"} => l \notin Creating
      BY DEF Creating
    <3>4. QED BY <1>4, <2>2, <2>3, <2>5, <3>1, <3>2, <3>3, <1>7 DEF Fits
  <2>7. Opened(p, u)
    BY <1>1, <1>3, <1>4, <1>7, <2>2, <2>3, <2>4, <2>6 DEF Opened
  <2>8. QED BY <2>1, <2>7, <1>7
<1>8. PICK l : l = AfterResolve(p)
  OBVIOUS
<1>9. l \in {"plan", "skill"} /\ (l = "plan" => t.hooks) /\ (l = "skill" => ~t.hooks)
  BY <1>1, <1>8 DEF AfterResolve
<1>10. Resolves(files["binding"]) /\ t.explicit = "none" => Opens(w)
  BY <1>5 DEF Resolves
<1>11. \/ Assign(p, [at |-> "refused"])
       \/ Opens(w) /\ Assign(p, [post[p] EXCEPT !.at = l, !.ws = w])
       \/ Assign(p, [post[p] EXCEPT !.at = "config", !.ws = w])
  <2>1. CASE t.explicit = "none" /\ files["binding"] # NoFile
    <3>1. IF Resolves(files["binding"]) THEN Assign(p, [post[p] EXCEPT !.at = l, !.ws = w])
          ELSE Assign(p, [at |-> "refused"])
      BY <2>1, <1>1, <1>5, <1>8 DEF Resolve, Refuse
    <3>2. QED BY <3>1, <2>1, <1>10
  <2>2. CASE ~(t.explicit = "none" /\ files["binding"] # NoFile)
    <3>1. IF Opens(w) THEN Assign(p, [post[p] EXCEPT !.at = l, !.ws = w])
          ELSE IF config[w] = Absent THEN Assign(p, [post[p] EXCEPT !.at = "config", !.ws = w])
          ELSE Assign(p, [at |-> "refused"])
      BY <2>2, <1>1, <1>5, <1>8 DEF Resolve, Refuse
    <3>2. QED BY <3>1
  <2>3. QED BY <2>1, <2>2
<1>12. "config" \in Creating
  BY DEF Creating
<1>13. CASE Assign(p, [at |-> "refused"])
  BY <1>13
<1>14. CASE Opens(w) /\ Assign(p, [post[p] EXCEPT !.at = l, !.ws = w])
  BY <1>7, <1>9, <1>14
<1>15. CASE Assign(p, [post[p] EXCEPT !.at = "config", !.ws = w])
  <2>1. "config" # "plan" /\ "config" # "skill"
    OBVIOUS
  <2>2. QED BY <1>7, <1>12, <1>15, <2>1
<1>16. QED BY <1>11, <1>13, <1>14, <1>15

-----------------------------------------------------------------------------
(* What a step of one setup leaves to the others.                          *)

LEMMA BusyIs ==
  ASSUME SetupTypes, NEW p \in Setups
  PROVE Busy(p) <=> post[p].at \in SetupLabels \ Over
<1>1. post[p].at \in {"idle", "refused"} \/ post[p].at \in SetupLabels
  BY DEF SetupTypes, Formed, WellShaped, Free
<1>2. Over = {"failed", "done"} /\ {"idle", "refused"} \cap SetupLabels = {}
  BY DEF SetupLabels, Over, Looking, Creating, Planning, Starting, Applying
<1>3. QED BY <1>1, <1>2 DEF Busy

LEMMA StandsOn ==
  ASSUME Gains, WorkspaceTypes, WorkspaceTypes', NEW t, NEW l, Stands(t, l),
         l \in Planning \cup Starting \cup Applying \cup Over => t.ws \in Workspaces,
         overlapped => overlapped', l = "cold" => cold' = cold \/ overlapped'
  PROVE Stands(t, l)'
<1>1. l \in Planning \cup Starting \cup Applying \cup Over => Opens(t.ws)'
  BY Zenon, StandsTells DEF Gains
<1>2. l \in Starting \cup Applying \cup Over => registry'[t.ws] = Whole
  BY Zenon, StandsTells DEF Gains
<1>3. l = "cold" => overlapped' \/ cold'[t.ws] = 0
  BY Zenon DEF Stands
<1>4. l \in (Starting \ {"cold"}) \cup Applying \cup Over => cold'[t.ws] >= 1
  <2>1. SUFFICES ASSUME l \in (Starting \ {"cold"}) \cup Applying \cup Over PROVE cold'[t.ws] >= 1
    OBVIOUS
  <2>2. cold[t.ws] >= 1 /\ t.ws \in Workspaces
    BY Zenon, <2>1, StandsTells
  <2>3. cold[t.ws] <= cold'[t.ws] /\ cold[t.ws] \in Nat /\ cold'[t.ws] \in Nat
    BY <2>2 DEF Gains, WorkspaceTypes
  <2>4. QED BY <2>2, <2>3
<1>5. QED BY Zenon, <1>1, <1>2, <1>3, <1>4 DEF Stands

LEMMA ReadyOn ==
  ASSUME Gains, NEW document \in HookContents \cup Bindings, BoundIsReady(document)
  PROVE BoundIsReady(document)'
<1>1. document.kind = "binding" => document.ws \in Workspaces
  BY DEF HookContents, HooksFiles, Bindings, Binding, NoFile, BadFile
<1>2. QED BY <1>1 DEF BoundIsReady, Ready, Gains

\* The workspace of a setup.
LEMMA HasWorkspace ==
  ASSUME NEW t, WellShaped(t), Fits(t, t.at), t.at \notin Looking
  PROVE t.ws \in Workspaces
BY DEF WellShaped, Fits

LEMMA PlannedBinding ==
  ASSUME NEW t, WellShaped(t), Len(t.plan) = 3
  PROVE t.plan[3].original \in Bindings /\ t.plan[3].content = Binding(t.ws)
BY DEF WellShaped, PlannedOf

LEMMA WorkspacesStep ==
  ASSUME SetupTypes, WorkspacesInv, NEW p \in Setups, NEW u, Formed(u), Assign(p, u),
         WorkspaceTypes', Gains, overlapped => overlapped', BoundIsReady(files["binding"])',
         u.at \in SetupLabels => Stands(u, u.at)',
         u.at \in SetupLabels /\ Len(u.plan) = 3 => BoundIsReady(u.plan[3].original)',
         overlapped' \/ cold' = cold \/ post[p].at = "cold",
         ~overlapped' /\ u.at \in SetupLabels \ Over => \A q \in Setups \ {p} : ~Busy(q),
         ~overlapped' => \A w \in Workspaces : cold'[w] <= 1
  PROVE WorkspacesInv'
<1>1. DOMAIN post = Setups /\ WorkspaceTypes
  BY DEF SetupTypes, WorkspaceTypes
<1>2. post'[p] = u /\ \A q \in Setups \ {p} : post'[q] = post[q]
  BY <1>1 DEF Assign
<1>3. ASSUME NEW q \in Setups, Working(q)'
      PROVE Stands(post[q], post[q].at)' /\ (Len(post'[q].plan) = 3 => BoundIsReady(post[q].plan[3].original)')
  <2>1. CASE q = p
    BY <2>1, <1>2, <1>3 DEF Working
  <2>2. CASE q # p
    <3>1. PICK t : t = post[q]
      OBVIOUS
    <3>2. post'[q] = t /\ t.at \in SetupLabels
      BY <1>2, <1>3, <2>2, <3>1 DEF Working
    <3>3. t.at \notin {"idle", "refused"} /\ Working(q)
      BY <3>1, <3>2 DEF SetupLabels, Looking, Creating, Planning, Starting, Applying, Over, Working
    <3>4. WellShaped(t) /\ Fits(t, t.at) /\ Stands(t, t.at) /\ (Len(t.plan) = 3 => BoundIsReady(t.plan[3].original))
      BY <3>1, <3>3, WorkingIs DEF WorkspacesInv
    <3>5. t.at \in Planning \cup Starting \cup Applying \cup Over => t.ws \in Workspaces
      <4>1. Looking \cap (Planning \cup Starting \cup Applying \cup Over) = {}
        BY DEF Looking, Planning, Starting, Applying, Over
      <4>2. QED BY <4>1, <3>4, HasWorkspace
    <3>6. t.at = "cold" => cold' = cold \/ overlapped'
      <4>1. SUFFICES ASSUME t.at = "cold", post[p].at = "cold" PROVE overlapped'
        BY Zenon
      <4>2. Busy(p) /\ Busy(q)
        BY <4>1, <3>1 DEF Busy
      <4>3. QED BY Zenon, <4>2, <2>2 DEF WorkspacesInv
    <3>7. Stands(t, t.at)'
      <4>1. PICK l : l = t.at
        OBVIOUS
      <4>2. Stands(t, l)'
        BY Zenon, <4>1, <3>4, <3>5, <3>6, <1>1, StandsOn
      <4>3. QED BY <4>1, <4>2
    <3>8. Len(t.plan) = 3 => BoundIsReady(t.plan[3].original)'
      <4>1. SUFFICES ASSUME Len(t.plan) = 3 PROVE BoundIsReady(t.plan[3].original)'
        OBVIOUS
      <4>2. PICK d : d = t.plan[3].original
        OBVIOUS
      <4>3. d \in HookContents \cup Bindings /\ BoundIsReady(d)
        BY <4>1, <4>2, <3>4, PlannedBinding
      <4>4. QED BY <4>2, <4>3, ReadyOn
    <3>9. QED BY <3>2, <3>7, <3>8
  <2>3. QED BY <2>1, <2>2
<1>4. ASSUME ~overlapped', NEW q \in Setups, NEW r \in Setups, Busy(q)', Busy(r)' PROVE q = r
  <2>1. ASSUME NEW s \in Setups, s # p, Busy(s)' PROVE Busy(s)
    BY <2>1, <1>2 DEF Busy
  <2>2. CASE q # p /\ r # p
    BY Zenon, <2>1, <2>2, <1>4 DEF WorkspacesInv
  <2>3. CASE q = p \/ r = p
    <3>1. SUFFICES ASSUME q # r PROVE FALSE
      OBVIOUS
    <3>2. u.at \notin {"idle", "refused", "failed", "done"}
      BY <2>3, <1>2, <1>4 DEF Busy
    <3>3. u.at \in SetupLabels \ Over
      BY <3>2 DEF Formed, WellShaped, Free, Over
    <3>4. PICK s \in Setups : s # p /\ Busy(s)'
      BY <2>3, <3>1, <1>4
    <3>5. QED BY <3>3, <3>4, <2>1, <1>4
  <2>4. QED BY <2>2, <2>3
<1>5. QED BY Zenon, <1>3, <1>4 DEF WorkspacesInv

\* What a setup has planned it holds.
LEMMA PlansHold ==
  ASSUME SetupTypes, NEW q \in Setups, Working(q), NEW i \in 1 .. Len(post[q].plan)
  PROVE Holds(q, Order[i]) /\ i \in 1 .. 3
<1>1. PICK t : t = post[q]
  OBVIOUS
<1>2. t.at \notin {"idle", "refused"}
  BY <1>1 DEF Working, SetupLabels, Looking, Creating, Planning, Starting, Applying, Over
<1>3. WellShaped(t) /\ Fits(t, t.at)
  BY <1>1, <1>2, WorkingIs
<1>4. Len(t.plan) # 0 /\ Len(t.plan) \in Nat
  BY <1>1, <1>3 DEF WellShaped
<1>5. t.at \notin Looking \cup Creating /\ t.hooks /\ Len(t.plan) <= 3
  <2>1. t.at \notin Looking \cup Creating
    BY <1>3, <1>4 DEF Fits
  <2>2. CASE t.at = "plan"
    BY <2>1, <2>2, <1>3, <1>4 DEF Fits
  <2>3. CASE t.at # "plan"
    BY <2>1, <2>3, <1>3, <1>4 DEF Fits
  <2>4. QED BY <2>1, <2>2, <2>3
<1>6. t.ws # "none" /\ DOMAIN t.read = Hooked
  <2>1. t.at # "claude" /\ t.at # "codex"
    BY <1>5 DEF Looking
  <2>2. QED BY <2>1, <1>3, <1>5 DEF Fits
<1>7. i \in 1 .. 3
  BY <1>1, <1>4, <1>5
<1>8. QED BY <1>1, <1>2, <1>5, <1>6, <1>7, OrderIs DEF Holds, Hooked

LEMMA SeesStep ==
  ASSUME SetupTypes, SeesInv, NEW p \in Setups, NEW u, Assign(p, u), u.at \in SetupLabels => Sees(p, u)',
         \A q \in Setups \ {p}, f \in Files : <<q, f>> \in disturbed => <<q, f>> \in disturbed',
         \A f \in Files : files'[f] # files[f] => \A q \in Setups \ {p} : Holds(q, f) => <<q, f>> \in disturbed'
  PROVE SeesInv'
<1>1. post'[p] = u /\ \A q \in Setups \ {p} : post'[q] = post[q]
  BY DEF Assign, SetupTypes
<1>2. ASSUME NEW q \in Setups, Working(q)' PROVE Sees(q, post[q])'
  <2>1. CASE q = p
    BY <2>1, <1>1, <1>2 DEF Working
  <2>2. CASE q # p
    <3>1. PICK t : t = post[q] /\ post'[q] = t
      BY <1>1, <2>2
    <3>2. Working(q) /\ Sees(q, t)
      BY <1>2, <3>1 DEF Working, SeesInv
    <3>3. ASSUME NEW i \in 1 .. Len(t.plan), <<q, Order[i]>> \notin disturbed'
          PROVE <<q, Order[i]>> \notin disturbed /\ files'[Order[i]] = files[Order[i]]
      <4>1. Holds(q, Order[i]) /\ Order[i] \in Files
        BY <3>1, <3>2, PlansHold, OrderIs DEF Files, Hooked
      <4>2. QED BY <4>1, <3>3, <2>2
    <3>4. Sees(q, t)'
      <4>1. SUFFICES ASSUME NEW i \in 1 .. Len(t.plan), <<q, Order[i]>> \notin disturbed'
            PROVE /\ t.at \in Prepared => files'[Order[i]] = t.plan[i].original
                  /\ t.at = "replace" =>
                       files'[Order[i]] = IF i < t.next THEN t.plan[i].content ELSE t.plan[i].original
                  /\ t.at = "done" => files'[Order[i]] = t.plan[i].content
                  /\ t.at \in {"rollback", "failed"} /\ ~t.unrestored /\ t.next < i =>
                       files'[Order[i]] = t.plan[i].original
        BY DEF Sees
      <4>2. PICK c : c = files[Order[i]] /\ c = files'[Order[i]]
        BY <4>1, <3>3
      <4>3. <<q, Order[i]>> \notin disturbed
        BY <4>1, <3>3
      <4>4. /\ t.at \in Prepared => c = t.plan[i].original
            /\ t.at = "replace" => c = IF i < t.next THEN t.plan[i].content ELSE t.plan[i].original
            /\ t.at = "done" => c = t.plan[i].content
            /\ t.at \in {"rollback", "failed"} /\ ~t.unrestored /\ t.next < i => c = t.plan[i].original
        BY Zenon, <4>2, <4>3, <3>2 DEF Sees
      <4>5. QED BY Zenon, <4>2, <4>4
    <3>5. QED BY <3>1, <3>4
  <2>3. QED BY <2>1, <2>2
<1>3. QED BY <1>2 DEF SeesInv

\* What all setups have counted, where the user edits nothing.
LEMMA CountsStep ==
  ASSUME SetupTypes, CountsInv, NEW p \in Setups, NEW u, Assign(p, u), added' = added, raced' = raced,
         u.at \in SetupLabels => Counts(u), UserHooksKept'
  PROVE CountsInv'
<1>1. post'[p] = u /\ \A q \in Setups \ {p} : post'[q] = post[q]
  BY DEF Assign, SetupTypes
<1>2. ASSUME NEW q \in Setups, Working(q)' PROVE Counts(post[q])'
  <2>1. PICK t : t = post'[q]
    OBVIOUS
  <2>2. Counts(t)
    <3>1. CASE q = p
      BY <3>1, <2>1, <1>1, <1>2 DEF Working
    <3>2. CASE q # p
      BY <3>2, <2>1, <1>1, <1>2 DEF Working, CountsInv
    <3>3. QED BY <3>1, <3>2
  <2>3. Counts(t)'
    BY <2>2 DEF Counts
  <2>4. QED BY <2>1, <2>3
<1>3. QED BY <1>2 DEF CountsInv

\* A lone setup and its files.
LEMMA LoneStep ==
  ASSUME SetupTypes, WorkspacesInv, LoneInv, NEW p \in Setups, NEW u, Assign(p, u), Formed(u),
         overlapped => overlapped',
         ~overlapped' /\ u.at \in SetupLabels \ Over => \A q \in Setups \ {p} : ~Busy(q),
         ~overlapped' /\ u.at \in SetupLabels \ Over => Lone(u)',
         ~overlapped' /\ files'["binding"].kind = "binding" => \A f \in Hooked : IsManaged(files'[f]),
         files' = files \/ Busy(p)
  PROVE LoneInv'
<1>1. post'[p] = u /\ \A q \in Setups \ {p} : post'[q] = post[q]
  BY DEF Assign, SetupTypes
<1>2. ASSUME ~overlapped', NEW q \in Setups, Busy(q)' PROVE Lone(post[q])'
  <2>1. CASE q = p
    <3>1. u.at \notin {"idle", "refused", "failed", "done"}
      BY <1>1, <1>2, <2>1 DEF Busy
    <3>2. u.at \in SetupLabels \ Over
      BY <3>1 DEF Formed, WellShaped, Free, Over
    <3>3. QED BY <3>2, <1>1, <1>2, <2>1
  <2>2. CASE q # p
    <3>1. PICK t : t = post[q] /\ post'[q] = t
      BY <1>1, <2>2
    <3>2. Busy(q) /\ ~overlapped
      BY <1>2, <3>1 DEF Busy
    <3>3. Lone(t)
      BY <3>1, <3>2 DEF LoneInv
    <3>4. files' = files
      BY <3>2, <2>2 DEF WorkspacesInv
    <3>5. Lone(t)'
      BY <3>3, <3>4 DEF Lone
    <3>6. QED BY <3>1, <3>5
  <2>3. QED BY <2>1, <2>2
<1>3. QED BY <1>2 DEF LoneInv

-----------------------------------------------------------------------------
(* The entries of the hooks files.                                         *)

LEMMA CountIs ==
  ASSUME NEW S, NEW e \in Seq(S), NEW K
  PROVE CountOf(e, K) \in Nat /\ IsFiniteSet({i \in DOMAIN e : e[i] \in K})
<1>1. DOMAIN e = 1 .. Len(e) /\ Len(e) \in Nat
  OBVIOUS
<1>2. IsFiniteSet(DOMAIN e)
  BY <1>1, FS_Interval
<1>3. PICK D : D = {i \in DOMAIN e : e[i] \in K}
  OBVIOUS
<1>4. D \subseteq DOMAIN e
  BY <1>3
<1>5. IsFiniteSet(D) /\ Cardinality(D) \in Nat
  BY <1>2, <1>4, FS_Subset, FS_CardinalityType
<1>6. QED BY <1>3, <1>5 DEF CountOf

LEMMA CountAppend ==
  ASSUME NEW S, NEW e \in Seq(S), NEW x \in S, NEW K
  PROVE CountOf(Append(e, x), K) = CountOf(e, K) + (IF x \in K THEN 1 ELSE 0)
<1>1. PICK D, E, n : D = {i \in DOMAIN e : e[i] \in K} /\ n = Len(e)
                     /\ E = {i \in DOMAIN Append(e, x) : Append(e, x)[i] \in K}
  OBVIOUS
<1>2. /\ DOMAIN e = 1 .. n /\ n \in Nat /\ DOMAIN Append(e, x) = 1 .. (n + 1)
      /\ \A i \in 1 .. n : Append(e, x)[i] = e[i]
      /\ Append(e, x)[n + 1] = x
  BY <1>1
<1>3. n + 1 \notin D /\ (1 .. (n + 1)) = (1 .. n) \cup {n + 1}
  BY <1>1, <1>2
<1>4. E = IF x \in K THEN D \cup {n + 1} ELSE D
  BY <1>1, <1>2, <1>3
<1>5. IsFiniteSet(D) /\ Cardinality(D) \in Nat
  BY <1>1, CountIs DEF CountOf
<1>6. Cardinality(D \cup {n + 1}) = Cardinality(D) + 1
  BY <1>3, <1>5, FS_AddElement
<1>7. CountOf(e, K) = Cardinality(D) /\ CountOf(Append(e, x), K) = Cardinality(E)
  BY <1>1 DEF CountOf
<1>8. QED BY <1>4, <1>5, <1>6, <1>7

LEMMA CountConcat ==
  ASSUME NEW S, NEW e \in Seq(S), NEW K, NEW l \in Seq(K)
  PROVE CountOf(e \o l, K) = CountOf(e, K) + Len(l)
<1>1. PICK c, m, n, D, L, E :
        /\ c = e \o l /\ m = Len(e) /\ n = Len(l)
        /\ D = {i \in DOMAIN e : e[i] \in K} /\ L = (m + 1) .. (m + n) /\ E = {i \in DOMAIN c : c[i] \in K}
  OBVIOUS
<1>2. /\ DOMAIN e = 1 .. m /\ m \in Nat /\ n \in Nat /\ DOMAIN l = 1 .. n
      /\ DOMAIN c = 1 .. (m + n)
      /\ \A i \in 1 .. (m + n) : c[i] = IF i <= m THEN e[i] ELSE l[i - m]
  BY <1>1
<1>3. \A i \in 1 .. (m + n) : i \in E <=> i \in D \/ i \in L
  <2> SUFFICES ASSUME NEW i \in 1 .. (m + n) PROVE i \in E <=> i \in D \/ i \in L
    OBVIOUS
  <2>1. CASE i <= m
    BY <2>1, <1>1, <1>2
  <2>2. CASE ~(i <= m)
    <3>1. i - m \in 1 .. n /\ i \in L
      BY <2>2, <1>1, <1>2
    <3>2. l[i - m] \in K
      BY <3>1, <1>2
    <3>3. QED BY <3>1, <3>2, <2>2, <1>1, <1>2
  <2>3. QED BY <2>1, <2>2
<1>4. E \subseteq 1 .. (m + n) /\ D \subseteq 1 .. m /\ D \subseteq 1 .. (m + n) /\ L \subseteq 1 .. (m + n)
  BY <1>1, <1>2
<1>5. E = D \cup L
  BY <1>3, <1>4
<1>6. D \cap L = {}
  BY <1>1, <1>2, <1>4
<1>7. IsFiniteSet(D) /\ Cardinality(D) \in Nat
  BY <1>1, CountIs DEF CountOf
<1>8. IsFiniteSet(L) /\ Cardinality(L) = n
  <2>1. m + 1 \in Int /\ m + n \in Int
    BY <1>2
  <2>2. IsFiniteSet(L) /\ Cardinality(L) = IF m + 1 > m + n THEN 0 ELSE (m + n) - (m + 1) + 1
    BY <2>1, <1>1, FS_Interval
  <2>3. QED BY <2>2, <1>2
<1>9. Cardinality(D \cap L) = 0
  BY <1>6, FS_EmptySet
<1>10. Cardinality(D \cup L) = Cardinality(D) + n
  <2>1. Cardinality(D \cup L) = Cardinality(D) + Cardinality(L) - Cardinality(D \cap L)
    BY <1>7, <1>8, FS_Union
  <2>2. QED BY <2>1, <1>2, <1>7, <1>8, <1>9
<1>11. CountOf(e, K) = Cardinality(D) /\ CountOf(c, K) = Cardinality(E)
  BY <1>1 DEF CountOf
<1>12. QED BY <1>1, <1>5, <1>10, <1>11

LEMMA CountCons ==
  ASSUME NEW S, NEW e \in Seq(S), NEW x \in S, NEW K
  PROVE CountOf(<<x>> \o e, K) = CountOf(e, K) + (IF x \in K THEN 1 ELSE 0)
<1>1. PICK c, n, D, E, M :
        /\ c = <<x>> \o e /\ n = Len(e)
        /\ D = {i \in DOMAIN e : e[i] \in K} /\ E = {i \in DOMAIN c : c[i] \in K} /\ M = E \ {1}
  OBVIOUS
<1>2. /\ DOMAIN e = 1 .. n /\ n \in Nat /\ DOMAIN c = 1 .. (n + 1) /\ c[1] = x
      /\ \A i \in 1 .. n : c[i + 1] = e[i]
  BY <1>1
<1>3. PICK f : f = [i \in D |-> i + 1]
  OBVIOUS
<1>4. D \subseteq 1 .. n
  BY <1>1, <1>2
<1>5. f \in [D -> M]
  <2>1. \A i \in D : i + 1 \in M
    BY <1>1, <1>2, <1>4
  <2>2. QED BY <2>1, <1>3
<1>6. \A i, j \in D : f[i] = f[j] => i = j
  BY <1>3, <1>4
<1>7. \A j \in M : \E i \in D : f[i] = j
  <2> SUFFICES ASSUME NEW j \in M PROVE \E i \in D : f[i] = j
    OBVIOUS
  <2>1. j \in 2 .. (n + 1) /\ c[j] \in K
    BY <1>1, <1>2
  <2>2. j - 1 \in 1 .. n /\ (j - 1) + 1 = j
    BY <2>1, <1>2
  <2>3. e[j - 1] = c[j]
    BY <2>2, <1>2
  <2>4. j - 1 \in D
    BY <1>1, <1>2, <2>1, <2>2, <2>3
  <2>5. QED BY <2>2, <2>4, <1>3
<1>8. ExistsBijection(D, M)
  <2>1. f \in Injection(D, M)
    BY <1>5, <1>6 DEF Injection, IsInjective
  <2>2. f \in Surjection(D, M)
    BY <1>5, <1>7 DEF Surjection
  <2>3. QED BY <2>1, <2>2 DEF ExistsBijection, Bijection
<1>9. IsFiniteSet(D) /\ Cardinality(D) \in Nat
  BY <1>1, CountIs DEF CountOf
<1>10. IsFiniteSet(M) /\ Cardinality(M) = Cardinality(D)
  BY <1>8, <1>9, FS_Bijection
<1>11. 1 \notin M /\ E = IF x \in K THEN M \cup {1} ELSE M
  BY <1>1, <1>2
<1>12. Cardinality(M \cup {1}) = Cardinality(M) + 1
  BY <1>10, <1>11, FS_AddElement
<1>13. CountOf(e, K) = Cardinality(D) /\ CountOf(c, K) = Cardinality(E)
  BY <1>1 DEF CountOf
<1>14. CASE x \in K
  BY <1>1, <1>9, <1>10, <1>11, <1>12, <1>13, <1>14
<1>15. CASE x \notin K
  <2>1. E = M
    BY <1>11, <1>15
  <2>2. CountOf(c, K) = CountOf(e, K) /\ CountOf(e, K) \in Nat
    BY <2>1, <1>9, <1>10, <1>13
  <2>3. c = <<x>> \o e
    BY <1>1
  <2>4. QED BY <2>2, <2>3, <1>15
<1>16. QED BY <1>14, <1>15

LEMMA PreserveKeeps ==
  ASSUME NEW e \in Seq({"user", "managed", "mixed"})
  PROVE /\ Preserve(e) \in Seq({"user", "managed", "mixed"})
        /\ CountOf(Preserve(e), {"user", "mixed"}) = CountOf(e, {"user", "mixed"})
        /\ CountOf(Preserve(e), {"managed", "mixed"}) = 0
<1>1. PICK n : n = CountOf(e, {"user", "mixed"})
  OBVIOUS
<1>2. n \in Nat
  BY <1>1, CountIs
<1>3. Preserve(e) = [i \in 1 .. n |-> "user"]
  BY <1>1 DEF Preserve
<1>4. PICK s : s = Preserve(e)
  OBVIOUS
<1>5. DOMAIN s = 1 .. n /\ \A i \in 1 .. n : s[i] = "user"
  BY <1>3, <1>4
<1>6. {i \in DOMAIN s : s[i] \in {"user", "mixed"}} = 1 .. n /\ {i \in DOMAIN s : s[i] \in {"managed", "mixed"}} = {}
  BY <1>5
<1>7. Cardinality(1 .. n) = n
  <2>1. Cardinality(1 .. n) = IF 1 > n THEN 0 ELSE n - 1 + 1
    BY <1>2, FS_Interval
  <2>2. QED BY <2>1, <1>2
<1>8. CountOf(s, {"user", "mixed"}) = n /\ CountOf(s, {"managed", "mixed"}) = 0
  BY <1>6, <1>7, FS_EmptySet DEF CountOf
<1>9. Preserve(e) \in Seq({"user", "managed", "mixed"})
  BY <1>2, <1>3
<1>10. QED BY <1>1, <1>4, <1>8, <1>9

LEMMA UserHooksOf ==
  ASSUME NEW d \in {NoFile} \cup HooksFiles
  PROVE \E h \in Seq({"user", "managed", "mixed"}), l \in Seq({"user", "mixed"}) :
          /\ Existing(d) = HooksFile(h, l)
          /\ UserHooks(d) = CountOf(h, {"user", "mixed"}) + Len(l)
          /\ IsManaged(d) => CountOf(h, {"managed", "mixed"}) = 1
<1>1. CASE d = NoFile
  <2>1. PICK s : s = <<>>
    OBVIOUS
  <2>2. s \in Seq({"user", "managed", "mixed"}) /\ s \in Seq({"user", "mixed"}) /\ Len(s) = 0
    BY <2>1
  <2>3. CountOf(s, {"user", "mixed"}) = 0
    <3>1. {i \in DOMAIN s : s[i] \in {"user", "mixed"}} = {}
      BY <2>2
    <3>2. QED BY <3>1, FS_EmptySet DEF CountOf
  <2>4. UserHooks(d) = 0 /\ ~IsManaged(d) /\ Existing(d) = HooksFile(s, s)
    BY <1>1, <2>1 DEF UserHooks, IsManaged, NoFile, Existing
  <2>5. UserHooks(d) = CountOf(s, {"user", "mixed"}) + Len(s)
    BY <2>2, <2>3, <2>4
  <2>6. QED BY <2>2, <2>4, <2>5
<1>2. CASE d # NoFile
  <2>1. /\ d = HooksFile(d.hooks, d.legacy) /\ d.kind = "document"
        /\ d.hooks \in Seq({"user", "managed", "mixed"}) /\ d.legacy \in Seq({"user", "mixed"})
    BY <1>2 DEF HooksFiles, HooksFile
  <2>2. UserHooks(d) = CountOf(d.hooks, {"user", "mixed"}) + Len(d.legacy)
    BY <2>1 DEF UserHooks
  <2>3. QED BY <2>1, <2>2, <1>2 DEF Existing, IsManaged
<1>3. QED BY <1>1, <1>2

LEMMA HooksFileIs ==
  ASSUME NEW h, NEW l
  PROVE /\ HooksFile(h, l).kind = "document" /\ HooksFile(h, l).hooks = h /\ HooksFile(h, l).legacy = l
        /\ UserHooks(HooksFile(h, l)) = CountOf(h, {"user", "mixed"}) + Len(l)
        /\ IsManaged(HooksFile(h, l)) <=> CountOf(h, {"managed", "mixed"}) = 1
BY DEF HooksFile, UserHooks, IsManaged

LEMMA InstalledKeeps ==
  ASSUME NEW e \in Seq({"user", "managed", "mixed"})
  PROVE /\ CountOf(Append(Preserve(e), "managed"), {"user", "mixed"}) = CountOf(e, {"user", "mixed"})
        /\ CountOf(Append(Preserve(e), "managed"), {"managed", "mixed"}) = 1
<1>1. PICK s, n : s = Preserve(e) /\ n = CountOf(e, {"user", "mixed"})
  OBVIOUS
<1>2. /\ s \in Seq({"user", "managed", "mixed"}) /\ n \in Nat
      /\ CountOf(s, {"user", "mixed"}) = n /\ CountOf(s, {"managed", "mixed"}) = 0
  BY <1>1, PreserveKeeps, CountIs
<1>3. "managed" \in {"user", "managed", "mixed"}
  OBVIOUS
<1>4. CountOf(Append(s, "managed"), {"user", "mixed"}) = n + (IF "managed" \in {"user", "mixed"} THEN 1 ELSE 0)
  BY <1>2, <1>3, CountAppend
<1>5. CountOf(Append(s, "managed"), {"managed", "mixed"}) = 0 + (IF "managed" \in {"managed", "mixed"} THEN 1 ELSE 0)
  BY <1>2, <1>3, CountAppend
<1>6. CountOf(Append(s, "managed"), {"user", "mixed"}) = n /\ CountOf(Append(s, "managed"), {"managed", "mixed"}) = 1
  BY <1>2, <1>4, <1>5
<1>7. QED BY <1>1, <1>6

\* The texts a setup makes have the user's hooks and one managed hook.
LEMMA SettingsKeep ==
  ASSUME NEW d \in {NoFile} \cup HooksFiles
  PROVE /\ UserHooks(ClaudeSettings(d)) = UserHooks(d) /\ UserHooks(CodexHooks(d)) = UserHooks(d)
        /\ IsManaged(ClaudeSettings(d)) /\ IsManaged(CodexHooks(d))
<1>1. PICK h \in Seq({"user", "managed", "mixed"}), l \in Seq({"user", "mixed"}) :
        Existing(d) = HooksFile(h, l) /\ UserHooks(d) = CountOf(h, {"user", "mixed"}) + Len(l)
  BY UserHooksOf
<1>2. PICK x, y : x = Append(Preserve(h), "managed") /\ y = Append(Preserve(h \o l), "managed")
  OBVIOUS
<1>3. ClaudeSettings(d) = HooksFile(x, l) /\ CodexHooks(d) = HooksFile(y, <<>>)
  BY <1>1, <1>2, HooksFileIs DEF ClaudeSettings, CodexHooks
<1>4. h \o l \in Seq({"user", "managed", "mixed"})
  <2>1. l \in Seq({"user", "managed", "mixed"})
    OBVIOUS
  <2>2. QED BY <2>1
<1>5. CountOf(h \o l, {"user", "mixed"}) = CountOf(h, {"user", "mixed"}) + Len(l)
  BY CountConcat
<1>6. CountOf(x, {"user", "mixed"}) = CountOf(h, {"user", "mixed"}) /\ CountOf(x, {"managed", "mixed"}) = 1
  BY <1>2, InstalledKeeps
<1>7. CountOf(y, {"user", "mixed"}) = CountOf(h, {"user", "mixed"}) + Len(l) /\ CountOf(y, {"managed", "mixed"}) = 1
  BY <1>2, <1>4, <1>5, InstalledKeeps
<1>8. UserHooks(ClaudeSettings(d)) = UserHooks(d) /\ IsManaged(ClaudeSettings(d))
  BY <1>1, <1>3, <1>6, HooksFileIs
<1>9. UserHooks(CodexHooks(d)) = UserHooks(d) /\ IsManaged(CodexHooks(d))
  <2>a. CountOf(h, {"user", "mixed"}) \in Nat
    BY CountIs
  <2>b. Len(l) \in Nat
    OBVIOUS
  <2>1. PICK n : n = CountOf(h, {"user", "mixed"}) + Len(l) /\ n \in Nat
    BY <2>a, <2>b
  <2>2. UserHooks(CodexHooks(d)) = n + Len(<<>>)
    BY <1>3, <1>7, <2>1, HooksFileIs
  <2>3. UserHooks(CodexHooks(d)) = n
    BY <2>1, <2>2
  <2>4. IsManaged(CodexHooks(d))
    BY <1>3, <1>7, HooksFileIs
  <2>5. QED BY <1>1, <2>1, <2>3, <2>4
<1>10. QED BY <1>8, <1>9

LEMMA UserHooksType ==
  ASSUME NEW d \in HookContents
  PROVE UserHooks(d) \in Nat
<1>1. CASE d = BadFile
  BY <1>1 DEF UserHooks, BadFile
<1>2. CASE d # BadFile
  <2>1. PICK h \in Seq({"user", "managed", "mixed"}), l \in Seq({"user", "mixed"}) :
          UserHooks(d) = CountOf(h, {"user", "mixed"}) + Len(l)
    BY <1>2, UserHooksOf DEF HookContents
  <2>2. CountOf(h, {"user", "mixed"}) \in Nat
    BY CountIs
  <2>3. Len(l) \in Nat
    OBVIOUS
  <2>4. QED BY <2>1, <2>2, <2>3
<1>3. QED BY <1>1, <1>2

\* The user's edit adds one.
LEMMA EditKeeps ==
  ASSUME NEW d \in {NoFile} \cup HooksFiles, NEW e,
         e = HooksFile(<<"user">> \o Existing(d).hooks, Existing(d).legacy)
  PROVE /\ e \in HooksFiles /\ UserHooks(e) = UserHooks(d) + 1
        /\ IsManaged(d) => IsManaged(e)
<1>1. PICK h \in Seq({"user", "managed", "mixed"}), l \in Seq({"user", "mixed"}) :
        /\ Existing(d) = HooksFile(h, l) /\ UserHooks(d) = CountOf(h, {"user", "mixed"}) + Len(l)
        /\ IsManaged(d) => CountOf(h, {"managed", "mixed"}) = 1
  BY UserHooksOf
<1>2. PICK x : x = <<"user">> \o h
  OBVIOUS
<1>3. e = HooksFile(x, l)
  BY <1>1, <1>2, HooksFileIs
<1>4. x \in Seq({"user", "managed", "mixed"})
  <2>1. <<"user">> \in Seq({"user", "managed", "mixed"})
    OBVIOUS
  <2>2. QED BY <1>2, <2>1
<1>5. "user" \in {"user", "managed", "mixed"}
  OBVIOUS
<1>6. CountOf(x, {"user", "mixed"}) = CountOf(h, {"user", "mixed"}) + (IF "user" \in {"user", "mixed"} THEN 1 ELSE 0)
  BY <1>2, <1>5, CountCons
<1>7. CountOf(x, {"managed", "mixed"}) = CountOf(h, {"managed", "mixed"}) + (IF "user" \in {"managed", "mixed"} THEN 1 ELSE 0)
  BY <1>2, <1>5, CountCons
<1>a. CountOf(h, {"user", "mixed"}) \in Nat
  BY <1>1, CountIs
<1>b. CountOf(h, {"managed", "mixed"}) \in Nat
  BY <1>1, CountIs
<1>8. CountOf(h, {"user", "mixed"}) \in Nat /\ CountOf(h, {"managed", "mixed"}) \in Nat /\ Len(l) \in Nat
  BY <1>1, <1>a, <1>b
<1>9. CountOf(x, {"user", "mixed"}) + Len(l) = UserHooks(d) + 1
  BY <1>1, <1>6, <1>8
<1>10. CountOf(x, {"managed", "mixed"}) = CountOf(h, {"managed", "mixed"})
  BY <1>7, <1>8
<1>11. UserHooks(e) = UserHooks(d) + 1 /\ (IsManaged(d) => IsManaged(e))
  BY <1>1, <1>3, <1>9, <1>10, HooksFileIs
<1>12. e \in HooksFiles
  BY <1>1, <1>3, <1>4 DEF HooksFile, HooksFiles
<1>13. QED BY <1>11, <1>12

-----------------------------------------------------------------------------
(* Steps that write no file.                                               *)

Around(p) ==
  /\ files' = files /\ raced' = raced /\ added' = added
  /\ overlapped => overlapped'
  /\ \A q \in Setups \ {p}, f \in Files : <<q, f>> \in disturbed => <<q, f>> \in disturbed'
ColdMoves(p) ==
  cold' = cold \/ (On(p, "cold") /\ cold' = [cold EXCEPT ![post[p].ws] = cold[post[p].ws] + 1])

LEMMA ApartIsAround == ASSUME NEW p, Apart PROVE Around(p)
BY Zenon DEF Apart, Around

\* Where no two overlapped, a workspace is started cold once.
LEMMA ColdOnce ==
  ASSUME SetupTypes, WorkspacesInv, NEW p \in Setups, ColdMoves(p), overlapped => overlapped'
  PROVE ~overlapped' => \A w \in Workspaces : cold'[w] <= 1
<1>1. SUFFICES ASSUME ~overlapped' PROVE \A w \in Workspaces : cold'[w] <= 1
  BY Zenon
<1>2. \A w \in Workspaces : cold[w] <= 1
  BY Zenon, <1>1 DEF WorkspacesInv
<1>3. CASE cold' = cold
  BY <1>2, <1>3
<1>4. CASE On(p, "cold") /\ cold' = [cold EXCEPT ![post[p].ws] = cold[post[p].ws] + 1]
  <2>1. PICK t : t = post[p]
    OBVIOUS
  <2>2. t.at = "cold" /\ Working(p)
    BY <1>4, <2>1 DEF On, Working, SetupLabels, Starting
  <2>3. Stands(t, "cold")
    BY <2>1, <2>2 DEF WorkspacesInv
  <2>4. cold[t.ws] = 0
    BY Zenon, <2>3, <1>1 DEF Stands
  <2>5. cold' = [cold EXCEPT ![t.ws] = 0 + 1]
    BY <2>1, <2>4, <1>4
  <2>6. cold \in [Workspaces -> Nat]
    BY DEF SetupTypes
  <2>7. QED BY <1>2, <2>5, <2>6
<1>5. QED BY <1>3, <1>4 DEF ColdMoves

\* The bindings that are ready stay so.
LEMMA BoundOn ==
  ASSUME SetupTypes, WorkspacesInv, Gains, files' = files
  PROVE BoundIsReady(files["binding"])'
<1>1. PICK d : d = files["binding"]
  OBVIOUS
<1>2. d \in HookContents \cup Bindings /\ BoundIsReady(d)
  BY <1>1 DEF SetupTypes, FilesInv, WorkspacesInv
<1>3. BoundIsReady(d)'
  BY <1>2, ReadyOn
<1>4. QED BY <1>1, <1>3

\* A setup is refused, returns or dies.
LEMMA QuitKeeps ==
  ASSUME SetupInv, NEW p \in Setups, NEW u \in {Free, [at |-> "refused"]}, Assign(p, u), Around(p),
         WorkspaceTypes', Gains, ColdMoves(p)
  PROVE SetupInv'
<1>1. SetupTypes /\ WorkspacesInv /\ SeesInv /\ CountsInv /\ LoneInv
  BY DEF SetupInv
<1>2. Formed(u) /\ u.at \notin SetupLabels
  <2>1. u.at = "idle" \/ u.at = "refused"
    BY DEF Free
  <2>2. "idle" \notin SetupLabels /\ "refused" \notin SetupLabels
    BY DEF SetupLabels, Looking, Creating, Planning, Starting, Applying, Over
  <2>3. QED BY <2>1, <2>2, EndsForm
<1>3. files' = files /\ raced' = raced /\ added' = added /\ (overlapped => overlapped')
  BY Zenon DEF Around
<1>4. SetupTypes'
  <2>1. FilesInv'
    BY <1>1, <1>3 DEF SetupTypes, FilesInv
  <2>2. QED BY <1>1, <1>2, <2>1, OneMoves
<1>5. WorkspacesInv'
  <2>1. overlapped' \/ cold' = cold \/ post[p].at = "cold"
    BY Zenon DEF ColdMoves, On
  <2>2. ~overlapped' => \A w \in Workspaces : cold'[w] <= 1
    BY Zenon, <1>1, <1>3, ColdOnce
  <2>3. BoundIsReady(files["binding"])'
    BY <1>1, <1>3, BoundOn
  <2>4. QED BY Zenon, <1>1, <1>2, <1>3, <2>1, <2>2, <2>3, WorkspacesStep
<1>6. SeesInv'
  BY <1>1, <1>2, <1>3, SeesStep DEF Around
<1>7. CountsInv'
  <2>1. UserHooksKept'
    BY <1>1, <1>3 DEF CountsInv, UserHooksKept
  <2>2. QED BY Zenon, <1>1, <1>2, <1>3, <2>1, CountsStep
<1>8. LoneInv'
  <2>1. ~overlapped' /\ files'["binding"].kind = "binding" => \A f \in Hooked : IsManaged(files'[f])
    BY Zenon, <1>1, <1>3 DEF LoneInv
  <2>2. QED BY Zenon, <1>1, <1>2, <1>3, <2>1, LoneStep
<1>9. QED BY Zenon, <1>4, <1>5, <1>6, <1>7, <1>8 DEF SetupInv

\* The others are not busy where p is.
LEMMA OneIsBusy ==
  ASSUME WorkspacesInv, NEW p \in Setups, Busy(p), overlapped => overlapped'
  PROVE ~overlapped' => \A q \in Setups \ {p} : ~Busy(q)
BY Zenon DEF WorkspacesInv

LEMMA LabelKeeps ==
  ASSUME SetupInv, NEW p \in Setups, NEW t, t = post[p], NEW l, Labelled(p, l), Leads(t, l), Stands(t, l)',
         Busy(p), Apart, WorkspaceTypes', Gains, ColdMoves(p)
  PROVE SetupInv'
<1>1. SetupTypes /\ WorkspacesInv /\ SeesInv /\ CountsInv /\ LoneInv
  BY DEF SetupInv
<1>2. WellShaped(t) /\ Fits(t, t.at) /\ Working(p) /\ l \in SetupLabels /\ Fits(t, l)
  BY <1>1, WorkingIs DEF Labelled
<1>3. PICK u : Assign(p, u) /\ u.at = l /\ Alike(t, u)
  BY DEF Labelled
<1>4. u.hooks = t.hooks /\ u.unrestored = t.unrestored /\ u.ws = t.ws /\ u.read = t.read
      /\ u.plan = t.plan /\ u.next = t.next
  BY <1>3, AlikeIs
<1>5. Formed(u)
  BY <1>2, <1>3, AlikeForms
<1>6. files' = files /\ raced' = raced /\ added' = added /\ disturbed' = disturbed /\ (overlapped => overlapped')
  BY Zenon DEF Apart
<1>7. SetupTypes'
  <2>1. FilesInv'
    BY <1>1, <1>6 DEF SetupTypes, FilesInv
  <2>2. QED BY <1>1, <1>3, <1>5, <2>1, OneMoves
<1>8. WorkspacesInv'
  <2>1. Stands(u, u.at)'
    BY <1>3, <1>4 DEF Stands
  <2>2. Len(u.plan) = 3 => BoundIsReady(u.plan[3].original)'
    <3>1. SUFFICES ASSUME Len(t.plan) = 3 PROVE BoundIsReady(t.plan[3].original)'
      BY <1>4
    <3>2. PICK d : d = t.plan[3].original
      OBVIOUS
    <3>3. d \in HookContents \cup Bindings /\ BoundIsReady(d)
      BY <1>1, <1>2, <3>1, <3>2, PlannedBinding DEF WorkspacesInv
    <3>4. QED BY <3>2, <3>3, ReadyOn
  <2>3. overlapped' \/ cold' = cold \/ post[p].at = "cold"
    BY Zenon DEF ColdMoves, On
  <2>4. ~overlapped' => \A w \in Workspaces : cold'[w] <= 1
    BY Zenon, <1>1, <1>6, ColdOnce
  <2>5. BoundIsReady(files["binding"])'
    BY <1>1, <1>6, BoundOn
  <2>6. ~overlapped' => \A q \in Setups \ {p} : ~Busy(q)
    BY Zenon, <1>1, <1>6, OneIsBusy
  <2>7. QED BY Zenon, <1>1, <1>3, <1>5, <1>6, <2>1, <2>2, <2>3, <2>4, <2>5, <2>6, WorkspacesStep
<1>9. SeesInv'
  <2>1. Sees(p, u)'
    <3>1. SUFFICES ASSUME NEW i \in 1 .. Len(t.plan), <<p, Order[i]>> \notin disturbed
          PROVE /\ l \in Prepared => files[Order[i]] = t.plan[i].original
                /\ l = "replace" =>
                     files[Order[i]] = IF i < t.next THEN t.plan[i].content ELSE t.plan[i].original
                /\ l = "done" => files[Order[i]] = t.plan[i].content
                /\ l \in {"rollback", "failed"} /\ ~t.unrestored /\ t.next < i =>
                     files[Order[i]] = t.plan[i].original
      BY <1>3, <1>4, <1>6 DEF Sees
    <3>2. t.at \in Prepared => files[Order[i]] = t.plan[i].original
      BY Zenon, <1>1, <1>2, <3>1 DEF SeesInv, Sees
    <3>3. Len(t.plan) # 0 /\ l \notin Creating
      BY <1>2, <3>1 DEF Fits, WellShaped
    <3>4. (l \in Prepared /\ t.at \in Prepared) \/ (l = "replace" /\ t.at = "stage")
      BY <3>3 DEF Leads
    <3>5. "stage" \in Prepared /\ Prepared \cap {"replace", "done", "rollback", "failed"} = {}
      BY DEF Prepared, Planning, Starting
    <3>6. CASE l \in Prepared /\ t.at \in Prepared
      BY <3>2, <3>5, <3>6
    <3>7. CASE l = "replace" /\ t.at = "stage"
      <4>1. ~(i < t.next)
        <5>1. t.next = 1
          BY <1>2, <3>5, <3>7 DEF Fits
        <5>2. QED BY <5>1
      <4>2. QED BY <4>1, <3>2, <3>5, <3>7
    <3>8. QED BY <3>4, <3>6, <3>7
  <2>2. QED BY <1>1, <1>3, <1>6, <2>1, SeesStep
<1>10. CountsInv'
  <2>1. UserHooksKept'
    BY <1>1, <1>6 DEF CountsInv, UserHooksKept
  <2>2. Counts(u)
    BY <1>1, <1>2, <1>4 DEF Counts, CountsInv
  <2>3. QED BY Zenon, <1>1, <1>3, <1>6, <2>1, <2>2, CountsStep
<1>11. LoneInv'
  <2>1. ~overlapped' /\ files'["binding"].kind = "binding" => \A f \in Hooked : IsManaged(files'[f])
    BY Zenon, <1>1, <1>6 DEF LoneInv
  <2>2. ~overlapped' => \A q \in Setups \ {p} : ~Busy(q)
    BY Zenon, <1>1, <1>6, OneIsBusy
  <2>3. ASSUME ~overlapped', u.at \in SetupLabels \ Over PROVE Lone(u)'
    <3>1. Lone(t)
      BY Zenon, <1>1, <1>6, <2>3 DEF LoneInv
    <3>2. u.at = "replace" => t.next = 1
      BY <1>2, <1>3 DEF Leads, Fits, Prepared, Creating, Planning, Starting
    <3>3. SUFFICES ASSUME NEW i \in 1 .. Len(t.plan), i # 3
          PROVE /\ IsManaged(t.plan[i].original) => IsManaged(files[Order[i]])
                /\ files["binding"].kind = "binding" => IsManaged(t.plan[i].original)
                /\ Len(t.plan) = 3 /\ t.plan[3].original.kind = "binding" => IsManaged(t.plan[i].original)
                /\ u.at = "replace" /\ i < t.next => IsManaged(files[Order[i]])
      BY <1>4, <1>6 DEF Lone
    <3>4. ~(u.at = "replace" /\ i < t.next)
      BY <3>2
    <3>5. QED BY Zenon, <3>1, <3>3, <3>4 DEF Lone
  <2>4. QED BY Zenon, <1>1, <1>3, <1>5, <1>6, <2>1, <2>2, <2>3, LoneStep
<1>12. QED BY Zenon, <1>7, <1>8, <1>9, <1>10, <1>11 DEF SetupInv

LEMMA PassesKeeps ==
  ASSUME SetupInv, NEW p \in Setups, Passes(p), Busy(p), WorkspaceTypes', Gains, ColdMoves(p)
  PROVE SetupInv'
<1>1. Apart /\ Around(p)
  BY ApartIsAround DEF Passes
<1>2. CASE Assign(p, [at |-> "refused"])
  BY <1>1, <1>2, QuitKeeps
<1>3. ASSUME NEW t, NEW l, t = post[p], Labelled(p, l), Leads(t, l), Stands(t, l)' PROVE SetupInv'
  BY <1>1, <1>3, LabelKeeps
<1>4. QED BY <1>2, <1>3 DEF Passes

LEMMA CreatingKeeps ==
  ASSUME SetupInv, NEW p \in Setups,
         CheckConfig(p) \/ CreateConfig(p) \/ FillConfig(p) \/ CheckRegistry(p) \/ CreateRegistry(p)
           \/ FillRegistry(p)
  PROVE SetupInv'
<1>1. Passes(p) /\ WorkspaceTypes' /\ Gains
  BY CreatingPasses DEF SetupInv
<1>2. Busy(p) /\ cold' = cold
  BY DEF CheckConfig, CreateConfig, FillConfig, CheckRegistry, CreateRegistry, FillRegistry, On, Busy, workspaces
<1>3. QED BY <1>1, <1>2, PassesKeeps DEF ColdMoves

LEMMA PreparingKeeps ==
  ASSUME SetupInv, NEW p \in Setups,
         OpenNew(p) \/ ApplySkill(p) \/ OpenService(p) \/ Verify(p) \/ Repair(p) \/ VerifyAgain(p) \/ Stage(p)
  PROVE SetupInv'
<1>1. Passes(p) /\ WorkspaceTypes' /\ Gains
  BY PreparingPasses DEF SetupInv
<1>2. Busy(p) /\ cold' = cold
  BY DEF OpenNew, ApplySkill, OpenService, Verify, Repair, VerifyAgain, Stage, On, Busy, workspaces
<1>3. QED BY <1>1, <1>2, PassesKeeps DEF ColdMoves

LEMMA AttemptKeeps ==
  ASSUME SetupInv, NEW p \in Setups, NEW required \in Nat, ColdStart(p, required) \/ Context(p, required)
  PROVE SetupInv'
<1>1. Passes(p) /\ WorkspaceTypes' /\ Gains
  BY AttemptPasses DEF SetupInv
<1>2. Busy(p)
  BY DEF ColdStart, Context, On, Busy
<1>3. ColdMoves(p)
  <2>1. CASE Context(p, required)
    BY <2>1 DEF Context, workspaces, ColdMoves
  <2>2. CASE ColdStart(p, required)
    <3>1. On(p, "cold") /\ cold' = [cold EXCEPT ![post[p].ws] = IF required = 0 THEN cold[post[p].ws] + 1 ELSE cold[post[p].ws]]
      BY <2>2 DEF ColdStart
    <3>2. CASE required = 0
      BY <3>1, <3>2 DEF ColdMoves
    <3>3. CASE required # 0
      <4>1. cold \in [Workspaces -> Nat]
        BY DEF SetupInv, SetupTypes
      <4>2. cold' = cold
        BY <3>1, <3>3, <4>1
      <4>3. QED BY <4>2 DEF ColdMoves
    <3>4. QED BY <3>2, <3>3
  <2>3. QED BY <2>1, <2>2
<1>4. QED BY <1>1, <1>2, <1>3, PassesKeeps

LEMMA OpenedKeeps ==
  ASSUME SetupInv, NEW p \in Setups, NEW u, Assign(p, u), Opened(p, u), Around(p),
         config' = config, registry' = registry, cold' = cold,
         ~overlapped' => \A q \in Setups \ {p} : ~Busy(q)
  PROVE SetupInv'
<1>1. SetupTypes /\ WorkspacesInv /\ SeesInv /\ CountsInv /\ LoneInv
  BY DEF SetupInv
<1>2. WorkspaceTypes' /\ Gains
  BY <1>1, WorkspacesStay
<1>3. files' = files /\ raced' = raced /\ added' = added /\ (overlapped => overlapped')
  BY Zenon DEF Around
<1>4. WellShaped(u) /\ Fits(u, u.at) /\ Len(u.plan) = 0 /\ Formed(u)
  BY DEF Opened, Formed
<1>5. SetupTypes'
  <2>1. FilesInv'
    BY <1>1, <1>3 DEF SetupTypes, FilesInv
  <2>2. QED BY <1>1, <1>2, <1>4, <2>1, OneMoves
<1>6. WorkspacesInv'
  <2>1. Stands(u, u.at)'
    <3>1. Opens(u.ws)' = Opens(u.ws)
      BY DEF Opens
    <3>2. PICK l : l = u.at
      OBVIOUS
    <3>3. l \notin Starting \cup Applying \cup Over /\ l # "cold"
      BY <3>2 DEF Opened, Looking, Creating, Starting, Applying, Over
    <3>4. l \in Planning => Opens(u.ws)
      BY <3>2 DEF Opened, Looking, Creating, Planning
    <3>5. Stands(u, l)'
      BY Zenon, <3>1, <3>3, <3>4 DEF Stands
    <3>6. QED BY <3>2, <3>5
  <2>2. Len(u.plan) # 3
    BY <1>4
  <2>3. ~overlapped' => \A w \in Workspaces : cold'[w] <= 1
    BY Zenon, <1>1, <1>3, ColdOnce DEF ColdMoves
  <2>4. BoundIsReady(files["binding"])'
    BY <1>1, <1>2, <1>3, BoundOn
  <2>5. QED BY Zenon, <1>1, <1>2, <1>3, <1>4, <2>1, <2>2, <2>3, <2>4, WorkspacesStep
<1>7. SeesInv'
  <2>1. Sees(p, u)'
    BY <1>4 DEF Sees
  <2>2. QED BY <1>1, <1>3, <2>1, SeesStep DEF Around
<1>8. CountsInv'
  <2>1. UserHooksKept'
    BY <1>1, <1>3 DEF CountsInv, UserHooksKept
  <2>2. Counts(u)
    <3>1. ASSUME NEW f \in DOMAIN u.read PROVE f \in raced \/ UserHooks(u.read[f]) = added[f]
      <4>1. f \in Hooked
        BY <1>4 DEF Fits, Hooked
      <4>2. CASE u.read[f] = files[f]
        BY <4>1, <4>2, <1>1 DEF CountsInv, UserHooksKept
      <4>3. CASE Working(p) /\ f \in DOMAIN post[p].read /\ u.read[f] = post[p].read[f]
        BY <4>3, <1>1 DEF CountsInv, Counts
      <4>4. QED BY <4>2, <4>3 DEF Opened
    <3>2. QED BY <3>1, <1>4 DEF Counts
  <2>3. QED BY Zenon, <1>1, <1>3, <2>1, <2>2, CountsStep
<1>9. LoneInv'
  <2>1. ~overlapped' /\ files'["binding"].kind = "binding" => \A f \in Hooked : IsManaged(files'[f])
    BY Zenon, <1>1, <1>3 DEF LoneInv
  <2>2. Lone(u)'
    BY <1>4 DEF Lone
  <2>3. QED BY Zenon, <1>1, <1>3, <1>4, <2>1, <2>2, LoneStep
<1>10. QED BY Zenon, <1>5, <1>6, <1>7, <1>8, <1>9 DEF SetupInv

LEMMA BeginKeeps ==
  ASSUME SetupInv, NEW p \in Setups, NEW hooks \in BOOLEAN, NEW explicit \in Workspaces \cup {"none"},
         Begin(p, hooks, explicit)
  PROVE SetupInv'
<1>1. config' = config /\ registry' = registry /\ cold' = cold
  BY DEF Begin, workspaces
<1>2. Around(p)
  <2>1. files' = files /\ raced' = raced /\ added' = added
    BY DEF Begin
  <2>2. overlapped => overlapped'
    BY Zenon DEF Begin
  <2>3. \A q \in Setups \ {p}, f \in Files : <<q, f>> \in disturbed => <<q, f>> \in disturbed'
    BY DEF Begin
  <2>4. QED BY Zenon, <2>1, <2>2, <2>3 DEF Around
<1>3. ~overlapped' => \A q \in Setups \ {p} : ~Busy(q)
  BY Zenon DEF Begin
<1>4. PICK u : Assign(p, u) /\ (u = [at |-> "refused"] \/ Opened(p, u))
  BY BeginOpens DEF SetupInv
<1>5. CASE u = [at |-> "refused"]
  <2>1. WorkspaceTypes' /\ Gains
    BY <1>1, WorkspacesStay DEF SetupInv
  <2>2. QED BY <1>1, <1>2, <1>4, <1>5, <2>1, QuitKeeps DEF ColdMoves
<1>6. CASE Opened(p, u)
  BY <1>1, <1>2, <1>3, <1>4, <1>6, OpenedKeeps
<1>7. QED BY <1>4, <1>5, <1>6

LEMMA OpeningKeeps ==
  ASSUME SetupInv, NEW p \in Setups, ReadClaude(p) \/ ReadCodex(p) \/ Resolve(p)
  PROVE SetupInv'
<1>1. config' = config /\ registry' = registry /\ cold' = cold /\ Apart /\ Busy(p)
  BY DEF ReadClaude, ReadCodex, Resolve, workspaces, history, Apart, On, Busy
<1>2. Around(p) /\ (overlapped => overlapped')
  BY Zenon, <1>1, ApartIsAround DEF Apart
<1>3. ~overlapped' => \A q \in Setups \ {p} : ~Busy(q)
  BY Zenon, <1>1, <1>2, OneIsBusy DEF SetupInv
<1>4. PICK u : Assign(p, u) /\ (u = [at |-> "refused"] \/ Opened(p, u))
  BY ReadOpens, ResolveOpens DEF SetupInv
<1>5. CASE u = [at |-> "refused"]
  <2>1. WorkspaceTypes' /\ Gains
    BY <1>1, WorkspacesStay DEF SetupInv
  <2>2. QED BY <1>1, <1>2, <1>4, <1>5, <2>1, QuitKeeps DEF ColdMoves
<1>6. CASE Opened(p, u)
  BY <1>1, <1>2, <1>3, <1>4, <1>6, OpenedKeeps
<1>7. QED BY <1>4, <1>5, <1>6

\* A setup returns, or dies.
LEMMA EndingKeeps ==
  ASSUME SetupInv, NEW p \in Setups, Answer(p) \/ Death(p)
  PROVE SetupInv'
<1>1. config' = config /\ registry' = registry /\ cold' = cold /\ Apart /\ Assign(p, Free)
  BY DEF Answer, Death, workspaces, history, Apart
<1>2. Around(p) /\ WorkspaceTypes' /\ Gains
  BY <1>1, ApartIsAround, WorkspacesStay DEF SetupInv
<1>3. QED BY <1>1, <1>2, QuitKeeps DEF ColdMoves

-----------------------------------------------------------------------------
(* The plan.                                                               *)

LEMMA PlanKeeps ==
  ASSUME SetupInv, NEW p \in Setups, PlanFile(p)
  PROVE SetupInv'
<1>1. SetupTypes /\ WorkspacesInv /\ SeesInv /\ CountsInv /\ LoneInv
  BY DEF SetupInv
<1>2. PICK t, n, f, item, l, u :
        /\ t = post[p] /\ n = Len(t.plan) + 1 /\ f = Order[n]
        /\ item = [original |-> files[f], content |-> NewContent(p, f)]
        /\ l = (IF n = 3 THEN "skill" ELSE "plan")
        /\ u = [t EXCEPT !.plan = Append(t.plan, item), !.at = l]
  OBVIOUS
<1>3. t.at = "plan" /\ Working(p) /\ Busy(p)
  BY <1>2 DEF PlanFile, On, Working, Busy, SetupLabels, Planning
<1>4. WellShaped(t) /\ Fits(t, "plan")
  BY <1>1, <1>2, <1>3, WorkingIs
<1>5. t.hooks /\ DOMAIN t.read = Hooked /\ Len(t.plan) \in 0 .. 2 /\ t.next = 1 /\ t.ws \in Workspaces
  <2>1. "plan" \in Prepared /\ "plan" \notin Looking
    BY DEF Prepared, Planning, Looking
  <2>2. Len(t.plan) \in Nat /\ Len(t.plan) < 3
    BY <1>4 DEF WellShaped, Fits
  <2>3. t.hooks
    BY <1>4 DEF Fits
  <2>4. DOMAIN t.read = Hooked /\ t.next = 1
    BY <2>1, <2>3, <1>4 DEF Fits
  <2>5. t.ws \in Workspaces
    BY <2>1, <1>4 DEF Fits, WellShaped
  <2>6. Len(t.plan) \in 0 .. 2
    <3>1. \A m \in Nat : m < 3 => m \in 0 .. 2
      OBVIOUS
    <3>2. QED BY Zenon, <2>2, <3>1
  <2>7. QED BY <2>3, <2>4, <2>5, <2>6
<1>6. n \in 1 .. 3 /\ Len(t.plan) = n - 1 /\ f \in Files
  <2>1. PICK m : m = Len(t.plan) /\ m \in 0 .. 2
    BY <1>5
  <2>2. n = m + 1
    BY <1>2, <2>1
  <2>3. n \in 1 .. 3 /\ m = n - 1
    <3>1. \A k \in 0 .. 2 : k + 1 \in 1 .. 3 /\ k = (k + 1) - 1
      OBVIOUS
    <3>2. QED BY Zenon, <2>1, <2>2, <3>1
  <2>4. f \in Files
    BY <2>3, <1>2, OrderIs DEF Files, Hooked
  <2>5. QED BY <2>1, <2>3, <2>4
<1>7. Assign(p, u)
  <2>1. Append(post[p].plan, item) = Append(t.plan, item) /\ Len(Append(t.plan, item)) = n
    BY <1>2, <1>4, <1>5 DEF WellShaped
  <2>2. PICK plan : plan = Append(t.plan, item) /\ Len(plan) = n
    BY <2>1
  <2>3. u = [post[p] EXCEPT !.plan = plan, !.at = IF Len(plan) = Len(Order) THEN "skill" ELSE "plan"]
    BY <1>2, <2>2, OrderIs
  <2>4. plan = Append(post[p].plan, [original |-> files[Order[Len(post[p].plan) + 1]],
                                     content |-> NewContent(p, Order[Len(post[p].plan) + 1])])
    BY <1>2, <2>2
  <2>5. QED BY <2>3, <2>4 DEF PlanFile
<1>8. /\ config' = config /\ registry' = registry /\ cold' = cold /\ Apart /\ files' = files /\ raced' = raced
      /\ added' = added /\ disturbed' = disturbed
  BY DEF PlanFile, workspaces, history, Apart
<1>9. overlapped' = overlapped
  BY <1>8 DEF Apart
<1>10. /\ DOMAIN u = SetupFields /\ u.at = l /\ u.plan = Append(t.plan, item)
       /\ \A d \in SetupFields \ {"at", "plan"} : u[d] = t[d]
  BY <1>2, <1>4 DEF WellShaped, SetupFields
<1>11. /\ u.hooks = t.hooks /\ u.explicit = t.explicit /\ u.ws = t.ws /\ u.unrestored = t.unrestored
       /\ u.read = t.read /\ u.next = t.next
  BY <1>10 DEF SetupFields
<1>12. /\ Len(u.plan) = n /\ u.plan[n] = item /\ \A i \in 1 .. n : i # n => u.plan[i] = t.plan[i] /\ i \in 1 .. Len(t.plan)
  BY <1>4, <1>6, <1>10 DEF WellShaped
<1>13. /\ item.original = files[f]
       /\ n = 1 => item.original \in HookContents /\ item.content = ClaudeSettings(t.read.claude)
       /\ n = 2 => item.original \in HookContents /\ item.content = CodexHooks(t.read.codex)
       /\ n = 3 => item.original \in Bindings /\ item.content = Binding(t.ws)
  BY <1>1, <1>2, OrderIs DEF NewContent, SetupTypes, FilesInv, Hooked
<1>14. item \in PlanItems
  <2>1. t.read["claude"] \in {NoFile} \cup HooksFiles /\ t.read["codex"] \in {NoFile} \cup HooksFiles
    BY <1>4, <1>5 DEF WellShaped, Hooked
  <2>2. ClaudeSettings(t.read["claude"]) \in HooksFiles /\ CodexHooks(t.read["codex"]) \in HooksFiles
    BY <2>1, SettingsAreHooks
  <2>3. Binding(t.ws) \in Bindings
    BY <1>5 DEF Bindings
  <2>4. item.original \in HookContents \cup Bindings /\ item.content \in HooksFiles \cup Bindings
    BY <1>6, <1>13, <2>2, <2>3
  <2>5. item = [original |-> item.original, content |-> item.content]
    BY <1>2
  <2>6. QED BY <2>4, <2>5 DEF PlanItems
<1>15. WellShaped(u)
  <2>1. u.plan \in Seq(PlanItems)
    BY <1>4, <1>10, <1>14 DEF WellShaped
  <2>2. \A i \in 1 .. Len(u.plan) : PlannedOf(u, i)
    <3>1. SUFFICES ASSUME NEW i \in 1 .. n PROVE PlannedOf(u, i)
      BY <1>12
    <3>2. CASE i = n
      BY <3>2, <1>11, <1>12, <1>13 DEF PlannedOf
    <3>3. CASE i # n
      BY <3>3, <1>4, <1>11, <1>12 DEF PlannedOf, WellShaped
    <3>4. QED BY <3>2, <3>3
  <2>3. u.at \in SetupLabels
    BY <1>2, <1>10 DEF SetupLabels, Planning
  <2>4. QED BY <2>1, <2>2, <2>3, <1>4, <1>10, <1>11 DEF WellShaped
<1>16. l \in {"plan", "skill"} /\ (l = "plan" <=> n # 3)
  BY <1>2
<1>17. Fits(u, u.at)
  <2>1. l \notin Looking \cup Creating \cup Applying /\ l \notin {"claude", "codex", "failed"}
    BY <1>16 DEF Looking, Creating, Applying
  <2>2. t.ws # "none"
    BY <1>5 DEF Workspaces
  <2>3. QED BY <2>1, <2>2, <1>5, <1>6, <1>10, <1>11, <1>12, <1>16 DEF Fits
<1>18. Formed(u)
  BY <1>15, <1>17 DEF Formed
<1>19. WorkspaceTypes' /\ Gains
  BY <1>1, <1>8, WorkspacesStay
<1>20. SetupTypes'
  <2>1. FilesInv'
    BY <1>1, <1>8 DEF SetupTypes, FilesInv
  <2>2. QED BY <1>1, <1>7, <1>18, <1>19, <2>1, OneMoves
<1>21. ~overlapped' => \A q \in Setups \ {p} : ~Busy(q)
  BY Zenon, <1>1, <1>3, <1>9, OneIsBusy
<1>22. WorkspacesInv'
  <2>1. Stands(u, u.at)'
    <3>1. Opens(t.ws)
      <4>1. Stands(t, "plan") /\ "plan" \in Planning
        BY <1>1, <1>2, <1>3 DEF WorkspacesInv, Planning
      <4>2. QED BY Zenon, <4>1 DEF Stands
    <3>2. Opens(u.ws)'
      BY <3>1, <1>8, <1>11 DEF Opens
    <3>3. l \notin Starting \cup Applying \cup Over /\ l # "cold"
      BY <1>16 DEF Starting, Applying, Over
    <3>4. Stands(u, l)'
      BY Zenon, <3>2, <3>3 DEF Stands
    <3>5. QED BY <3>4, <1>10
  <2>2. Len(u.plan) = 3 => BoundIsReady(u.plan[3].original)'
    <3>1. SUFFICES ASSUME n = 3 PROVE BoundIsReady(u.plan[3].original)'
      BY <1>12
    <3>2. u.plan[3].original = files["binding"]
      BY <3>1, <1>2, <1>12, <1>13, OrderIs
    <3>3. BoundIsReady(files["binding"])'
      BY <1>1, <1>8, <1>19, BoundOn
    <3>4. PICK d : d = files["binding"]
      OBVIOUS
    <3>5. BoundIsReady(d)'
      BY <3>3, <3>4, <1>8
    <3>6. QED BY <3>2, <3>4, <3>5
  <2>3. ~overlapped' => \A w \in Workspaces : cold'[w] <= 1
    BY Zenon, <1>1, <1>8, <1>9, ColdOnce DEF ColdMoves
  <2>4. BoundIsReady(files["binding"])'
    BY <1>1, <1>8, <1>19, BoundOn
  <2>5. QED BY Zenon, <1>1, <1>7, <1>8, <1>9, <1>18, <1>19, <1>21, <2>1, <2>2, <2>3, <2>4, WorkspacesStep
<1>23. SeesInv'
  <2>1. Sees(p, u)'
    <3>1. SUFFICES ASSUME NEW i \in 1 .. n, <<p, Order[i]>> \notin disturbed
          PROVE files[Order[i]] = u.plan[i].original /\ u.at \in Prepared
                /\ u.at \notin {"replace", "done", "rollback", "failed"}
      BY Zenon, <1>8, <1>12 DEF Sees
    <3>2. u.at \in Prepared /\ u.at \notin {"replace", "done", "rollback", "failed"}
      BY <1>10, <1>16 DEF Prepared, Planning
    <3>3. CASE i = n
      BY <3>3, <1>2, <1>12, <1>13, <3>2
    <3>4. CASE i # n
      <4>1. t.at \in Prepared /\ i \in 1 .. Len(t.plan) /\ u.plan[i] = t.plan[i]
        BY <3>4, <1>3, <1>12 DEF Prepared, Planning
      <4>2. files[Order[i]] = t.plan[i].original
        BY Zenon, <4>1, <3>1, <1>1, <1>2, <1>3 DEF SeesInv, Sees
      <4>3. QED BY <4>1, <4>2, <3>2
    <3>5. QED BY <3>3, <3>4
  <2>2. QED BY <1>1, <1>7, <1>8, <2>1, SeesStep
<1>24. CountsInv'
  <2>1. UserHooksKept'
    BY <1>1, <1>8 DEF CountsInv, UserHooksKept
  <2>2. Counts(t)
    BY <1>1, <1>2, <1>3 DEF CountsInv
  <2>3. ASSUME NEW i \in 1 .. n, i # 3
        PROVE Order[i] \in raced \/ UserHooks(u.plan[i].original) = added[Order[i]]
    <3>1. CASE i = n
      <4>1. u.plan[i].original = files[f] /\ Order[i] = f /\ f \in Hooked
        BY <3>1, <1>2, <1>6, <1>12, <1>13, <2>3, OrderIs DEF Hooked
      <4>2. QED BY <4>1, <1>1 DEF CountsInv, UserHooksKept
    <3>2. CASE i # n
      BY <3>2, <2>2, <2>3, <1>12 DEF Counts
    <3>3. QED BY <3>1, <3>2
  <2>4. Counts(u)
    BY <2>2, <2>3, <1>11, <1>12 DEF Counts
  <2>5. QED BY Zenon, <1>1, <1>7, <1>8, <2>1, <2>4, CountsStep
<1>25. LoneInv'
  <2>1. ~overlapped' /\ files'["binding"].kind = "binding" => \A f_ \in Hooked : IsManaged(files'[f_])
    BY Zenon, <1>1, <1>8, <1>9 DEF LoneInv
  <2>2. ASSUME ~overlapped' PROVE Lone(u)'
    <3>1. Lone(t) /\ (files["binding"].kind = "binding" => \A f_ \in Hooked : IsManaged(files[f_]))
      BY Zenon, <1>1, <1>2, <1>3, <1>9, <2>2 DEF LoneInv
    <3>2. SUFFICES ASSUME NEW i \in 1 .. n, i # 3
          PROVE /\ IsManaged(u.plan[i].original) => IsManaged(files[Order[i]])
                /\ files["binding"].kind = "binding" => IsManaged(u.plan[i].original)
                /\ n = 3 /\ u.plan[3].original.kind = "binding" => IsManaged(u.plan[i].original)
                /\ u.at # "replace"
      BY <1>8, <1>12 DEF Lone
    <3>3. u.at # "replace"
      BY <1>10, <1>16
    <3>4. /\ IsManaged(u.plan[i].original) => IsManaged(files[Order[i]])
          /\ files["binding"].kind = "binding" => IsManaged(u.plan[i].original)
      <4>1. CASE i = n
        <5>1. u.plan[i].original = files[f] /\ Order[i] = f /\ f \in Hooked
          BY <4>1, <1>2, <1>6, <1>12, <1>13, <3>2, OrderIs DEF Hooked
        <5>2. QED BY <5>1, <3>1
      <4>2. CASE i # n
        <5>1. i \in 1 .. Len(t.plan) /\ u.plan[i] = t.plan[i]
          BY <4>2, <1>12
        <5>2. QED BY Zenon, <5>1, <3>1, <3>2 DEF Lone
      <4>3. QED BY <4>1, <4>2
    <3>5. n = 3 => u.plan[3].original = files["binding"]
      BY <1>2, <1>12, <1>13, OrderIs
    <3>6. QED BY <3>3, <3>4, <3>5
  <2>3. QED BY Zenon, <1>1, <1>7, <1>8, <1>9, <1>18, <1>21, <2>1, <2>2, LoneStep
<1>26. QED BY Zenon, <1>20, <1>22, <1>23, <1>24, <1>25 DEF SetupInv

-----------------------------------------------------------------------------
(* Installing and rolling back.                                            *)

LEMMA ApplyingIs ==
  ASSUME SetupInv, NEW p \in Setups, NEW t, t = post[p], t.at \in Applying
  PROVE /\ WellShaped(t) /\ Fits(t, t.at) /\ Working(p) /\ Busy(p)
        /\ t.hooks /\ DOMAIN t.read = Hooked /\ Len(t.plan) = 3
        /\ t.ws \in Workspaces /\ Opens(t.ws) /\ registry[t.ws] = Whole /\ cold[t.ws] >= 1
<1>1. t.at \notin {"idle", "refused", "failed", "done", "claude", "codex", "plan"} /\ t.at \notin Looking \cup Creating
  BY DEF Applying, Looking, Creating
<1>2. WellShaped(t) /\ Fits(t, t.at) /\ Working(p) /\ Busy(p)
  BY <1>1, WorkingIs DEF SetupInv, Busy
<1>3. t.hooks
  BY <1>2 DEF Fits
<1>4. DOMAIN t.read = Hooked
  BY <1>1, <1>2, <1>3 DEF Fits
<1>5. Len(t.plan) = 3
  BY <1>1, <1>2, <1>3 DEF Fits
<1>6. t.ws \in Workspaces
  BY <1>1, <1>2, HasWorkspace
<1>7. Stands(t, t.at)
  BY <1>2 DEF SetupInv, WorkspacesInv
<1>8. Opens(t.ws) /\ registry[t.ws] = Whole /\ cold[t.ws] >= 1
  BY Zenon, <1>7, StandsTells
<1>9. QED BY <1>2, <1>3, <1>4, <1>5, <1>6, <1>8

\* What a setup has read for a file, and what it plans.
LEMMA PlannedIs ==
  ASSUME NEW t, WellShaped(t), DOMAIN t.read = Hooked, Len(t.plan) = 3, NEW i \in {1, 2}
  PROVE /\ Order[i] \in Hooked /\ t.read[Order[i]] \in {NoFile} \cup HooksFiles
        /\ t.plan[i].original \in HookContents /\ t.plan[i].content \in HooksFiles
        /\ IsManaged(t.plan[i].content) /\ UserHooks(t.plan[i].content) = UserHooks(t.read[Order[i]])
<1>1. PlannedOf(t, 1) /\ PlannedOf(t, 2)
  BY DEF WellShaped
<1>2. t.read["claude"] \in {NoFile} \cup HooksFiles /\ t.read["codex"] \in {NoFile} \cup HooksFiles
  BY DEF WellShaped, Hooked
<1>3. /\ t.plan[1].original \in HookContents /\ t.plan[1].content = ClaudeSettings(t.read["claude"])
      /\ t.plan[2].original \in HookContents /\ t.plan[2].content = CodexHooks(t.read["codex"])
  BY <1>1 DEF PlannedOf
<1>4. CASE i = 1
  BY <1>2, <1>3, <1>4, OrderIs, SettingsAreHooks, SettingsKeep DEF Hooked
<1>5. CASE i = 2
  BY <1>2, <1>3, <1>5, OrderIs, SettingsAreHooks, SettingsKeep DEF Hooked
<1>6. QED BY <1>4, <1>5

\* What the installation changes in the record of a setup.
Applied(t, u) ==
  /\ DOMAIN u = SetupFields
  /\ \A d \in SetupFields \ {"at", "next", "unrestored"} : u[d] = t[d]
  /\ u.at \in {"replace", "rollback", "failed", "done"} /\ u.next \in Nat
  /\ u.at \in {"replace", "rollback"} => u.next \in 1 .. 3
  /\ u.at = "failed" => u.next = 0

LEMMA AppliedForms ==
  ASSUME NEW t, WellShaped(t), t.hooks, DOMAIN t.read = Hooked, Len(t.plan) = 3, t.ws \in Workspaces,
         NEW u, Applied(t, u), u.unrestored \in BOOLEAN
  PROVE /\ Formed(u) /\ u.ws = t.ws /\ u.read = t.read /\ u.plan = t.plan
        /\ u.at \in Applying \cup Over
<1>1. u.hooks = t.hooks /\ u.explicit = t.explicit /\ u.ws = t.ws /\ u.read = t.read /\ u.plan = t.plan
  BY DEF Applied, SetupFields
<1>2. DOMAIN u = SetupFields /\ u.at \in SetupLabels /\ u.next \in Nat /\ u.at \in Applying \cup Over
  BY DEF Applied, SetupLabels, Applying, Over
<1>3. WellShaped(u)
  <2>1. \A i \in 1 .. Len(u.plan) : PlannedOf(u, i)
    BY <1>1 DEF WellShaped, PlannedOf
  <2>2. u.unrestored \in BOOLEAN /\ u.hooks \in BOOLEAN
    BY Zenon, <1>1 DEF WellShaped
  <2>3. QED BY <1>1, <1>2, <2>1, <2>2 DEF WellShaped
<1>4. u.at \notin Looking \cup Creating \cup Prepared \cup {"plan", "claude", "codex"}
  BY DEF Applied, Looking, Creating, Prepared, Planning, Starting
<1>5. t.ws # "none"
  BY DEF Workspaces
<1>6. Fits(u, u.at)
  BY <1>1, <1>4, <1>5 DEF Fits, Applied
<1>7. QED BY <1>1, <1>2, <1>3, <1>6 DEF Formed

LEMMA ApplyKeeps ==
  ASSUME SetupInv, NEW p \in Setups, NEW t, t = post[p], t.at \in Applying, NEW u, Assign(p, u), Formed(u),
         u.ws = t.ws, u.plan = t.plan, u.read = t.read, u.at \in Applying \cup Over,
         config' = config, registry' = registry, cold' = cold,
         raced' = raced, added' = added, overlapped' = overlapped,
         \A q \in Setups \ {p}, f \in Files : <<q, f>> \in disturbed => <<q, f>> \in disturbed',
         \A f \in Files : files'[f] # files[f] => \A q \in Setups \ {p} : Holds(q, f) => <<q, f>> \in disturbed',
         FilesInv', BoundIsReady(files["binding"])', UserHooksKept', Sees(p, u)',
         ~overlapped /\ u.at \in Applying => Lone(u)',
         ~overlapped /\ files'["binding"].kind = "binding" => \A f \in Hooked : IsManaged(files'[f])
  PROVE SetupInv'
<1>1. SetupTypes /\ WorkspacesInv /\ SeesInv /\ CountsInv /\ LoneInv
  BY DEF SetupInv
<1>2. /\ WellShaped(t) /\ Working(p) /\ Busy(p) /\ Len(t.plan) = 3
      /\ Opens(t.ws) /\ registry[t.ws] = Whole /\ cold[t.ws] >= 1
  BY ApplyingIs
<1>3. WorkspaceTypes' /\ Gains
  BY <1>1, WorkspacesStay
<1>4. SetupTypes'
  BY <1>1, <1>3, OneMoves
<1>5. ~overlapped' => \A q \in Setups \ {p} : ~Busy(q)
  BY Zenon, <1>1, <1>2, OneIsBusy
<1>6. WorkspacesInv'
  <2>1. Stands(u, u.at)'
    <3>1. PICK l : l = u.at
      OBVIOUS
    <3>2. l # "cold"
      BY <3>1 DEF Applying, Over
    <3>3. Opens(u.ws)' /\ registry'[u.ws] = Whole /\ cold'[u.ws] >= 1
      BY <1>2 DEF Opens
    <3>4. Stands(u, l)'
      BY Zenon, <3>2, <3>3, StandsThere
    <3>5. QED BY <3>1, <3>4
  <2>2. BoundIsReady(u.plan[3].original)'
    <3>1. PICK d : d = t.plan[3].original
      OBVIOUS
    <3>2. d \in HookContents \cup Bindings /\ BoundIsReady(d)
      BY <1>1, <1>2, <3>1, PlannedBinding DEF WorkspacesInv
    <3>3. BoundIsReady(d)'
      BY <1>3, <3>2, ReadyOn
    <3>4. QED BY <3>1, <3>3
  <2>3. ~overlapped' => \A w \in Workspaces : cold'[w] <= 1
    BY Zenon, <1>1, ColdOnce DEF ColdMoves
  <2>4. QED BY Zenon, <1>1, <1>3, <1>5, <2>1, <2>2, <2>3, WorkspacesStep
<1>7. SeesInv'
  BY Zenon, <1>1, SeesStep
<1>8. CountsInv'
  <2>1. Counts(u)
    BY <1>1, <1>2 DEF CountsInv, Counts
  <2>2. QED BY Zenon, <1>1, <2>1, CountsStep
<1>9. LoneInv'
  <2>1. u.at \in SetupLabels \ Over => u.at \in Applying
    BY DEF Over
  <2>2. QED BY Zenon, <1>1, <1>2, <1>5, <2>1, LoneStep
<1>10. QED BY Zenon, <1>4, <1>6, <1>7, <1>8, <1>9 DEF SetupInv

\* On most the file f is written, and those who hold it are disturbed.
Rewrites(p, f) ==
  /\ files' = [g \in Files |-> files'[g]]
  /\ \A g \in Files \ {f} : files'[g] = files[g]
  /\ raced' = raced /\ added' = added /\ overlapped' = overlapped
  /\ \A q \in Setups, g \in Files : <<q, g>> \in disturbed => <<q, g>> \in disturbed'
  /\ \A g \in Files : files'[g] # files[g] => \A q \in Setups \ {p} : Holds(q, g) => <<q, g>> \in disturbed'

LEMMA SetFileRewrites ==
  ASSUME FilesInv, NEW p \in Setups, NEW f \in Files, NEW c, SetFile(p, f, c)
  PROVE Rewrites(p, f) /\ files'[f] = c
<1>1. files' = [files EXCEPT ![f] = c]
  BY DEF SetFile
<1>2. DOMAIN files = Files
  BY DEF FilesInv
<1>3. files' = [g \in Files |-> files'[g]] /\ files'[f] = c /\ \A g \in Files \ {f} : files'[g] = files[g]
  BY <1>1, <1>2
<1>4. raced' = raced /\ added' = added /\ overlapped' = overlapped
  BY DEF SetFile
<1>5. disturbed' = disturbed \cup {<<q, f>> : q \in {q \in Setups \ {p} : Holds(q, f)}}
  BY DEF SetFile, Disturb
<1>6. \A q \in Setups, g \in Files : <<q, g>> \in disturbed => <<q, g>> \in disturbed'
  BY <1>5
<1>7. ASSUME NEW g \in Files, files'[g] # files[g], NEW q \in Setups \ {p}, Holds(q, g) PROVE <<q, g>> \in disturbed'
  <2>1. g = f
    BY <1>3, <1>7
  <2>2. QED BY <1>5, <1>7, <2>1
<1>8. QED BY Zenon, <1>3, <1>4, <1>6, <1>7 DEF Rewrites

LEMMA NothingRewrites ==
  ASSUME FilesInv, NEW p \in Setups, NEW f \in Files, UNCHANGED <<files, history>>
  PROVE Rewrites(p, f) /\ files'[f] = files[f]
BY DEF FilesInv, Rewrites, history

\* A step of the installation or of the rollback.
LEMMA RewriteKeeps ==
  ASSUME SetupInv, NEW p \in Setups, NEW t, t = post[p], t.at \in Applying, NEW u, Assign(p, u), Formed(u),
         u.ws = t.ws, u.plan = t.plan, u.read = t.read, u.at \in Applying \cup Over,
         config' = config, registry' = registry, cold' = cold,
         NEW i \in 1 .. 3, Rewrites(p, Order[i]),
         files'[Order[i]] \in {files[Order[i]], t.plan[i].original, t.plan[i].content},
         Sees(p, u)',
         ~overlapped /\ u.at \in Applying => Lone(u)',
         ~overlapped /\ files'["binding"].kind = "binding" => \A f \in Hooked : IsManaged(files'[f])
  PROVE SetupInv'
<1>1. SetupTypes /\ FilesInv /\ WorkspacesInv /\ CountsInv
  BY DEF SetupInv, SetupTypes
<1>2. /\ WellShaped(t) /\ Working(p) /\ DOMAIN t.read = Hooked /\ Len(t.plan) = 3
      /\ t.ws \in Workspaces /\ Opens(t.ws) /\ registry[t.ws] = Whole
  BY ApplyingIs
<1>3. /\ files' = [g \in Files |-> files'[g]] /\ \A g \in Files \ {Order[i]} : files'[g] = files[g]
      /\ raced' = raced /\ added' = added
  BY Zenon DEF Rewrites
<1>4. t.plan[3].original \in Bindings /\ t.plan[3].content \in Bindings /\ t.plan[3].content = Binding(t.ws)
  BY <1>2, PlannedBinding DEF Bindings
<1>5. Order[i] \in Files /\ (i = 3 <=> Order[i] = "binding") /\ (i # 3 => i \in {1, 2} /\ Order[i] \in Hooked)
  BY OrderIs DEF Files, Hooked
<1>6. Hooked \subseteq Files /\ "binding" \in Files /\ "binding" \notin Hooked
  BY DEF Files, Hooked
<1>7. FilesInv'
  <2>1. ASSUME NEW f \in Hooked PROVE files'[f] \in HookContents
    <3>1. CASE f = Order[i]
      <4>1. t.plan[i].original \in HookContents /\ t.plan[i].content \in HookContents
        BY <3>1, <1>2, <1>5, <1>6, PlannedIs DEF HookContents
      <4>2. QED BY <3>1, <4>1, <1>1 DEF FilesInv
    <3>2. CASE f # Order[i]
      BY <3>2, <1>1, <1>3, <1>6 DEF FilesInv
    <3>3. QED BY <3>1, <3>2
  <2>2. files'["binding"] \in Bindings
    <3>1. CASE i = 3
      BY <3>1, <1>1, <1>4, <1>5 DEF FilesInv
    <3>2. CASE i # 3
      BY <3>2, <1>1, <1>3, <1>5, <1>6 DEF FilesInv
    <3>3. QED BY <3>1, <3>2
  <2>3. QED BY <1>3, <2>1, <2>2 DEF FilesInv
<1>8. BoundIsReady(files["binding"])'
  <2>1. WorkspaceTypes' /\ Gains
    BY <1>1, WorkspacesStay
  <2>2. PICK d : d = files'["binding"]
    OBVIOUS
  <2>3. d \in HookContents \cup Bindings
    BY <1>7, <2>2 DEF FilesInv
  <2>4. BoundIsReady(files["binding"]) /\ BoundIsReady(t.plan[3].original)
    BY <1>1, <1>2 DEF WorkspacesInv
  <2>5. BoundIsReady(t.plan[3].content)
    BY <1>2, <1>4 DEF BoundIsReady, Ready, Binding
  <2>6. d \in {files["binding"], t.plan[3].original, t.plan[3].content}
    <3>1. CASE i = 3
      BY <3>1, <1>5, <2>2
    <3>2. CASE i # 3
      BY <3>2, <1>3, <1>5, <1>6, <2>2
    <3>3. QED BY <3>1, <3>2
  <2>7. BoundIsReady(d)
    BY <2>4, <2>5, <2>6
  <2>8. BoundIsReady(d)'
    BY <2>1, <2>3, <2>7, ReadyOn
  <2>9. QED BY <2>2, <2>8
<1>9. UserHooksKept'
  <2>1. SUFFICES ASSUME NEW f \in Hooked, f \notin raced PROVE UserHooks(files'[f]) = added[f]
    BY <1>3 DEF UserHooksKept
  <2>2. UserHooks(files[f]) = added[f]
    BY <2>1, <1>1 DEF CountsInv, UserHooksKept
  <2>3. CASE f = Order[i]
    <3>1. i \in {1, 2} /\ i # 3
      BY <2>3, <1>5, <1>6
    <3>2. Counts(t)
      BY <1>1, <1>2 DEF CountsInv
    <3>3. UserHooks(t.plan[i].original) = added[f]
      BY <2>1, <2>3, <3>1, <3>2, <1>2 DEF Counts
    <3>4. UserHooks(t.read[f]) = added[f]
      BY <2>1, <3>2, <1>2 DEF Counts
    <3>5. UserHooks(t.plan[i].content) = added[f]
      BY <2>3, <3>1, <3>4, <1>2, PlannedIs
    <3>6. QED BY <2>2, <2>3, <3>3, <3>5
  <2>4. CASE f # Order[i]
    BY <2>2, <2>4, <1>3, <1>6
  <2>5. QED BY <2>3, <2>4
<1>10. /\ overlapped' = overlapped
       /\ \A q \in Setups \ {p}, f \in Files : <<q, f>> \in disturbed => <<q, f>> \in disturbed'
       /\ \A f \in Files : files'[f] # files[f] => \A q \in Setups \ {p} : Holds(q, f) => <<q, f>> \in disturbed'
  BY Zenon DEF Rewrites
<1>11. QED BY Zenon, <1>3, <1>7, <1>8, <1>9, <1>10, ApplyKeeps

\* The steps of the rollback that write nothing.
LEMMA StallKeeps ==
  ASSUME SetupInv, NEW p \in Setups, Fault(p) \/ RestoreFails(p)
  PROVE SetupInv'
<1>1. PICK t : t = post[p]
  OBVIOUS
<1>2. t.at \in Applying /\ t.at \in {"stage", "replace", "rollback"}
  BY <1>1 DEF Fault, RestoreFails, On, Applying
<1>3. /\ WellShaped(t) /\ Fits(t, t.at) /\ Working(p) /\ Busy(p)
      /\ t.hooks /\ DOMAIN t.read = Hooked /\ Len(t.plan) = 3 /\ t.ws \in Workspaces
  BY <1>1, <1>2, ApplyingIs
<1>4. config' = config /\ registry' = registry /\ cold' = cold /\ UNCHANGED <<files, history>>
  BY DEF Fault, RestoreFails, workspaces
<1>5. PICK b, l, n, u :
        /\ b \in BOOLEAN /\ l \in {"rollback", "failed"} /\ n \in 0 .. 4
        /\ u = [t EXCEPT !.at = l, !.next = n, !.unrestored = b] /\ Assign(p, u)
        /\ (l = "rollback" => n \in 1 .. 3) /\ (l = "failed" => n = 0)
        /\ b \/ n = 3
  <2>1. CASE Fault(p)
    <3>1. Assign(p, [t EXCEPT !.at = "rollback", !.next = 3])
      BY <2>1, <1>1, OrderIs DEF Fault
    <3>2. [t EXCEPT !.at = "rollback", !.next = 3]
          = [t EXCEPT !.at = "rollback", !.next = 3, !.unrestored = t.unrestored]
      BY <1>3 DEF WellShaped, SetupFields
    <3>3. t.unrestored \in BOOLEAN
      BY <1>3 DEF WellShaped
    <3>4. 3 \in 0 .. 4 /\ 3 \in 1 .. 3 /\ "rollback" # "failed" /\ "rollback" \in {"rollback", "failed"}
      OBVIOUS
    <3>5. QED BY Zenon, <3>1, <3>2, <3>3, <3>4
  <2>2. CASE RestoreFails(p)
    <3>1. t.at = "rollback"
      BY <2>2, <1>1 DEF RestoreFails, On
    <3>2. t.next \in 1 .. 3
      BY <3>1, <1>3 DEF Fits
    <3>3. PICK l, n : n = t.next - 1 /\ l = IF t.next = 1 THEN "failed" ELSE t.at
      OBVIOUS
    <3>4. n \in 0 .. 4 /\ (l = "rollback" => n \in 1 .. 3) /\ (l = "failed" => n = 0) /\ l \in {"rollback", "failed"}
      BY <3>1, <3>2, <3>3
    <3>5. Assign(p, [[t EXCEPT !.next = n, !.at = l] EXCEPT !.unrestored = TRUE])
      BY <2>2, <1>1, <3>3 DEF RestoreFails, AfterRestore
    <3>6. [[t EXCEPT !.next = n, !.at = l] EXCEPT !.unrestored = TRUE] = [t EXCEPT !.at = l, !.next = n, !.unrestored = TRUE]
      BY <1>3 DEF WellShaped, SetupFields
    <3>7. QED BY Zenon, <3>4, <3>5, <3>6
  <2>3. QED BY <2>1, <2>2
<1>a. /\ DOMAIN u = SetupFields /\ u.at = l /\ u.next = n
      /\ \A d \in SetupFields \ {"at", "next", "unrestored"} : u[d] = t[d]
  BY <1>3, <1>5 DEF WellShaped, SetupFields
<1>b. u.unrestored = b
  BY <1>3, <1>5 DEF WellShaped, SetupFields
<1>c. Applied(t, u)
  BY <1>5, <1>a DEF Applied
<1>d. u.unrestored \in BOOLEAN
  BY Zenon, <1>5, <1>b
<1>6. /\ Formed(u) /\ u.at = l /\ u.next = n /\ u.unrestored = b /\ u.ws = t.ws /\ u.read = t.read
      /\ u.plan = t.plan
  BY Zenon, <1>3, <1>a, <1>b, <1>c, <1>d, AppliedForms
<1>7. PICK i \in 1 .. 3 : i = 3
  OBVIOUS
<1>8. Rewrites(p, Order[i]) /\ files'[Order[i]] = files[Order[i]]
  <2>1. Order[i] \in Files
    BY <1>7, OrderIs DEF Files
  <2>2. QED BY <1>4, <2>1, NothingRewrites DEF SetupInv, SetupTypes
<1>9. Sees(p, u)'
  <2>1. l \notin Prepared /\ l # "replace" /\ l # "done"
    BY <1>5 DEF Prepared, Planning, Starting
  <2>2. ASSUME NEW j \in 1 .. 3 PROVE ~(~b /\ n < j)
    <3>1. CASE b
      BY <3>1
    <3>2. CASE n = 3
      BY <3>2
    <3>3. QED BY <1>5, <3>1, <3>2
  <2>3. QED BY Zenon, <1>3, <1>6, <2>1, <2>2 DEF Sees
<1>10. u.at \in Applying \cup Over
  BY <1>5, <1>6 DEF Applying, Over
<1>11. ~overlapped /\ u.at \in Applying => Lone(u)'
  <2>1. SUFFICES ASSUME ~overlapped PROVE Lone(u)'
    BY Zenon
  <2>2. Lone(t)
    BY Zenon, <1>1, <1>3, <2>1 DEF SetupInv, LoneInv
  <2>3. u.at # "replace"
    BY <1>5, <1>6
  <2>4. SUFFICES ASSUME NEW j \in 1 .. Len(t.plan), j # 3
        PROVE /\ IsManaged(t.plan[j].original) => IsManaged(files[Order[j]])
              /\ files["binding"].kind = "binding" => IsManaged(t.plan[j].original)
              /\ Len(t.plan) = 3 /\ t.plan[3].original.kind = "binding" => IsManaged(t.plan[j].original)
    BY <1>4, <1>6, <2>3 DEF Lone
  <2>5. QED BY Zenon, <2>2, <2>4 DEF Lone
<1>12. ~overlapped /\ files'["binding"].kind = "binding" => \A f \in Hooked : IsManaged(files'[f])
  BY Zenon, <1>4 DEF SetupInv, LoneInv
<1>13. files'[Order[i]] \in {files[Order[i]], t.plan[i].original, t.plan[i].content}
  BY <1>8
<1>14. QED BY Zenon, <1>13, <1>1, <1>2, <1>4, <1>5, <1>6, <1>8, <1>9, <1>10, <1>11, <1>12, RewriteKeeps

\* A file is written, or was as it should be.
LEMMA ReplaceKeeps ==
  ASSUME SetupInv, NEW p \in Setups, Replace(p)
  PROVE SetupInv'
<1>1. PICK t, i, c, u :
        /\ t = post[p] /\ i = t.next /\ c = t.plan[i].content
        /\ u = [t EXCEPT !.next = i + 1, !.at = IF i = 3 THEN "done" ELSE "replace"]
  OBVIOUS
<1>2. t.at = "replace" /\ t.at \in Applying
  BY <1>1 DEF Replace, On, Applying
<1>3. /\ WellShaped(t) /\ Fits(t, t.at) /\ Working(p) /\ Busy(p)
      /\ t.hooks /\ DOMAIN t.read = Hooked /\ Len(t.plan) = 3 /\ t.ws \in Workspaces
  BY <1>1, <1>2, ApplyingIs
<1>4. i \in 1 .. 3
  BY <1>1, <1>2, <1>3 DEF Fits
<1>5. config' = config /\ registry' = registry /\ cold' = cold
  BY DEF Replace, workspaces
<1>6. Assign(p, u)
  BY <1>1, <1>2, OrderIs DEF Replace
<1>7. /\ DOMAIN u = SetupFields /\ u.next = i + 1 /\ u.at = IF i = 3 THEN "done" ELSE "replace"
      /\ \A d \in SetupFields \ {"at", "next", "unrestored"} : u[d] = t[d]
  BY <1>1, <1>3 DEF WellShaped, SetupFields
<1>8. u.unrestored = t.unrestored
  BY <1>1, <1>3 DEF WellShaped, SetupFields
<1>9. Applied(t, u)
  BY <1>4, <1>7 DEF Applied
<1>10. /\ Formed(u) /\ u.ws = t.ws /\ u.read = t.read /\ u.plan = t.plan /\ u.at \in Applying \cup Over
  <2>1. u.unrestored \in BOOLEAN
    BY Zenon, <1>3, <1>8 DEF WellShaped
  <2>2. QED BY Zenon, <1>3, <1>9, <2>1, AppliedForms
<1>11. Order[i] \in Files
  BY <1>4, OrderIs DEF Files, Hooked
<1>12. Rewrites(p, Order[i]) /\ (files'[Order[i]] = c \/ (files'[Order[i]] = files[Order[i]] /\ c = t.plan[i].original))
  <2>1. CASE t.plan[i].content = t.plan[i].original
    <3>1. UNCHANGED <<files, history>>
      BY <2>1, <1>1 DEF Replace
    <3>2. QED BY <3>1, <2>1, <1>1, <1>11, NothingRewrites DEF SetupInv, SetupTypes
  <2>2. CASE t.plan[i].content # t.plan[i].original
    <3>1. SetFile(p, Order[i], c)
      BY <2>2, <1>1 DEF Replace
    <3>2. QED BY <3>1, <1>11, SetFileRewrites DEF SetupInv, SetupTypes
  <2>3. QED BY <2>1, <2>2
<1>13. /\ \A g \in Files \ {Order[i]} : files'[g] = files[g]
       /\ \A f \in Files : <<p, f>> \in disturbed => <<p, f>> \in disturbed'
  BY Zenon, <1>12 DEF Rewrites
<1>14. \A j \in 1 .. 3 : j # i => Order[j] \in Files \ {Order[i]}
  BY <1>4, OrderIs DEF Files, Hooked
<1>15. Sees(p, t)
  BY <1>1, <1>3 DEF SetupInv, SeesInv
<1>16. Sees(p, u)'
  <2>1. SUFFICES ASSUME NEW j \in 1 .. 3, <<p, Order[j]>> \notin disturbed'
        PROVE files'[Order[j]] = IF j < i + 1 THEN t.plan[j].content ELSE t.plan[j].original
    <3>1. u.at \notin Prepared /\ u.at \notin {"rollback", "failed"} /\ (u.at = "done" => i = 3)
      BY <1>4, <1>7 DEF Prepared, Planning, Starting
    <3>2. \A j \in 1 .. 3 : i = 3 => j < i + 1
      OBVIOUS
    <3>3. u.plan = t.plan /\ Len(u.plan) = 3 /\ u.next = i + 1
      BY Zenon, <1>3, <1>7, <1>10
    <3>4. SUFFICES ASSUME NEW j \in 1 .. 3, <<p, Order[j]>> \notin disturbed'
          PROVE /\ u.at = "done" => files'[Order[j]] = u.plan[j].content
                /\ u.at = "replace" =>
                     files'[Order[j]] = IF j < u.next THEN u.plan[j].content ELSE u.plan[j].original
      BY Zenon, <3>1, <3>3 DEF Sees
    <3>5. QED BY Zenon, <2>1, <3>1, <3>2, <3>3, <3>4
  <2>2. Order[j] \in Files /\ <<p, Order[j]>> \notin disturbed
    BY <2>1, <1>11, <1>13, <1>14
  <2>3. files[Order[j]] = IF j < t.next THEN t.plan[j].content ELSE t.plan[j].original
    BY Zenon, <2>2, <1>2, <1>3, <1>15 DEF Sees
  <2>4. CASE j = i
    BY <2>3, <2>4, <1>1, <1>4, <1>12
  <2>5. CASE j # i
    BY <2>3, <2>5, <1>1, <1>4, <1>13, <1>14
  <2>6. QED BY <2>4, <2>5
<1>17. ASSUME ~overlapped
       PROVE Lone(t) /\ (files["binding"].kind = "binding" => \A f \in Hooked : IsManaged(files[f]))
  BY Zenon, <1>1, <1>3, <1>17 DEF SetupInv, LoneInv
<1>18. ASSUME ~overlapped, NEW j \in {1, 2}
       PROVE /\ IsManaged(t.plan[j].original) => IsManaged(files[Order[j]])
             /\ files["binding"].kind = "binding" => IsManaged(t.plan[j].original)
             /\ t.plan[3].original.kind = "binding" => IsManaged(t.plan[j].original)
             /\ j < i => IsManaged(files[Order[j]])
  <2>1. j \in 1 .. Len(t.plan) /\ j # 3
    BY <1>3
  <2>2. QED BY Zenon, <2>1, <1>1, <1>2, <1>3, <1>17, <1>18 DEF Lone
\* What is written in a hooks file has one managed hook.
<1>19. ASSUME ~overlapped, NEW j \in {1, 2}
       PROVE (IsManaged(files[Order[j]]) \/ j = i) => IsManaged(files'[Order[j]])
  <2>1. IsManaged(t.plan[j].content)
    BY <1>3, PlannedIs
  <2>2. CASE j = i
    <3>1. t.plan[j].original = t.plan[j].content => IsManaged(files[Order[j]])
      BY Zenon, <2>1, <1>18, <1>19
    <3>2. QED BY <2>1, <2>2, <3>1, <1>1, <1>12
  <2>3. CASE j # i
    <3>1. j \in 1 .. 3
      OBVIOUS
    <3>2. files'[Order[j]] = files[Order[j]]
      BY <2>3, <3>1, <1>13, <1>14
    <3>3. QED BY <2>3, <3>2
  <2>4. QED BY <2>2, <2>3
<1>20. i # 3 => files'["binding"] = files["binding"]
  BY <1>4, <1>13, <1>14, OrderIs
<1>21. ~overlapped /\ u.at \in Applying => Lone(u)'
  <2>1. SUFFICES ASSUME ~overlapped, u.at \in Applying PROVE Lone(u)'
    BY Zenon
  <2>2. i # 3
    BY <2>1, <1>7 DEF Applying
  <2>a. \A j \in 1 .. Len(u.plan) : j # 3 => j \in {1, 2}
    <3>1. Len(u.plan) = 3
      BY Zenon, <1>3, <1>10
    <3>2. QED BY <3>1
  <2>3. SUFFICES ASSUME NEW j \in {1, 2}
        PROVE /\ IsManaged(t.plan[j].original) => IsManaged(files'[Order[j]])
              /\ files'["binding"].kind = "binding" => IsManaged(t.plan[j].original)
              /\ t.plan[3].original.kind = "binding" => IsManaged(t.plan[j].original)
              /\ j < i + 1 => IsManaged(files'[Order[j]])
    BY Zenon, <1>7, <1>10, <2>a DEF Lone
  <2>4. /\ IsManaged(t.plan[j].original) => IsManaged(files'[Order[j]])
        /\ files'["binding"].kind = "binding" => IsManaged(t.plan[j].original)
        /\ t.plan[3].original.kind = "binding" => IsManaged(t.plan[j].original)
    BY Zenon, <2>1, <2>2, <1>18, <1>19, <1>20
  <2>5. j < i + 1 => j < i \/ j = i
    BY <1>4
  <2>6. j < i + 1 => IsManaged(files'[Order[j]])
    BY Zenon, <2>1, <2>5, <1>18, <1>19
  <2>7. QED BY <2>4, <2>6
<1>22. ~overlapped /\ files'["binding"].kind = "binding" => \A f \in Hooked : IsManaged(files'[f])
  <2>1. SUFFICES ASSUME ~overlapped, files'["binding"].kind = "binding", NEW f \in Hooked PROVE IsManaged(files'[f])
    BY Zenon
  <2>2. PICK j \in {1, 2} : f = Order[j]
    BY OrderIs DEF Hooked
  <2>3. CASE i = 3
    <3>1. j < i
      BY <2>3
    <3>2. QED BY Zenon, <3>1, <2>1, <2>2, <1>18, <1>19
  <2>4. CASE i # 3
    BY Zenon, <2>4, <2>1, <2>2, <1>17, <1>19, <1>20
  <2>5. QED BY <2>3, <2>4
<1>23. files'[Order[i]] \in {files[Order[i]], t.plan[i].original, t.plan[i].content}
  BY <1>1, <1>12
<1>24. t = post[p] /\ Rewrites(p, Order[i])
  BY Zenon, <1>1, <1>12
<1>25. QED BY Zenon, <1>2, <1>4, <1>5, <1>6, <1>10, <1>16, <1>21, <1>22, <1>23, <1>24, RewriteKeeps

\* A file gets back what the plan found, or had it.
LEMMA RestoreKeeps ==
  ASSUME SetupInv, NEW p \in Setups, Restore(p)
  PROVE SetupInv'
<1>1. PICK t, i, c, u :
        /\ t = post[p] /\ i = t.next /\ c = t.plan[i].original
        /\ u = [t EXCEPT !.next = i - 1, !.at = IF i = 1 THEN "failed" ELSE "rollback"]
  OBVIOUS
<1>2. t.at = "rollback" /\ t.at \in Applying
  BY <1>1 DEF Restore, On, Applying
<1>3. /\ WellShaped(t) /\ Fits(t, t.at) /\ Working(p) /\ Busy(p)
      /\ t.hooks /\ DOMAIN t.read = Hooked /\ Len(t.plan) = 3 /\ t.ws \in Workspaces
  BY <1>1, <1>2, ApplyingIs
<1>4. i \in 1 .. 3
  BY <1>1, <1>2, <1>3 DEF Fits
<1>5. config' = config /\ registry' = registry /\ cold' = cold
  BY DEF Restore, workspaces
<1>6. Assign(p, u)
  BY <1>1, <1>2, OrderIs DEF Restore, AfterRestore
<1>7. /\ DOMAIN u = SetupFields /\ u.next = i - 1 /\ u.at = IF i = 1 THEN "failed" ELSE "rollback"
      /\ \A d \in SetupFields \ {"at", "next", "unrestored"} : u[d] = t[d]
  BY <1>1, <1>3 DEF WellShaped, SetupFields
<1>8. u.unrestored = t.unrestored
  BY <1>1, <1>3 DEF WellShaped, SetupFields
<1>9. Applied(t, u)
  BY <1>4, <1>7 DEF Applied
<1>10. /\ Formed(u) /\ u.ws = t.ws /\ u.read = t.read /\ u.plan = t.plan /\ u.at \in Applying \cup Over
  <2>1. u.unrestored \in BOOLEAN
    BY Zenon, <1>3, <1>8 DEF WellShaped
  <2>2. QED BY Zenon, <1>3, <1>9, <2>1, AppliedForms
<1>11. Order[i] \in Files
  BY <1>4, OrderIs DEF Files, Hooked
<1>12. Rewrites(p, Order[i]) /\ files'[Order[i]] = c
  <2>1. CASE files[Order[i]] = c
    <3>1. UNCHANGED <<files, history>>
      BY <2>1, <1>1 DEF Restore
    <3>2. QED BY <3>1, <2>1, <1>1, <1>11, NothingRewrites DEF SetupInv, SetupTypes
  <2>2. CASE files[Order[i]] # c
    <3>1. SetFile(p, Order[i], c)
      BY <2>2, <1>1 DEF Restore
    <3>2. QED BY <3>1, <1>11, SetFileRewrites DEF SetupInv, SetupTypes
  <2>3. QED BY <2>1, <2>2
<1>13. /\ \A g \in Files \ {Order[i]} : files'[g] = files[g]
       /\ \A f \in Files : <<p, f>> \in disturbed => <<p, f>> \in disturbed'
  BY Zenon, <1>12 DEF Rewrites
<1>14. \A j \in 1 .. 3 : j # i => Order[j] \in Files \ {Order[i]}
  BY <1>4, OrderIs DEF Files, Hooked
<1>15. Sees(p, t)
  BY <1>1, <1>3 DEF SetupInv, SeesInv
<1>16. Sees(p, u)'
  <2>1. SUFFICES ASSUME NEW j \in 1 .. 3, <<p, Order[j]>> \notin disturbed', ~t.unrestored, i - 1 < j
        PROVE files'[Order[j]] = t.plan[j].original
    <3>1. u.at \notin Prepared /\ u.at \notin {"replace", "done"}
      BY <1>7 DEF Prepared, Planning, Starting
    <3>2. QED BY Zenon, <1>3, <1>7, <1>8, <1>10, <2>1, <3>1 DEF Sees
  <2>2. Order[j] \in Files /\ <<p, Order[j]>> \notin disturbed
    BY <2>1, <1>11, <1>13, <1>14
  <2>3. t.next < j => files[Order[j]] = t.plan[j].original
    BY Zenon, <2>1, <2>2, <1>2, <1>3, <1>15 DEF Sees
  <2>4. CASE j = i
    BY <2>4, <1>1, <1>12
  <2>5. CASE j # i
    <3>1. i < j
      <4>1. \A k \in 1 .. 3, m \in 1 .. 3 : k - 1 < m /\ m # k => k < m
        OBVIOUS
      <4>2. QED BY Zenon, <4>1, <2>1, <2>5, <1>4
    <3>2. files'[Order[j]] = files[Order[j]]
      BY <2>5, <1>13, <1>14
    <3>3. QED BY Zenon, <3>1, <3>2, <2>3, <1>1
  <2>6. QED BY <2>4, <2>5
<1>17. ASSUME ~overlapped
       PROVE Lone(t) /\ (files["binding"].kind = "binding" => \A f \in Hooked : IsManaged(files[f]))
  BY Zenon, <1>1, <1>3, <1>17 DEF SetupInv, LoneInv
<1>18. ASSUME ~overlapped, NEW j \in {1, 2}
       PROVE /\ IsManaged(t.plan[j].original) => IsManaged(files[Order[j]])
             /\ files["binding"].kind = "binding" => IsManaged(t.plan[j].original)
             /\ t.plan[3].original.kind = "binding" => IsManaged(t.plan[j].original)
  <2>1. j \in 1 .. Len(t.plan) /\ j # 3
    BY <1>3
  <2>2. QED BY Zenon, <2>1, <1>3, <1>17, <1>18 DEF Lone
\* Who was bound had managed hooks in what the plan found.
<1>19. ASSUME ~overlapped, NEW j \in {1, 2}
       PROVE /\ files'["binding"].kind = "binding" => IsManaged(t.plan[j].original)
             /\ IsManaged(t.plan[j].original) => IsManaged(files'[Order[j]])
  <2>1. files'["binding"] = files["binding"] \/ files'["binding"] = t.plan[3].original
    <3>1. CASE i = 3
      BY <3>1, <1>1, <1>12, OrderIs
    <3>2. CASE i # 3
      BY <3>2, <1>4, <1>13, <1>14, OrderIs
    <3>3. QED BY <3>1, <3>2
  <2>2. files'["binding"].kind = "binding" => IsManaged(t.plan[j].original)
    BY Zenon, <2>1, <1>18, <1>19
  <2>3. CASE j = i
    BY <2>2, <2>3, <1>1, <1>12
  <2>4. CASE j # i
    <3>1. j \in 1 .. 3
      OBVIOUS
    <3>2. files'[Order[j]] = files[Order[j]]
      BY <2>4, <3>1, <1>13, <1>14
    <3>3. QED BY Zenon, <2>2, <3>2, <1>18, <1>19
  <2>5. QED BY <2>3, <2>4
<1>20. ~overlapped /\ u.at \in Applying => Lone(u)'
  <2>1. SUFFICES ASSUME ~overlapped PROVE Lone(u)'
    BY Zenon
  <2>2. \A j \in 1 .. Len(u.plan) : j # 3 => j \in {1, 2}
    <3>1. Len(u.plan) = 3
      BY Zenon, <1>3, <1>10
    <3>2. QED BY <3>1
  <2>3. u.at # "replace"
    BY <1>7
  <2>4. QED BY Zenon, <1>10, <1>18, <1>19, <2>1, <2>2, <2>3 DEF Lone
<1>21. ~overlapped /\ files'["binding"].kind = "binding" => \A f \in Hooked : IsManaged(files'[f])
  <2>1. SUFFICES ASSUME ~overlapped, files'["binding"].kind = "binding", NEW f \in Hooked PROVE IsManaged(files'[f])
    BY Zenon
  <2>2. PICK j \in {1, 2} : f = Order[j]
    BY OrderIs DEF Hooked
  <2>3. QED BY Zenon, <2>1, <2>2, <1>19
<1>22. files'[Order[i]] \in {files[Order[i]], t.plan[i].original, t.plan[i].content}
  BY <1>1, <1>12
<1>23. t = post[p] /\ Rewrites(p, Order[i])
  BY Zenon, <1>1, <1>12
<1>24. QED BY Zenon, <1>2, <1>4, <1>5, <1>6, <1>10, <1>16, <1>20, <1>21, <1>22, <1>23, RewriteKeeps

-----------------------------------------------------------------------------
(* Around the setups, and all together.                                    *)

LEMMA RivalsKeep ==
  ASSUME SetupInv, NEW w \in Workspaces, OthersCommit(w)
  PROVE SetupInv'
<1>1. UNCHANGED <<files, config, registry, cold, post, added, overlapped, disturbed, raced>>
  BY DEF OthersCommit, history
<1>2. SetupTypes' /\ SeesInv' /\ CountsInv'
  <2>1. SetupTypes'
    BY <1>1 DEF SetupInv, SetupTypes, FilesInv
  <2>2. SeesInv'
    BY <1>1 DEF SetupInv, SeesInv, Sees, Working
  <2>3. CountsInv'
    BY <1>1 DEF SetupInv, CountsInv, Counts, UserHooksKept, Working
  <2>4. QED BY <2>1, <2>2, <2>3
<1>3. WorkspacesInv'
  BY <1>1 DEF SetupInv, WorkspacesInv, Stands, BoundIsReady, Ready, Opens, Working, Busy
<1>4. LoneInv'
  BY <1>1 DEF SetupInv, LoneInv, Lone, Busy
<1>5. QED BY <1>2, <1>3, <1>4 DEF SetupInv

\* An edit of the user.
LEMMA UserEditKeeps ==
  ASSUME SetupInv, NEW f \in Hooked, Edit(f)
  PROVE SetupInv'
<1>1. SetupTypes /\ FilesInv /\ WorkspacesInv /\ SeesInv /\ CountsInv /\ LoneInv
  BY DEF SetupInv, SetupTypes
<1>2. f \in Files /\ f # "binding" /\ "binding" \in Files /\ Hooked \subseteq Files
  BY DEF Files, Hooked
<1>3. files[f] \in {NoFile} \cup HooksFiles
  BY <1>1 DEF FilesInv, HookContents, Edit
<1>4. PICK e : e = HooksFile(<<"user">> \o Existing(files[f]).hooks, Existing(files[f]).legacy)
  OBVIOUS
<1>5. e \in HooksFiles /\ UserHooks(e) = UserHooks(files[f]) + 1 /\ (IsManaged(files[f]) => IsManaged(e))
  BY <1>3, <1>4, EditKeeps
<1>6. files' = [files EXCEPT ![f] = e] /\ added' = [added EXCEPT ![f] = added[f] + 1]
  BY <1>4 DEF Edit
<1>7. files'[f] = e /\ \A g \in Files \ {f} : files'[g] = files[g]
  BY <1>1, <1>2, <1>6 DEF FilesInv
<1>8. added \in [Hooked -> Nat]
  BY <1>1 DEF CountsInv
<1>9. added'[f] = added[f] + 1 /\ \A g \in Hooked \ {f} : added'[g] = added[g]
  BY <1>6, <1>8
<1>10. config' = config /\ registry' = registry /\ cold' = cold /\ post' = post
  BY DEF Edit, workspaces
<1>11. overlapped' = overlapped
  BY DEF Edit
<1>12. disturbed' = disturbed \cup {<<q, f>> : q \in {q \in Setups : Holds(q, f)}}
  BY DEF Edit, Disturb
<1>13. raced \subseteq raced' /\ raced' \subseteq raced \cup {f} /\ (f \notin raced' => \A q \in Setups : ~Holds(q, f))
  BY DEF Edit
<1>14. SetupTypes'
  <2>1. FilesInv'
    BY <1>1, <1>2, <1>5, <1>6, <1>7 DEF FilesInv, HookContents
  <2>2. QED BY <1>1, <1>10, <2>1 DEF SetupTypes
<1>15. WorkspacesInv'
  <2>1. files'["binding"] = files["binding"]
    BY <1>2, <1>7
  <2>2. QED BY <1>1, <1>10, <1>11, <2>1 DEF WorkspacesInv, Stands, BoundIsReady, Ready, Opens, Working, Busy
<1>16. SeesInv'
  <2>1. SUFFICES ASSUME NEW q \in Setups, Working(q) PROVE Sees(q, post[q])'
    BY <1>10 DEF SeesInv, Working
  <2>2. PICK t : t = post[q] /\ t = post'[q]
    BY <1>10
  <2>3. Sees(q, t)
    BY <1>1, <2>1, <2>2 DEF SeesInv
  <2>4. ASSUME NEW i \in 1 .. Len(t.plan), <<q, Order[i]>> \notin disturbed'
        PROVE <<q, Order[i]>> \notin disturbed /\ files'[Order[i]] = files[Order[i]]
    <3>1. Holds(q, Order[i]) /\ Order[i] \in Files
      <4>1. Holds(q, Order[i]) /\ i \in 1 .. 3
        BY <1>1, <2>1, <2>2, PlansHold
      <4>2. QED BY <4>1, OrderIs DEF Files, Hooked
    <3>2. Order[i] # f
      BY <3>1, <2>4, <1>12
    <3>3. QED BY <3>1, <3>2, <2>4, <1>7, <1>12
  <2>5. Sees(q, t)'
    BY Zenon, <2>3, <2>4 DEF Sees
  <2>6. QED BY <2>2, <2>5
<1>17. CountsInv'
  <2>1. added' \in [Hooked -> Nat]
    BY <1>6, <1>8
  <2>2. UserHooksKept'
    <3>1. SUFFICES ASSUME NEW g \in Hooked, g \notin raced' PROVE UserHooks(files'[g]) = added'[g]
      BY DEF UserHooksKept
    <3>2. UserHooks(files[g]) = added[g]
      BY <1>1, <1>13, <3>1 DEF CountsInv, UserHooksKept
    <3>3. CASE g = f
      BY <3>2, <3>3, <1>5, <1>7, <1>9
    <3>4. CASE g # f
      BY <3>2, <3>4, <1>2, <1>7, <1>9
    <3>5. QED BY <3>3, <3>4
  <2>3. ASSUME NEW q \in Setups, Working(q) PROVE Counts(post[q])'
    <3>1. PICK t : t = post[q] /\ t = post'[q]
      BY <1>10
    <3>2. Counts(t)
      BY <1>1, <2>3, <3>1 DEF CountsInv
    <3>3. t.at \notin {"idle", "refused"}
      BY <2>3, <3>1 DEF Working, SetupLabels, Looking, Creating, Planning, Starting, Applying, Over
    <3>4. WellShaped(t) /\ Fits(t, t.at)
      BY <1>1, <3>1, <3>3, WorkingIs
    <3>5. ASSUME NEW g \in DOMAIN t.read PROVE g \in raced' \/ UserHooks(t.read[g]) = added'[g]
      <4>1. t.hooks /\ g \in Hooked
        BY <3>4, <3>5 DEF Fits, Hooked
      <4>2. Holds(q, g)
        BY <4>1, <3>1, <3>3, <3>5 DEF Holds, Hooked
      <4>3. g = f => g \in raced'
        BY <4>2, <1>13
      <4>4. g # f => added'[g] = added[g]
        BY <4>1, <1>9
      <4>5. g \in raced \/ UserHooks(t.read[g]) = added[g]
        BY <3>2, <3>5 DEF Counts
      <4>6. QED BY <4>3, <4>4, <4>5, <1>13
    <3>6. ASSUME NEW i \in 1 .. Len(t.plan), i # 3
          PROVE Order[i] \in raced' \/ UserHooks(t.plan[i].original) = added'[Order[i]]
      <4>1. Holds(q, Order[i]) /\ Order[i] \in Hooked
        <5>1. Holds(q, Order[i]) /\ i \in 1 .. 3
          BY <1>1, <2>3, <3>1, <3>6, PlansHold
        <5>2. QED BY <5>1, <3>6, OrderIs DEF Hooked
      <4>2. Order[i] = f => Order[i] \in raced'
        BY <4>1, <1>13
      <4>3. Order[i] # f => added'[Order[i]] = added[Order[i]]
        BY <4>1, <1>9
      <4>4. Order[i] \in raced \/ UserHooks(t.plan[i].original) = added[Order[i]]
        BY <3>2, <3>6 DEF Counts
      <4>5. QED BY <4>2, <4>3, <4>4, <1>13
    <3>7. Counts(t)'
      BY <3>5, <3>6 DEF Counts
    <3>8. QED BY <3>1, <3>7
  <2>4. QED BY <1>10, <2>1, <2>2, <2>3 DEF CountsInv, Working
<1>18. LoneInv'
  <2>1. \A g \in Hooked : IsManaged(files[g]) => IsManaged(files'[g])
    BY <1>2, <1>5, <1>7
  <2>2. files'["binding"] = files["binding"]
    BY <1>2, <1>7
  <2>3. ASSUME ~overlapped, NEW q \in Setups, Busy(q) PROVE Lone(post[q])'
    <3>1. PICK t : t = post[q] /\ t = post'[q]
      BY <1>10
    <3>2. Lone(t)
      BY Zenon, <1>1, <2>3, <3>1 DEF LoneInv
    <3>3. Working(q)
      BY <1>1, <2>3, BusyIs DEF Working
    <3>4. \A i \in 1 .. Len(t.plan) : i # 3 => Order[i] \in Hooked
      <4>1. \A i \in 1 .. Len(t.plan) : i \in 1 .. 3
        BY <1>1, <3>1, <3>3, PlansHold
      <4>2. QED BY <4>1, OrderIs DEF Hooked
    <3>5. Lone(t)'
      BY Zenon, <3>2, <3>4, <2>1, <2>2 DEF Lone
    <3>6. QED BY <3>1, <3>5
  <2>4. ~overlapped /\ files'["binding"].kind = "binding" => \A g \in Hooked : IsManaged(files'[g])
    BY Zenon, <1>1, <2>1, <2>2 DEF LoneInv
  <2>5. \A q \in Setups : Busy(q)' <=> Busy(q)
    BY <1>10 DEF Busy
  <2>6. QED BY Zenon, <1>11, <2>3, <2>4, <2>5 DEF LoneInv
<1>19. QED BY Zenon, <1>14, <1>15, <1>16, <1>17, <1>18 DEF SetupInv

LEMMA SetupStarts ==
  ASSUME SetupInit
  PROVE SetupInv
<1>1. PICK start \in StartFiles : files = start
  BY DEF SetupInit
<1>2. FilesInv
  <2>1. /\ start = [f \in Files |-> start[f]]
        /\ \A f \in Hooked : start[f] \in {NoFile, BadFile} \cup HooksFiles
        /\ start["binding"] \in {NoFile, BadFile}
    BY SetupAssumption
  <2>2. QED BY <1>1, <2>1 DEF FilesInv, HookContents, Bindings
<1>3. files["binding"] \in {NoFile, BadFile}
  BY <1>1, SetupAssumption
<1>4. files["binding"].kind # "binding"
  BY <1>3 DEF NoFile, BadFile
<1>5. \A p \in Setups : post[p] = Free /\ ~Working(p) /\ ~Busy(p)
  <2>1. "idle" \notin SetupLabels
    BY DEF SetupLabels, Looking, Creating, Planning, Starting, Applying, Over
  <2>2. QED BY <2>1 DEF SetupInit, Working, Busy, Free
<1>6. SetupTypes
  <2>1. DOMAIN config = Workspaces /\ DOMAIN registry = Workspaces /\ cold \in [Workspaces -> Nat]
    BY DEF SetupInit
  <2>2. DOMAIN post = Setups
    BY DEF SetupInit
  <2>3. QED BY <1>2, <1>5, <2>1, <2>2 DEF SetupTypes, Formed
<1>7. WorkspacesInv
  <2>1. \A w \in Workspaces : cold[w] <= 1
    BY DEF SetupInit
  <2>2. QED BY Zenon, <1>4, <1>5, <2>1 DEF WorkspacesInv, BoundIsReady
<1>8. SeesInv
  BY <1>5 DEF SeesInv
<1>9. CountsInv
  <2>1. added = [f \in Hooked |-> UserHooks(files[f])]
    BY DEF SetupInit
  <2>2. \A f \in Hooked : UserHooks(files[f]) \in Nat
    BY <1>2, UserHooksType DEF FilesInv
  <2>3. QED BY <1>5, <2>1, <2>2 DEF CountsInv, UserHooksKept
<1>10. LoneInv
  BY Zenon, <1>4, <1>5 DEF LoneInv
<1>11. QED BY <1>6, <1>7, <1>8, <1>9, <1>10 DEF SetupInv

LEMMA SetupStepKeeps ==
  ASSUME SetupInv, [SetupNext]_setupVars
  PROVE SetupInv'
<1>1. ASSUME NEW p \in Setups, NEW hooks \in BOOLEAN,
             NEW w \in IF p \in Explicit THEN Workspaces ELSE {"none"}, Begin(p, hooks, w)
      PROVE SetupInv'
  <2>1. w \in Workspaces \cup {"none"}
    BY <1>1
  <2>2. QED BY <1>1, <2>1, BeginKeeps
<1>2. ASSUME NEW p \in Setups, Step(p) PROVE SetupInv'
  <2>1. CASE ReadClaude(p) \/ ReadCodex(p) \/ Resolve(p)
    BY <2>1, OpeningKeeps
  <2>2. CASE CheckConfig(p) \/ CreateConfig(p) \/ FillConfig(p) \/ CheckRegistry(p) \/ CreateRegistry(p)
               \/ FillRegistry(p)
    BY <2>2, CreatingKeeps
  <2>3. CASE OpenNew(p) \/ ApplySkill(p) \/ OpenService(p) \/ Verify(p) \/ Repair(p) \/ VerifyAgain(p) \/ Stage(p)
    BY <2>3, PreparingKeeps
  <2>4. CASE PlanFile(p)
    BY <2>4, PlanKeeps
  <2>5. ASSUME NEW required \in 0 .. MaxBudget + 1, ColdStart(p, required) \/ Context(p, required) PROVE SetupInv'
    <3>1. required \in Nat
      BY SetupAssumption
    <3>2. QED BY <2>5, <3>1, AttemptKeeps
  <2>6. CASE Replace(p)
    BY <2>6, ReplaceKeeps
  <2>7. CASE Restore(p)
    BY <2>7, RestoreKeeps
  <2>8. CASE Answer(p)
    BY <2>8, EndingKeeps
  <2>9. QED BY Zenon, <1>2, <2>1, <2>2, <2>3, <2>4, <2>5, <2>6, <2>7, <2>8 DEF Step
<1>3. ASSUME NEW p \in Setups, Fault(p) \/ RestoreFails(p) PROVE SetupInv'
  BY <1>3, StallKeeps
<1>4. ASSUME NEW p \in Setups, Death(p) PROVE SetupInv'
  BY <1>4, EndingKeeps
<1>5. ASSUME NEW f \in Hooked, Edit(f) PROVE SetupInv'
  BY <1>5, UserEditKeeps
<1>6. ASSUME NEW w \in Workspaces, OthersCommit(w) PROVE SetupInv'
  BY <1>6, RivalsKeep
<1>7. CASE UNCHANGED setupVars
  <2>1. UNCHANGED <<files, config, registry, cold, post, added, overlapped, disturbed, raced>>
    BY <1>7 DEF setupVars, workspaces, history
  <2>2. SetupTypes'
    BY <2>1 DEF SetupInv, SetupTypes, FilesInv
  <2>3. SeesInv'
    BY <2>1 DEF SetupInv, SeesInv, Sees, Working
  <2>4. CountsInv'
    BY <2>1 DEF SetupInv, CountsInv, Counts, UserHooksKept, Working
  <2>5. WorkspacesInv'
    BY <2>1 DEF SetupInv, WorkspacesInv, Stands, BoundIsReady, Ready, Opens, Working, Busy
  <2>6. LoneInv'
    BY <2>1 DEF SetupInv, LoneInv, Lone, Busy
  <2>7. QED BY <2>2, <2>3, <2>4, <2>5, <2>6 DEF SetupInv
<1>8. QED BY Zenon, <1>1, <1>2, <1>3, <1>4, <1>5, <1>6, <1>7 DEF SetupNext

LEMMA SetupInvariance == SetupSpec => []SetupInv
BY SetupStarts, SetupStepKeeps, PTL DEF SetupSpec

\* A session that finds the project bound can open its workspace, whoever
\* created it, raced for it or died in the middle: a setup publishes the binding
\* only past the check that its workspace is whole, and puts back no binding
\* that it did not find so.
THEOREM SessionsOpen == SetupSpec => []BoundSessionOpens
<1>1. SetupInv => BoundSessionOpens
  <2>1. SUFFICES ASSUME SetupInv, files["binding"].kind = "binding" PROVE SessionStatus = "READY"
    BY DEF BoundSessionOpens
  <2>2. Opens(files["binding"].ws) /\ registry[files["binding"].ws] = Whole
    BY <2>1 DEF SetupInv, WorkspacesInv, BoundIsReady, Ready
  <2>3. files["binding"] # NoFile
    BY <2>1 DEF NoFile
  <2>4. QED BY <2>1, <2>2, <2>3 DEF SessionStatus, Resolves, ValidBinding
<1>2. QED BY <1>1, SetupInvariance, PTL

\* A setup that ended with "the installation failed", and without "the rollback
\* failed", has left every file as its plan found it, unless another wrote it.
THEOREM FailuresAreUndone == SetupSpec => []RollbackRestores
<1>1. SetupInv => RollbackRestores
  <2>1. SUFFICES ASSUME SetupInv, NEW p \in Setups, On(p, "failed"), ~post[p].unrestored,
                        NEW i \in DOMAIN Order, <<p, Order[i]>> \notin disturbed
                 PROVE files[Order[i]] = post[p].plan[i].original
    BY DEF RollbackRestores
  <2>2. PICK t : t = post[p]
    OBVIOUS
  <2>3. t.at = "failed" /\ t.at \notin {"idle", "refused"}
    BY <2>1, <2>2 DEF On
  <2>4. WellShaped(t) /\ Fits(t, t.at) /\ Working(p)
    BY <2>1, <2>2, <2>3, WorkingIs DEF SetupInv
  <2>5. t.next = 0 /\ Len(t.plan) = 3
    <3>1. t.hooks
      BY <2>3, <2>4 DEF Fits
    <3>2. "failed" \notin Looking \cup Creating \cup {"plan"}
      BY DEF Looking, Creating
    <3>3. QED BY <3>1, <3>2, <2>3, <2>4 DEF Fits
  <2>6. i \in 1 .. Len(t.plan) /\ t.next < i
    <3>1. i \in 1 .. 3
      BY OrderIs DEF Order
    <3>2. Len(t.plan) = 3 /\ t.next = 0
      BY <2>5
    <3>3. QED BY <3>1, <3>2
  <2>7. Sees(p, t)
    BY <2>1, <2>2, <2>4 DEF SetupInv, SeesInv
  <2>8. t.at \in {"rollback", "failed"} /\ ~t.unrestored
    BY Zenon, <2>1, <2>2, <2>3
  <2>9. files[Order[i]] = t.plan[i].original
    BY Zenon, <2>1, <2>6, <2>7, <2>8 DEF Sees
  <2>10. QED BY <2>2, <2>9
<1>2. QED BY <1>1, SetupInvariance, PTL

\* No installation, migration, rollback or death loses a hook of the user's:
\* what a setup writes was made of what it read, and has as many of them.
THEOREM HooksAreKept == SetupSpec => []UserHooksKept
<1>1. SetupInv => UserHooksKept
  BY DEF SetupInv, CountsInv
<1>2. QED BY <1>1, SetupInvariance, PTL

\* Where setups follow each other, a bound project has the hooks of both agents;
\* and what a setup reports as installed is there, in a workspace started cold,
\* once where no two overlapped.
THEOREM InstalledIsThere == SetupSpec => []BoundIsInstalled
<1>1. ASSUME SetupInv PROVE BoundIsInstalled
  <2>1. SetupTypes /\ WorkspacesInv /\ SeesInv /\ LoneInv
    BY <1>1 DEF SetupInv
  <2>2. \A f \in Hooked : IsManaged(files[f]) <=> Managed(f)
    BY DEF IsManaged, Managed
  <2>3. ~overlapped /\ files["binding"].kind = "binding" => \A f \in Hooked : Managed(f)
    BY Zenon, <2>1, <2>2 DEF LoneInv
  <2>4. ASSUME NEW p \in Setups, On(p, "done")
        PROVE /\ cold[post[p].ws] >= 1 /\ (~overlapped => cold[post[p].ws] = 1)
              /\ post[p].hooks =>
                   /\ \A f \in Hooked : <<p, f>> \notin disturbed => Managed(f)
                   /\ <<p, "binding">> \notin disturbed => files["binding"] = Binding(post[p].ws)
    <3>1. PICK t : t = post[p]
      OBVIOUS
    <3>2. t.at = "done" /\ t.at \notin {"idle", "refused"} /\ t.at \in Over /\ t.at \notin Looking \cup Creating \cup {"plan", "claude", "codex"}
      BY <2>4, <3>1 DEF On, Over, Looking, Creating
    <3>3. WellShaped(t) /\ Fits(t, t.at) /\ Working(p)
      BY <2>1, <3>1, <3>2, WorkingIs
    <3>4. t.ws \in Workspaces
      BY <3>2, <3>3, HasWorkspace
    <3>5. cold[t.ws] >= 1
      <4>1. Stands(t, t.at)
        BY <2>1, <3>1, <3>3 DEF WorkspacesInv
      <4>2. QED BY Zenon, <4>1, <3>2, StandsTells
    <3>6. ~overlapped => cold[t.ws] = 1
      <4>1. ~overlapped => cold[t.ws] <= 1
        BY Zenon, <2>1, <3>4 DEF WorkspacesInv
      <4>2. cold[t.ws] <= 1 => cold[t.ws] = 1
        BY <2>1, <3>4, <3>5 DEF SetupTypes
      <4>3. QED BY Zenon, <4>1, <4>2
    <3>7. ASSUME t.hooks
          PROVE /\ \A f \in Hooked : <<p, f>> \notin disturbed => Managed(f)
                /\ <<p, "binding">> \notin disturbed => files["binding"] = Binding(t.ws)
      <4>1. Len(t.plan) = 3 /\ DOMAIN t.read = Hooked
        BY <3>2, <3>3, <3>7 DEF Fits
      <4>2. Sees(p, t)
        BY <2>1, <3>1, <3>3 DEF SeesInv
      <4>3. \A i \in 1 .. 3 : <<p, Order[i]>> \notin disturbed => files[Order[i]] = t.plan[i].content
        BY Zenon, <4>1, <4>2, <3>2 DEF Sees
      <4>4. ASSUME NEW f \in Hooked, <<p, f>> \notin disturbed PROVE Managed(f)
        <5>1. PICK i \in {1, 2} : f = Order[i]
          BY OrderIs DEF Hooked
        <5>2. files[f] = t.plan[i].content
          BY <5>1, <4>3, <4>4
        <5>3. IsManaged(t.plan[i].content)
          BY <4>1, <3>3, PlannedIs
        <5>4. QED BY <5>2, <5>3, <2>2
      <4>5. <<p, "binding">> \notin disturbed => files["binding"] = Binding(t.ws)
        BY <4>1, <4>3, <3>3, PlannedBinding, OrderIs
      <4>6. QED BY <4>4, <4>5
    <3>8. QED BY Zenon, <3>1, <3>5, <3>6, <3>7
  <2>5. QED BY <2>3, <2>4 DEF BoundIsInstalled
<1>2. QED BY <1>1, SetupInvariance, PTL
=============================================================================
