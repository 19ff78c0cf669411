----------------------------- MODULE ViewsProofs -----------------------------
(***************************************************************************)
(* Theorems about Views, for any programs, scenarios and drafts: a cold    *)
(* start reports only drafts its views and its index have, what verify     *)
(* calls valid was exact, and a build that nothing disturbs repairs what   *)
(* others have left.                                                       *)
(***************************************************************************)
EXTENDS Views, TLAPS

-----------------------------------------------------------------------------
(* What the variables may hold.                                            *)

\* That only what is there is marked stale does not matter here.
Row == [status : {"none", "STALE"}] \cup [status : {"READY", "STALE"}, digest : Seq(Nat)]
Rows == [Ids -> Row]

Labels ==
  {"drafts", "read", "atomic", "scenarios", "core", "list", "mark", "index", "documents",
   "links", "code", "audit", "done"}
BuildTask ==
  [at : Labels, op : {"consolidate", "cold"}, alone : BOOLEAN, todo : SUBSET Scenarios,
   drafts : SUBSET Drafts, v : Nat, v2 : Nat, stale : SUBSET Ids, committed : SUBSET Drafts]
VerifyTask ==
  [at : {"rows"}, op : {"verify"}]
    \cup [at : {"rebuild"}, op : {"verify"}, rows : Rows, head : Nat]
    \cup [at : {"repack"}, op : {"verify"}, rows : Rows, head : Nat, v : Nat]
    \cup [at : {"done"}, op : {"verify"}, valid : BOOLEAN, checked : {FALSE}]
    \cup [at : {"done"}, op : {"verify"}, valid : BOOLEAN, checked : {TRUE}, rows : Rows, head : Nat]
IdleTask == [at : {"idle"}]

TypeInv ==
  /\ ledger \in Seq([Scenarios -> Nat])
  /\ ledger # <<>>
  /\ landed \in [Drafts -> 0 .. Now]
  /\ artifacts \in Rows
  /\ completed \subseteq [committed : SUBSET Drafts, views : Nat, index : Nat]
  /\ task \in [Builders -> IdleTask \cup BuildTask \cup VerifyTask]

\* The core context of these artifacts was packed no later than at a head.
CoreBy(rows, head) ==
  rows["core"].status = "READY" => rows["core"].digest \in (1 .. head) \X (1 .. head)

\* Where a build stands tells which of its two projections it has read.
HasViews(t) == t.at \notin {"idle", "drafts", "read"}
HasIndex(t) == t.at \in {"documents", "links", "code", "audit"}
BuildOK(t) ==
  /\ t.at = "drafts" => t.op = "cold"
  /\ \A d \in t.committed : landed[d] # 0
  /\ HasViews(t) => t.v \in 1 .. Now /\ \A d \in t.committed : landed[d] <= t.v
  /\ t.at = "core" => t.v2 \in 1 .. Now
  /\ HasIndex(t) => t.v2 \in 1 .. Now /\ \A d \in t.committed : landed[d] <= t.v2
\* What a verification compares was there when it read the artifacts.
VerifyOK(t) ==
  /\ t.at \in {"rebuild", "repack"} \/ (t.at = "done" /\ t.checked) =>
       t.head \in 1 .. Now /\ CoreBy(t.rows, t.head)
  /\ t.at = "repack" => t.v \in t.head .. Now
  /\ t.at = "done" /\ t.checked /\ t.valid => ReadyViews(t.rows) = ViewsOf(t.head, t.head)
TaskOK(t) == (t \in BuildTask => BuildOK(t)) /\ (t \in VerifyTask => VerifyOK(t))

Inv ==
  /\ TypeInv
  /\ CoreBy(artifacts, Now)
  /\ \A b \in Builders : TaskOK(task[b])
  /\ HandoffCoversDrafts

-----------------------------------------------------------------------------
(* Where a part of a call leads.                                           *)

LEMMA Afters ==
  /\ After("cold", "drafts") = "read"
  /\ After("cold", "read") = "index"
  /\ After("cold", "index") = "audit"
  /\ After("consolidate", "read") = "index"
  /\ After("consolidate", "index") = "done"
<1>1. Phases("cold") = <<"drafts", "read", "index", "audit">>
  BY DEF Phases
<1>2. Phases("consolidate") = <<"read", "index">>
  BY DEF Phases
<1>3. After("cold", "drafts") = "read"
  <2> DEFINE i == CHOOSE i \in DOMAIN Phases("cold") : Phases("cold")[i] = "drafts"
  <2>1. i \in DOMAIN Phases("cold") /\ Phases("cold")[i] = "drafts"
    BY <1>1
  <2>2. i = 1
    BY <1>1, <2>1
  <2>3. After("cold", "drafts") = IF i = Len(Phases("cold")) THEN "done" ELSE Phases("cold")[i + 1]
    BY Zenon DEF After
  <2> HIDE DEF i
  <2> QED
    BY <1>1, <2>2, <2>3
<1>4. After("cold", "read") = "index"
  <2> DEFINE i == CHOOSE i \in DOMAIN Phases("cold") : Phases("cold")[i] = "read"
  <2>1. i \in DOMAIN Phases("cold") /\ Phases("cold")[i] = "read"
    BY <1>1
  <2>2. i = 2
    BY <1>1, <2>1
  <2>3. After("cold", "read") = IF i = Len(Phases("cold")) THEN "done" ELSE Phases("cold")[i + 1]
    BY Zenon DEF After
  <2> HIDE DEF i
  <2> QED
    BY <1>1, <2>2, <2>3
<1>5. After("cold", "index") = "audit"
  <2> DEFINE i == CHOOSE i \in DOMAIN Phases("cold") : Phases("cold")[i] = "index"
  <2>1. i \in DOMAIN Phases("cold") /\ Phases("cold")[i] = "index"
    BY <1>1
  <2>2. i = 3
    BY <1>1, <2>1
  <2>3. After("cold", "index") = IF i = Len(Phases("cold")) THEN "done" ELSE Phases("cold")[i + 1]
    BY Zenon DEF After
  <2> HIDE DEF i
  <2> QED
    BY <1>1, <2>2, <2>3
<1>6. After("consolidate", "read") = "index"
  <2> DEFINE i == CHOOSE i \in DOMAIN Phases("consolidate") : Phases("consolidate")[i] = "read"
  <2>1. i \in DOMAIN Phases("consolidate") /\ Phases("consolidate")[i] = "read"
    BY <1>2
  <2>2. i = 1
    BY <1>2, <2>1
  <2>3. After("consolidate", "read") = IF i = Len(Phases("consolidate")) THEN "done" ELSE Phases("consolidate")[i + 1]
    BY Zenon DEF After
  <2> HIDE DEF i
  <2> QED
    BY <1>2, <2>2, <2>3
<1>7. After("consolidate", "index") = "done"
  <2> DEFINE i == CHOOSE i \in DOMAIN Phases("consolidate") : Phases("consolidate")[i] = "index"
  <2>1. i \in DOMAIN Phases("consolidate") /\ Phases("consolidate")[i] = "index"
    BY <1>2
  <2>2. i = 2
    BY <1>2, <2>1
  <2>3. After("consolidate", "index") = IF i = Len(Phases("consolidate")) THEN "done" ELSE Phases("consolidate")[i + 1]
    BY Zenon DEF After
  <2> HIDE DEF i
  <2> QED
    BY <1>2, <2>2, <2>3
<1> QED
  BY <1>3, <1>4, <1>5, <1>6, <1>7

-----------------------------------------------------------------------------
(* What the ledger's growth leaves as it is.                               *)

\* Entries stay, and so does the head a draft was committed at.
Grows ==
  /\ Now <= Now'
  /\ \A h \in 1 .. Now : ledger'[h] = ledger[h]
  /\ \A d \in Drafts : landed[d] # 0 => landed'[d] = landed[d]

LEMMA SameGrows == ASSUME TypeInv, UNCHANGED <<ledger, landed>> PROVE Grows
BY DEF TypeInv, Grows, Now

LEMMA ExtendGrows ==
  ASSUME TypeInv, NEW w \in [Scenarios -> Nat], ledger' = Append(ledger, w),
         \A d \in Drafts : landed[d] # 0 => landed'[d] = landed[d]
  PROVE  Grows /\ Now' = Now + 1 /\ ledger' \in Seq([Scenarios -> Nat]) /\ ledger' # <<>>
BY DEF TypeInv, Grows, Now

\* The views of a head are those of its own entry, whatever follows.
LEMMA ViewsStay ==
  ASSUME TypeInv, Grows, NEW h \in 1 .. Now PROVE ViewsOf(h, h)' = ViewsOf(h, h)
<1>1. ledger'[h] = ledger[h]
  BY DEF Grows
<1>2. Active(h)' = Active(h)
  BY <1>1 DEF Active
<1>3. \A id \in {"atomic", "core"} \cup Active(h) :
        (IF id = "atomic" THEN <<h>> ELSE IF id = "core" THEN <<h, h>> ELSE <<ledger'[h][id]>>)
          = (IF id = "atomic" THEN <<h>> ELSE IF id = "core" THEN <<h, h>> ELSE <<ledger[h][id]>>)
  BY <1>1
<1> QED
  BY <1>2, <1>3 DEF ViewsOf

LEMMA BuildKeeps ==
  ASSUME TypeInv, TypeInv', Grows, NEW t \in BuildTask, BuildOK(t)
  PROVE  BuildOK(t)'
<1>1. Now \in Nat /\ Now' \in Nat /\ Now <= Now'
  BY DEF TypeInv, Grows, Now
<1>2. \A d \in t.committed : d \in Drafts /\ landed[d] # 0 /\ landed'[d] = landed[d]
  BY DEF BuildOK, BuildTask, Grows
<1>3. t.v \in Nat /\ t.v2 \in Nat
  BY DEF BuildTask
<1> QED
  BY <1>1, <1>2, <1>3 DEF BuildOK, HasViews, HasIndex

LEMMA VerifyKeeps ==
  ASSUME TypeInv, TypeInv', Grows, NEW t \in VerifyTask, VerifyOK(t)
  PROVE  VerifyOK(t)'
<1>1. Now \in Nat /\ Now' \in Nat /\ Now <= Now'
  BY DEF TypeInv, Grows, Now
<1>2. t.at \in {"rebuild", "repack"} \/ (t.at = "done" /\ t.checked) =>
        t.head \in 1 .. Now' /\ CoreBy(t.rows, t.head)
  BY <1>1 DEF VerifyOK
<1>3. t.at = "repack" => t.v \in t.head .. Now'
  BY <1>1 DEF VerifyOK
<1>4. t.at = "done" /\ t.checked /\ t.valid => ReadyViews(t.rows) = ViewsOf(t.head, t.head)'
  BY <1>2, ViewsStay DEF VerifyOK
<1> QED
  BY <1>2, <1>3, <1>4 DEF VerifyOK, CoreBy, ReadyViews

LEMMA TaskKeeps ==
  ASSUME TypeInv, TypeInv', Grows, NEW t, TaskOK(t) PROVE TaskOK(t)'
BY BuildKeeps, VerifyKeeps DEF TaskOK

\* Nobody builds alone any more when others write.
LEMMA AloneType ==
  ASSUME NEW t \in BuildTask
  PROVE  /\ [t EXCEPT !.alone = FALSE] \in BuildTask
         /\ BuildOK(t) => BuildOK([t EXCEPT !.alone = FALSE])
<1> DEFINE u == [t EXCEPT !.alone = FALSE]
<1>1. /\ u \in BuildTask /\ u.at = t.at /\ u.op = t.op /\ u.committed = t.committed
      /\ u.v = t.v /\ u.v2 = t.v2
  BY DEF BuildTask
<1>2. BuildOK(t) => BuildOK(u)
  BY <1>1 DEF BuildOK, HasViews, HasIndex
<1> QED
  BY <1>1, <1>2

LEMMA Kinds ==
  /\ \A t \in BuildTask : "alone" \in DOMAIN t /\ t.op \in {"consolidate", "cold"} /\ t \notin VerifyTask
  /\ \A t \in VerifyTask : "alone" \notin DOMAIN t /\ t.op = "verify" /\ t.at # "idle" /\ t \notin BuildTask
  /\ \A t \in IdleTask : "alone" \notin DOMAIN t /\ t.at = "idle" /\ t \notin BuildTask /\ t \notin VerifyTask
<1>1. \A t \in BuildTask : "alone" \in DOMAIN t /\ t.op \in {"consolidate", "cold"}
  BY DEF BuildTask
<1>2. \A t \in VerifyTask : "alone" \notin DOMAIN t /\ t.op = "verify" /\ t.at # "idle"
  BY DEF VerifyTask
<1>3. \A t \in IdleTask : "alone" \notin DOMAIN t /\ t.at = "idle"
  BY DEF IdleTask
<1> QED
  BY <1>1, <1>2, <1>3

LEMMA AloneKeeps ==
  ASSUME TypeInv, \A b \in Builders : TaskOK(task[b]), NEW b \in Builders
  PROVE  /\ Alone(task) \in [Builders -> IdleTask \cup BuildTask \cup VerifyTask]
         /\ TaskOK(Alone(task)[b])
         /\ Alone(task)[b].at = task[b].at
<1>1. ASSUME NEW c \in Builders
      PROVE  /\ Alone(task)[c] \in IdleTask \cup BuildTask \cup VerifyTask
             /\ TaskOK(Alone(task)[c])
             /\ Alone(task)[c].at = task[c].at
  <2>1. task[c] \in IdleTask \cup BuildTask \cup VerifyTask /\ TaskOK(task[c])
    BY DEF TypeInv
  <2>2. CASE task[c] \in BuildTask
    <3>1. Alone(task)[c] = [task[c] EXCEPT !.alone = FALSE]
      BY <2>2, Kinds DEF Alone
    <3>2. Alone(task)[c] \in BuildTask /\ BuildOK(Alone(task)[c])
      BY <2>1, <2>2, <3>1, AloneType DEF TaskOK
    <3>3. Alone(task)[c].at = task[c].at
      BY <2>2, <3>1 DEF BuildTask
    <3> QED
      BY <3>2, <3>3, Kinds DEF TaskOK
  <2>3. CASE task[c] \notin BuildTask
    <3>1. Alone(task)[c] = task[c]
      BY <2>1, <2>3, Kinds DEF Alone
    <3> QED
      BY <2>1, <3>1
  <2> QED
    BY <2>2, <2>3
<1>2. Alone(task) \in [Builders -> IdleTask \cup BuildTask \cup VerifyTask]
  BY <1>1 DEF Alone
<1> QED
  BY <1>1, <1>2

-----------------------------------------------------------------------------
(* Steps that leave the ledger alone.                                      *)

LEMMA StepKeeps ==
  ASSUME Inv, NEW b \in Builders, NEW x \in IdleTask \cup BuildTask \cup VerifyTask, TaskOK(x),
         task' = [task EXCEPT ![b] = x], UNCHANGED <<ledger, landed, completed>>,
         artifacts' \in Rows, CoreBy(artifacts', Now)
  PROVE  Inv'
<1>1. TypeInv'
  BY DEF Inv, TypeInv, Now
<1>2. Grows
  BY SameGrows DEF Inv
<1>3. ASSUME NEW c \in Builders PROVE TaskOK(task[c])'
  <2>1. PICK y : y = task'[c]
    OBVIOUS
  <2>2. TaskOK(y)
    BY <2>1 DEF Inv, TypeInv
  <2>3. TaskOK(y)'
    BY <1>1, <1>2, <2>2, TaskKeeps DEF Inv
  <2> QED
    BY <2>1, <2>3
<1>4. CoreBy(artifacts, Now)'
  BY DEF Now, CoreBy
<1>5. HandoffCoversDrafts'
  BY DEF Inv, HandoffCoversDrafts
<1> QED
  BY <1>1, <1>3, <1>4, <1>5 DEF Inv

LEMMA BuildStep ==
  ASSUME Inv, NEW b \in Builders, NEW x \in BuildTask, BuildOK(x),
         task' = [task EXCEPT ![b] = x], UNCHANGED <<ledger, landed, completed>>,
         artifacts' \in Rows, CoreBy(artifacts', Now)
  PROVE  Inv'
<1>1. TaskOK(x)
  BY Kinds DEF TaskOK
<1> QED
  BY <1>1, StepKeeps

LEMMA VerifyStep ==
  ASSUME Inv, NEW b \in Builders, NEW x \in VerifyTask, VerifyOK(x),
         task' = [task EXCEPT ![b] = x], UNCHANGED <<ledger, landed, completed, artifacts>>
  PROVE  Inv'
<1>1. TaskOK(x)
  BY Kinds DEF TaskOK
<1>2. artifacts' \in Rows /\ CoreBy(artifacts', Now)
  BY DEF Inv, TypeInv
<1> QED
  BY <1>1, <1>2, StepKeeps

LEMMA IsBuild ==
  ASSUME Inv, NEW b \in Builders, task[b].at \notin {"idle", "rows", "rebuild", "repack", "done"}
  PROVE  task[b] \in BuildTask /\ BuildOK(task[b])
<1>1. task[b] \in IdleTask \cup BuildTask \cup VerifyTask /\ TaskOK(task[b])
  BY DEF Inv, TypeInv
<1>2. task[b] \notin IdleTask
  BY Kinds
<1>3. task[b] \notin VerifyTask
  BY DEF VerifyTask
<1> QED
  BY <1>1, <1>2, <1>3 DEF TaskOK

LEMMA IsVerify ==
  ASSUME Inv, NEW b \in Builders, task[b].at \in {"rows", "rebuild", "repack"}
  PROVE  task[b] \in VerifyTask /\ VerifyOK(task[b])
<1>1. task[b] \in IdleTask \cup BuildTask \cup VerifyTask /\ TaskOK(task[b])
  BY DEF Inv, TypeInv
<1>2. task[b] \notin IdleTask
  BY Kinds
<1>3. task[b] \notin BuildTask
  BY DEF BuildTask, Labels
<1> QED
  BY <1>1, <1>2, <1>3 DEF TaskOK

\* There is always a head, and every draft landed at one.
LEMMA Heads ==
  ASSUME Inv PROVE Now \in Nat \ {0} /\ \A d \in Drafts : landed[d] \in 0 .. Now
BY DEF Inv, TypeInv, Now

LEMMA PutRow ==
  ASSUME NEW row \in Row, NEW digest \in Seq(Nat)
  PROVE  /\ Put(row, digest) \in Row
         /\ Put(row, digest) = row \/ Put(row, digest).digest = digest
BY DEF Put, Row

LEMMA StoreKeeps ==
  ASSUME Inv, NEW id \in Ids, NEW digest \in Seq(Nat), Store(id, digest),
         id = "core" => digest \in (1 .. Now) \X (1 .. Now)
  PROVE  artifacts' \in Rows /\ CoreBy(artifacts', Now)
<1>1. artifacts \in [Ids -> Row] /\ CoreBy(artifacts, Now)
  BY DEF Inv, TypeInv, Rows
<1>2. /\ Put(artifacts[id], digest) \in Row
      /\ Put(artifacts[id], digest) = artifacts[id] \/ Put(artifacts[id], digest).digest = digest
  BY <1>1, PutRow
<1>3. artifacts' = [artifacts EXCEPT ![id] = Put(artifacts[id], digest)]
  BY DEF Store
<1>4. artifacts' \in Rows
  BY <1>1, <1>2, <1>3 DEF Rows
<1>5. "core" \in Ids
  BY DEF Ids
<1>6. CASE id = "core"
  BY <1>1, <1>2, <1>3, <1>4, <1>5, <1>6 DEF CoreBy
<1>7. CASE id # "core"
  BY <1>1, <1>3, <1>4, <1>5, <1>7 DEF CoreBy
<1> QED
  BY <1>4, <1>6, <1>7

-----------------------------------------------------------------------------
(* A build, step by step.                                                  *)

LEMMA SameArtifacts ==
  ASSUME Inv, UNCHANGED artifacts PROVE artifacts' \in Rows /\ CoreBy(artifacts', Now)
BY DEF Inv, TypeInv, CoreBy

LEMMA ProjectionKeeps ==
  ASSUME Inv, NEW b \in Builders, ReadProjection(b) \/ PackCore(b) \/ ReadForIndex(b) PROVE Inv'
<1>1. task[b] \in BuildTask /\ BuildOK(task[b])
  BY IsBuild DEF ReadProjection, PackCore, ReadForIndex, At
<1>2. PICK t \in BuildTask : t = task[b]
  BY <1>1
<1>3. t.v \in Nat /\ \A d \in t.committed : landed[d] \in 1 .. Now
  BY <1>1, <1>2, Heads DEF BuildOK, BuildTask
<1>4. Now \in Nat \ {0}
  BY Heads
<1>5. CASE ReadProjection(b)
  <2> DEFINE x == [t EXCEPT !.at = "atomic", !.v = Now, !.todo = Active(Now)]
  <2>1. x \in BuildTask /\ x.at = "atomic" /\ x.v = Now /\ x.committed = t.committed /\ x.op = t.op
    BY <1>4 DEF BuildTask, Labels, Active
  <2>2. BuildOK(x)
    BY <1>1, <1>3, <1>4, <2>1 DEF BuildOK, HasViews, HasIndex
  <2>3. task' = [task EXCEPT ![b] = x] /\ UNCHANGED <<ledger, landed, completed, artifacts>>
    BY <1>2, <1>5 DEF ReadProjection, Become
  <2> QED
    BY <2>1, <2>2, <2>3, SameArtifacts, BuildStep
<1>6. CASE PackCore(b)
  <2> DEFINE x == [t EXCEPT !.at = "core", !.v2 = Now]
  <2>1. t.at = "scenarios"
    BY <1>2, <1>6 DEF PackCore, At
  <2>2. /\ x \in BuildTask /\ x.at = "core" /\ x.v = t.v /\ x.v2 = Now /\ x.committed = t.committed
        /\ x.op = t.op
    BY <1>4 DEF BuildTask, Labels
  <2>3. BuildOK(x)
    BY <1>1, <1>2, <1>3, <1>4, <2>1, <2>2 DEF BuildOK, HasViews, HasIndex
  <2>4. task' = [task EXCEPT ![b] = x] /\ UNCHANGED <<ledger, landed, completed, artifacts>>
    BY <1>2, <1>6 DEF PackCore, Become
  <2> QED
    BY <2>2, <2>3, <2>4, SameArtifacts, BuildStep
<1>7. CASE ReadForIndex(b)
  <2> DEFINE x == [t EXCEPT !.at = "documents", !.v2 = Now]
  <2>1. t.at = "index"
    BY <1>2, <1>7 DEF ReadForIndex, At
  <2>2. /\ x \in BuildTask /\ x.at = "documents" /\ x.v = t.v /\ x.v2 = Now
        /\ x.committed = t.committed /\ x.op = t.op
    BY <1>4 DEF BuildTask, Labels
  <2>3. BuildOK(x)
    BY <1>1, <1>2, <1>3, <1>4, <2>1, <2>2 DEF BuildOK, HasViews, HasIndex
  <2>4. task' = [task EXCEPT ![b] = x] /\ UNCHANGED <<ledger, landed, completed, artifacts>>
    BY <1>2, <1>7 DEF ReadForIndex, Become
  <2> QED
    BY <2>2, <2>3, <2>4, SameArtifacts, BuildStep
<1> QED
  BY <1>5, <1>6, <1>7

\* A build moves on and keeps what it knows.
LEMMA MovedOn ==
  ASSUME NEW t \in BuildTask, NEW label \in Labels \ {"drafts", "core"}, BuildOK(t),
         HasViews([at |-> label]) => HasViews(t),
         HasIndex([at |-> label]) => HasIndex(t)
  PROVE  [t EXCEPT !.at = label] \in BuildTask /\ BuildOK([t EXCEPT !.at = label])
<1> DEFINE x == [t EXCEPT !.at = label]
<1>1. /\ x \in BuildTask /\ x.at = label /\ x.v = t.v /\ x.v2 = t.v2 /\ x.committed = t.committed
      /\ x.op = t.op
  BY DEF BuildTask
<1> QED
  BY <1>1 DEF BuildOK, HasViews, HasIndex

LEMMA StoringKeeps ==
  ASSUME Inv, NEW b \in Builders, BuildAtomic(b) \/ BuildScenario(b) \/ BuildCore(b) PROVE Inv'
<1>1. task[b] \in BuildTask /\ BuildOK(task[b])
  BY IsBuild DEF BuildAtomic, BuildScenario, BuildCore, At
<1>2. PICK t \in BuildTask : t = task[b]
  BY <1>1
<1>3. t.v \in 1 .. Now /\ Now \in Nat
  BY <1>1, <1>2, Heads DEF BuildOK, HasViews, BuildAtomic, BuildScenario, BuildCore, At
<1>4. CASE BuildAtomic(b)
  <2>1. <<t.v>> \in Seq(Nat) /\ "atomic" \in Ids
    BY <1>3 DEF Ids
  <2>2. artifacts' \in Rows /\ CoreBy(artifacts', Now)
    BY <1>2, <1>4, <2>1, StoreKeeps DEF BuildAtomic
  <2>3. [t EXCEPT !.at = "scenarios"] \in BuildTask /\ BuildOK([t EXCEPT !.at = "scenarios"])
    BY <1>1, <1>2, <1>4, MovedOn DEF HasViews, HasIndex, Labels, BuildAtomic, At
  <2>4. task' = [task EXCEPT ![b] = [t EXCEPT !.at = "scenarios"]] /\ UNCHANGED <<ledger, landed, completed>>
    BY <1>2, <1>4 DEF BuildAtomic, Goto, Become
  <2> QED
    BY <2>2, <2>3, <2>4, BuildStep
<1>5. CASE BuildScenario(b)
  <2>1. PICK s \in t.todo : /\ Store(s, <<ledger[t.v][s]>>)
                            /\ task' = [task EXCEPT ![b] = [t EXCEPT !.todo = t.todo \ {s}]]
    BY <1>2, <1>5 DEF BuildScenario, Become
  <2>2. s \in Scenarios /\ s # "core" /\ s \in Ids
    BY ViewsAssumption DEF BuildTask, Ids
  <2>3. <<ledger[t.v][s]>> \in Seq(Nat)
    <3>1. ledger[t.v] \in [Scenarios -> Nat]
      BY <1>3 DEF Inv, TypeInv, Now
    <3> QED
      BY <2>2, <3>1
  <2>4. artifacts' \in Rows /\ CoreBy(artifacts', Now)
    BY <2>1, <2>2, <2>3, StoreKeeps
  <2> DEFINE x == [t EXCEPT !.todo = t.todo \ {s}]
  <2>5. /\ x \in BuildTask /\ x.at = t.at /\ x.v = t.v /\ x.v2 = t.v2 /\ x.committed = t.committed
        /\ x.op = t.op
    BY DEF BuildTask, Labels
  <2>6. BuildOK(x)
    BY <1>1, <1>2, <2>5 DEF BuildOK, HasViews, HasIndex
  <2> QED
    BY <1>5, <2>1, <2>4, <2>5, <2>6, BuildStep DEF BuildScenario
<1>6. CASE BuildCore(b)
  <2>1. t.at = "core" /\ t.v2 \in 1 .. Now
    BY <1>1, <1>2, <1>6 DEF BuildCore, At, BuildOK
  <2>2. <<t.v, t.v2>> \in Seq(Nat) /\ <<t.v, t.v2>> \in (1 .. Now) \X (1 .. Now) /\ "core" \in Ids
    BY <1>3, <2>1 DEF Ids
  <2>3. artifacts' \in Rows /\ CoreBy(artifacts', Now)
    BY <1>2, <1>6, <2>2, StoreKeeps DEF BuildCore
  <2>4. [t EXCEPT !.at = "list"] \in BuildTask /\ BuildOK([t EXCEPT !.at = "list"])
    BY <1>1, <1>2, <2>1, MovedOn DEF HasViews, HasIndex, Labels
  <2>5. task' = [task EXCEPT ![b] = [t EXCEPT !.at = "list"]] /\ UNCHANGED <<ledger, landed, completed>>
    BY <1>2, <1>6 DEF BuildCore, Goto, Become
  <2> QED
    BY <2>3, <2>4, <2>5, BuildStep
<1> QED
  BY <1>4, <1>5, <1>6

LEMMA StaleKeeps ==
  ASSUME Inv, NEW b \in Builders, ListStale(b) \/ MarkStale(b) PROVE Inv'
<1>1. task[b] \in BuildTask /\ BuildOK(task[b])
  BY IsBuild DEF ListStale, MarkStale, At
<1>2. PICK t \in BuildTask : t = task[b]
  BY <1>1
<1>3. CASE ListStale(b)
  <2> DEFINE stale == {id \in Ids \ ({"atomic", "core"} \cup Active(t.v)) : artifacts[id].status = "READY"}
             x == [t EXCEPT !.at = "mark", !.stale = stale]
  <2>1. t.at = "list"
    BY <1>2, <1>3 DEF ListStale, At
  <2>2. /\ x \in BuildTask /\ x.at = "mark" /\ x.v = t.v /\ x.v2 = t.v2 /\ x.committed = t.committed
        /\ x.op = t.op
    BY DEF BuildTask, Labels
  <2>3. BuildOK(x)
    BY <1>1, <1>2, <2>1, <2>2 DEF BuildOK, HasViews, HasIndex
  <2>4. task' = [task EXCEPT ![b] = x] /\ UNCHANGED <<ledger, landed, completed, artifacts>>
    BY <1>2, <1>3 DEF ListStale, Become
  <2> QED
    BY <2>2, <2>3, <2>4, SameArtifacts, BuildStep
<1>4. CASE MarkStale(b)
  <2>1. t.at = "mark" /\ After(t.op, "read") = "index"
    BY <1>2, <1>4, Afters DEF MarkStale, At, BuildTask
  <2>2. [t EXCEPT !.at = "index"] \in BuildTask /\ BuildOK([t EXCEPT !.at = "index"])
    BY <1>1, <1>2, <2>1, MovedOn DEF HasViews, HasIndex, Labels
  <2>3. task' = [task EXCEPT ![b] = [t EXCEPT !.at = "index"]] /\ UNCHANGED <<ledger, landed, completed>>
    BY <1>2, <1>4, <2>1 DEF MarkStale, Goto, Become
  <2>4. /\ artifacts \in [Ids -> Row]
        /\ artifacts' = [id \in Ids |-> IF id \in t.stale THEN [artifacts[id] EXCEPT !.status = "STALE"]
                                        ELSE artifacts[id]]
    BY <1>2, <1>4 DEF MarkStale, Inv, TypeInv, Rows
  <2>5. \A id \in t.stale : id \in Ids
    BY DEF BuildTask, Labels
  <2>6. \A row \in Row : /\ [row EXCEPT !.status = "STALE"] \in Row
                          /\ [row EXCEPT !.status = "STALE"].status = "STALE"
    BY DEF Row
  <2>7. artifacts' \in Rows
    BY <2>4, <2>6 DEF Rows
  <2>8. CoreBy(artifacts', Now)
    <3>1. "core" \in Ids /\ CoreBy(artifacts, Now)
      BY DEF Ids, Inv
    <3> QED
      BY <2>4, <2>6, <3>1 DEF CoreBy
  <2> QED
    BY <2>2, <2>3, <2>7, <2>8, BuildStep
<1> QED
  BY <1>3, <1>4

LEMMA IndexKeeps ==
  ASSUME Inv, NEW b \in Builders, ReplaceDocuments(b) \/ ReplaceLinks(b) \/ ReplaceCode(b) PROVE Inv'
<1>1. task[b] \in BuildTask /\ BuildOK(task[b])
  BY IsBuild DEF ReplaceDocuments, ReplaceLinks, ReplaceCode, ReplacePart, At
<1>2. PICK t \in BuildTask : t = task[b]
  BY <1>1
<1>3. PICK label \in {"links", "code", "audit", "done"} :
        task' = [task EXCEPT ![b] = [t EXCEPT !.at = label]]
  BY <1>2, Afters DEF ReplaceDocuments, ReplaceLinks, ReplaceCode, ReplacePart, Goto, Become, BuildTask
<1>4. t.at \in {"documents", "links", "code"} /\ UNCHANGED <<ledger, landed, completed, artifacts>>
  BY <1>2 DEF ReplaceDocuments, ReplaceLinks, ReplaceCode, ReplacePart, At
<1>5. [t EXCEPT !.at = label] \in BuildTask /\ BuildOK([t EXCEPT !.at = label])
  BY <1>1, <1>2, <1>4, MovedOn DEF HasViews, HasIndex, Labels
<1> QED
  BY <1>3, <1>4, <1>5, SameArtifacts, BuildStep

-----------------------------------------------------------------------------
(* Steps that start a call, or move the ledger: others build alone no more. *)

LEMMA OthersKeep ==
  ASSUME Inv, TypeInv', Grows, UNCHANGED <<artifacts, completed>>,
         NEW B, \A c \in B \cap Builders : TaskOK(task[c])',
         \A c \in Builders \ B : task'[c] \in {task[c], Alone(task)[c]}
  PROVE  Inv'
<1>1. TypeInv /\ \A c \in Builders : TaskOK(task[c]) /\ TaskOK(Alone(task)[c])
  BY AloneKeeps DEF Inv
<1>2. ASSUME NEW c \in Builders PROVE TaskOK(task[c])'
  <2>1. CASE c \in B
    BY <2>1
  <2>2. CASE c \notin B
    <3>1. PICK y : y = task'[c]
      OBVIOUS
    <3>2. TaskOK(y)
      BY <1>1, <2>2, <3>1
    <3>3. TaskOK(y)'
      BY <1>1, <3>2, TaskKeeps
    <3> QED
      BY <3>1, <3>3
  <2> QED
    BY <2>1, <2>2
<1>3. CoreBy(artifacts, Now)'
  <2>1. CoreBy(artifacts, Now) /\ Now \in Nat /\ Now' \in Nat /\ Now <= Now'
    BY DEF Inv, TypeInv, Grows, Now
  <2> QED
    BY <2>1 DEF CoreBy
<1>4. HandoffCoversDrafts'
  <2> SUFFICES ASSUME NEW r \in completed, NEW d \in r.committed
               PROVE  landed'[d] \in 1 .. r.views /\ landed'[d] \in 1 .. r.index
    BY DEF HandoffCoversDrafts
  <2>1. landed[d] \in 1 .. r.views /\ landed[d] \in 1 .. r.index /\ d \in Drafts
    BY DEF Inv, HandoffCoversDrafts, TypeInv
  <2>2. landed'[d] = landed[d]
    BY <2>1 DEF Grows
  <2> QED
    BY <2>1, <2>2
<1> QED
  BY <1>2, <1>3, <1>4 DEF Inv

LEMMA BeginKeeps ==
  ASSUME Inv, NEW b \in Builders, NEW op \in {"consolidate", "cold"}, Begin(b, op) PROVE Inv'
<1> DEFINE others == {c \in Builders : c # b /\ Building(c)}
           begun == [at |-> Phases(op)[1], op |-> op, alone |-> others = {}, todo |-> {},
                     drafts |-> IF op = "cold" THEN Drafts ELSE {}, v |-> 0, v2 |-> 0, stale |-> {},
                     committed |-> {}]
           rest == IF others = {} THEN task ELSE Alone(task)
<1>1. task' = [rest EXCEPT ![b] = begun] /\ UNCHANGED <<ledger, landed, artifacts, completed>>
  BY DEF Begin
<1>2. Phases(op)[1] = IF op = "cold" THEN "drafts" ELSE "read"
  BY DEF Phases
<1>3. begun \in BuildTask
  <2>1. (others = {}) \in BOOLEAN /\ Phases(op)[1] \in Labels
    BY <1>2 DEF Labels
  <2> HIDE DEF others
  <2> QED
    BY <2>1 DEF BuildTask
<1>4. PICK x \in BuildTask : x = begun
  BY <1>3
<1>5. TaskOK(x)'
  <2>1. x.at = Phases(op)[1] /\ x.op = op /\ x.committed = {}
    BY <1>4
  <2>2. BuildOK(x)'
    BY <1>2, <2>1 DEF BuildOK, HasViews, HasIndex
  <2> QED
    BY <2>2, Kinds DEF TaskOK
<1>6. /\ rest \in [Builders -> IdleTask \cup BuildTask \cup VerifyTask]
      /\ \A c \in Builders : rest[c] \in {task[c], Alone(task)[c]}
  BY AloneKeeps DEF Inv, TypeInv
<1>7. task' = [rest EXCEPT ![b] = x]
  BY <1>1, <1>4
<1> HIDE DEF rest, begun
<1>8. /\ task' \in [Builders -> IdleTask \cup BuildTask \cup VerifyTask]
      /\ task'[b] = x
      /\ \A c \in Builders \ {b} : task'[c] \in {task[c], Alone(task)[c]}
  BY <1>6, <1>7
<1>9. TypeInv'
  BY <1>1, <1>8 DEF Inv, TypeInv, Now
<1>10. Grows
  BY <1>1, SameGrows DEF Inv
<1>11. \A c \in {b} \cap Builders : TaskOK(task[c])'
  BY <1>5, <1>8
<1> QED
  BY <1>1, <1>8, <1>9, <1>10, <1>11, OthersKeep

LEMMA TouchedType ==
  ASSUME Inv, NEW s \in Scenarios
  PROVE  /\ ledger[Now] \in [Scenarios -> Nat]
         /\ Touched(s) \in [Scenarios -> Nat]
         /\ Retired(s) \in [Scenarios -> Nat]
<1>1. ledger[Now] \in [Scenarios -> Nat] /\ Now + 1 \in Nat
  BY Heads DEF Inv, TypeInv, Now
<1> QED
  BY <1>1 DEF Touched, Retired

LEMMA OthersCommitKeeps ==
  ASSUME Inv, NEW w \in [Scenarios -> Nat], OthersCommit(w) PROVE Inv'
<1>1. ledger' = Append(ledger, w) /\ task' = Alone(task) /\ UNCHANGED <<landed, artifacts, completed>>
  BY DEF OthersCommit, Extend
<1>2. Grows /\ Now' = Now + 1 /\ ledger' \in Seq([Scenarios -> Nat]) /\ ledger' # <<>>
  BY <1>1, ExtendGrows DEF Inv
<1>3. task' \in [Builders -> IdleTask \cup BuildTask \cup VerifyTask]
  BY <1>1, AloneKeeps DEF Inv, Alone
<1>4. landed' \in [Drafts -> 0 .. Now']
  BY <1>1, <1>2, Heads DEF Inv, TypeInv
<1>5. TypeInv'
  BY <1>1, <1>2, <1>3, <1>4 DEF Inv, TypeInv
<1>6. \A c \in {} \cap Builders : TaskOK(task[c])'
  OBVIOUS
<1>7. \A c \in Builders \ {} : task'[c] \in {task[c], Alone(task)[c]}
  BY <1>1
<1> QED
  BY <1>1, <1>2, <1>5, <1>6, <1>7, OthersKeep

\* A draft that lands does so at the new head, and its cold start has not read
\* a projection yet.
LEMMA CommitDraftKeeps ==
  ASSUME Inv, NEW b \in Builders, NEW ok \in BOOLEAN, CommitDraft(b, ok) PROVE Inv'
<1>1. task[b] \in BuildTask /\ BuildOK(task[b])
  BY IsBuild DEF CommitDraft, At
<1>2. PICK t \in BuildTask : t = task[b]
  BY <1>1
<1>3. t.at = "drafts" /\ t.op = "cold" /\ BuildOK(t)
  BY <1>1, <1>2 DEF CommitDraft, At, BuildOK
<1>4. PICK d \in t.drafts :
        LET lands == ok /\ landed[d] = 0
            x == [t EXCEPT !.drafts = t.drafts \ {d},
                           !.committed = IF lands THEN t.committed \cup {d} ELSE t.committed]
        IN /\ landed' = IF lands THEN [landed EXCEPT ![d] = Now + 1] ELSE landed
           /\ IF lands THEN \E s \in Scenarios : Extend(Touched(s)) ELSE UNCHANGED ledger
           /\ task' = [(IF lands THEN Alone(task) ELSE task) EXCEPT ![b] = x]
  BY <1>2 DEF CommitDraft
<1>5. UNCHANGED <<artifacts, completed>> /\ d \in Drafts
  BY DEF CommitDraft, BuildTask
<1>6. CASE ok /\ landed[d] = 0
  <2> DEFINE x == [t EXCEPT !.drafts = t.drafts \ {d}, !.committed = t.committed \cup {d}]
  <2>1. PICK s \in Scenarios : ledger' = Append(ledger, Touched(s))
    BY <1>4, <1>6 DEF Extend
  <2>2. landed' = [landed EXCEPT ![d] = Now + 1] /\ task' = [Alone(task) EXCEPT ![b] = x]
    BY <1>4, <1>6
  <2>3. landed \in [Drafts -> 0 .. Now] /\ Now \in Nat
    BY Heads DEF Inv, TypeInv
  <2>4. \A e \in Drafts : landed[e] # 0 => landed'[e] = landed[e]
    BY <1>6, <2>2, <2>3
  <2>5. Touched(s) \in [Scenarios -> Nat]
    BY TouchedType
  <2>6. Grows /\ Now' = Now + 1 /\ ledger' \in Seq([Scenarios -> Nat]) /\ ledger' # <<>>
    BY <2>1, <2>4, <2>5, ExtendGrows DEF Inv
  <2>7. /\ x \in BuildTask /\ x.at = "drafts" /\ x.op = "cold" /\ x.committed = t.committed \cup {d}
    BY <1>3, <1>5 DEF BuildTask
  <2> HIDE DEF x
  <2>8. /\ task' \in [Builders -> IdleTask \cup BuildTask \cup VerifyTask]
        /\ task'[b] = x /\ \A c \in Builders \ {b} : task'[c] \in {task[c], Alone(task)[c]}
    BY <2>2, <2>7, AloneKeeps DEF Inv, TypeInv
  <2>9. landed' \in [Drafts -> 0 .. Now']
    BY <1>5, <2>2, <2>3, <2>6
  <2>10. TypeInv'
    BY <1>5, <2>6, <2>8, <2>9 DEF Inv, TypeInv
  <2>11. \A e \in x.committed : landed'[e] # 0
    <3>1. \A e \in t.committed : e \in Drafts /\ landed[e] # 0
      BY <1>3 DEF BuildTask, BuildOK
    <3>2. landed'[d] = Now + 1 /\ Now + 1 # 0
      BY <1>5, <2>2, <2>3
    <3> QED
      BY <2>4, <2>7, <3>1, <3>2
  <2>12. TaskOK(x)'
    BY <2>7, <2>11, Kinds DEF TaskOK, BuildOK, HasViews, HasIndex
  <2>13. \A c \in {b} \cap Builders : TaskOK(task[c])'
    BY <2>8, <2>12
  <2> QED
    BY <1>5, <2>6, <2>8, <2>10, <2>13, OthersKeep
<1>7. CASE ~(ok /\ landed[d] = 0)
  <2> DEFINE x == [t EXCEPT !.drafts = t.drafts \ {d}, !.committed = t.committed]
  <2>1. UNCHANGED <<ledger, landed>> /\ task' = [task EXCEPT ![b] = x]
    BY <1>4, <1>7
  <2>2. /\ x \in BuildTask /\ x.at = t.at /\ x.op = t.op /\ x.v = t.v /\ x.v2 = t.v2
        /\ x.committed = t.committed
    BY DEF BuildTask
  <2>3. BuildOK(x)
    BY <1>3, <2>2 DEF BuildOK, HasViews, HasIndex
  <2> QED
    BY <1>5, <2>1, <2>2, <2>3, SameArtifacts, BuildStep
<1> QED
  BY <1>6, <1>7

LEMMA ColdStartKeeps ==
  ASSUME Inv, NEW b \in Builders, BatchDone(b) \/ Complete(b) PROVE Inv'
<1>1. task[b] \in BuildTask /\ BuildOK(task[b])
  BY IsBuild DEF BatchDone, Complete, At
<1>2. PICK t \in BuildTask : t = task[b]
  BY <1>1
<1>3. CASE BatchDone(b)
  <2>1. t.at = "drafts" /\ After(t.op, "drafts") = "read"
    BY <1>1, <1>2, <1>3, Afters DEF BatchDone, At, BuildOK
  <2> DEFINE x == [t EXCEPT !.at = "read"]
  <2>2. x \in BuildTask /\ x.at = "read" /\ x.committed = t.committed
    BY DEF BuildTask, Labels
  <2>3. BuildOK(x)
    BY <1>1, <1>2, <2>2 DEF BuildOK, HasViews, HasIndex
  <2>4. task' = [task EXCEPT ![b] = x] /\ UNCHANGED <<ledger, landed, completed, artifacts>>
    BY <1>2, <1>3, <2>1 DEF BatchDone, Goto, Become
  <2> QED
    BY <2>2, <2>3, <2>4, SameArtifacts, BuildStep
<1>4. CASE Complete(b)
  <2>1. t.at = "audit"
    BY <1>2, <1>4 DEF Complete, At
  <2> DEFINE r == [committed |-> t.committed, views |-> t.v, index |-> t.v2]
             x == [t EXCEPT !.at = "done"]
  <2>2. /\ completed' = completed \cup {r} /\ task' = [task EXCEPT ![b] = x]
        /\ UNCHANGED <<ledger, landed, artifacts>>
    BY <1>2, <1>4 DEF Complete, Goto, Become
  <2>3. r \in [committed : SUBSET Drafts, views : Nat, index : Nat]
    BY DEF BuildTask
  <2>4. \A d \in t.committed : landed[d] \in 1 .. t.v /\ landed[d] \in 1 .. t.v2
    <3>1. \A d \in t.committed : landed[d] \in 0 .. Now /\ landed[d] # 0 /\ landed[d] <= t.v /\ landed[d] <= t.v2
      BY <1>1, <1>2, <2>1, Heads DEF BuildOK, BuildTask, HasViews, HasIndex
    <3> QED
      BY <3>1, Heads DEF BuildTask
  <2>5. HandoffCoversDrafts'
    BY <2>2, <2>4 DEF Inv, HandoffCoversDrafts
  <2>6. x \in BuildTask /\ BuildOK(x)
    BY <1>1, <1>2, <2>1, MovedOn DEF HasViews, HasIndex, Labels
  <2>7. /\ task' \in [Builders -> IdleTask \cup BuildTask \cup VerifyTask]
        /\ task'[b] = x /\ \A c \in Builders \ {b} : task'[c] = task[c]
    BY <2>2, <2>6 DEF Inv, TypeInv
  <2>8. TypeInv'
    BY <2>2, <2>3, <2>7 DEF Inv, TypeInv, Now
  <2>9. Grows
    BY <2>2, SameGrows DEF Inv
  <2>10. ASSUME NEW c \in Builders PROVE TaskOK(task[c])'
    <3>1. PICK y : y = task'[c]
      OBVIOUS
    <3>2. TaskOK(y)
      BY <2>6, <2>7, <3>1, Kinds DEF Inv, TaskOK
    <3>3. TaskOK(y)'
      BY <2>8, <2>9, <3>2, TaskKeeps DEF Inv
    <3> QED
      BY <3>1, <3>3
  <2>11. CoreBy(artifacts, Now)'
    BY <2>2 DEF Inv, CoreBy, Now
  <2> QED
    BY <2>5, <2>8, <2>10, <2>11 DEF Inv
<1> QED
  BY <1>3, <1>4

-----------------------------------------------------------------------------
(* A verification, step by step.                                           *)

LEMMA CompareKeeps ==
  ASSUME Inv, NEW b \in Builders, BeginVerify(b) \/ ReadRows(b) \/ RebuildProjection(b) PROVE Inv'
<1>1. Now \in Nat \ {0} /\ artifacts \in Rows /\ CoreBy(artifacts, Now)
  BY Heads DEF Inv, TypeInv
<1>2. CASE BeginVerify(b)
  <2> DEFINE x == [at |-> "rows", op |-> "verify"]
  <2>1. x \in VerifyTask /\ VerifyOK(x)
    BY DEF VerifyTask, VerifyOK
  <2>2. task' = [task EXCEPT ![b] = x] /\ UNCHANGED <<ledger, landed, completed, artifacts>>
    BY <1>2 DEF BeginVerify, Become
  <2> QED
    BY <2>1, <2>2, VerifyStep
<1>3. CASE ReadRows(b)
  <2> DEFINE x == [at |-> "done", op |-> "verify", valid |-> TRUE, checked |-> FALSE]
             y == [at |-> "rebuild", op |-> "verify", rows |-> artifacts, head |-> Now]
  <2>1. x \in VerifyTask /\ VerifyOK(x)
    BY DEF VerifyTask, VerifyOK
  <2>2. y \in VerifyTask /\ y.at = "rebuild" /\ y.rows = artifacts /\ y.head = Now
    BY <1>1 DEF VerifyTask
  <2>3. VerifyOK(y)
    BY <1>1, <2>2 DEF VerifyOK
  <2>4. PICK z \in {x, y} : task' = [task EXCEPT ![b] = z]
    BY <1>3 DEF ReadRows, Become
  <2>5. UNCHANGED <<ledger, landed, completed, artifacts>>
    BY <1>3 DEF ReadRows
  <2> HIDE DEF x, y
  <2>6. z \in VerifyTask /\ VerifyOK(z)
    BY <2>1, <2>2, <2>3
  <2> QED
    BY <2>4, <2>5, <2>6, VerifyStep
<1>4. CASE RebuildProjection(b)
  <2>1. task[b] \in VerifyTask /\ VerifyOK(task[b]) /\ task[b].at = "rebuild"
    BY <1>4, IsVerify DEF RebuildProjection, At
  <2>2. PICK t \in VerifyTask : t = task[b]
    BY <2>1
  <2>3. t.at = "rebuild" /\ t.rows \in Rows /\ t.head \in 1 .. Now /\ CoreBy(t.rows, t.head)
    BY <2>1, <2>2 DEF VerifyTask, VerifyOK
  <2> DEFINE x == [at |-> "repack", op |-> "verify", rows |-> t.rows, head |-> t.head, v |-> Now]
  <2>4. x \in VerifyTask /\ x.at = "repack" /\ x.rows = t.rows /\ x.head = t.head /\ x.v = Now
    BY <1>1, <2>3 DEF VerifyTask
  <2>5. VerifyOK(x)
    BY <1>1, <2>3, <2>4 DEF VerifyOK
  <2>6. task' = [task EXCEPT ![b] = x] /\ UNCHANGED <<ledger, landed, completed, artifacts>>
    BY <1>4, <2>2 DEF RebuildProjection, Become
  <2> QED
    BY <2>4, <2>5, <2>6, VerifyStep
<1> QED
  BY <1>2, <1>3, <1>4

\* The core context tells the two heads it was made at, and those stored when
\* the artifacts were read are no later than that: equality pins both.
LEMMA VerdictKeeps == ASSUME Inv, NEW b \in Builders, RebuildCore(b) PROVE Inv'
<1>1. task[b] \in VerifyTask /\ VerifyOK(task[b]) /\ task[b].at = "repack"
  BY IsVerify DEF RebuildCore, At
<1>2. PICK t \in VerifyTask : t = task[b]
  BY <1>1
<1>3. /\ t.at = "repack" /\ t.rows \in Rows /\ t.head \in 1 .. Now /\ CoreBy(t.rows, t.head)
      /\ t.v \in t.head .. Now /\ Now \in Nat
  BY <1>1, <1>2, Heads DEF VerifyTask, VerifyOK
<1> DEFINE valid == Same(ReadyViews(t.rows), ViewsOf(t.v, Now))
           x == [at |-> "done", op |-> "verify", checked |-> TRUE, rows |-> t.rows, head |-> t.head,
                 valid |-> valid]
<1>4. ASSUME valid PROVE ReadyViews(t.rows) = ViewsOf(t.head, t.head)
  <2>1. ReadyViews(t.rows) = ViewsOf(t.v, Now)
    BY <1>4 DEF Same
  <2>2. "core" \in DOMAIN ViewsOf(t.v, Now) /\ ViewsOf(t.v, Now)["core"] = <<t.v, Now>>
    BY DEF ViewsOf
  <2>3. "core" \in DOMAIN ReadyViews(t.rows) /\ ReadyViews(t.rows)["core"] = <<t.v, Now>>
    BY <2>1, <2>2
  <2>4. t.rows["core"].status = "READY" /\ t.rows["core"].digest = <<t.v, Now>>
    BY <2>3 DEF ReadyViews
  <2>5. <<t.v, Now>> \in (1 .. t.head) \X (1 .. t.head)
    BY <1>3, <2>4 DEF CoreBy
  <2>6. t.v = t.head /\ Now = t.head
    BY <1>3, <2>5
  <2> QED
    BY <2>1, <2>6
<1>5. valid \in BOOLEAN
  BY DEF Same
<1>6. PICK v \in BOOLEAN : v = valid
  BY <1>5
<1> DEFINE y == [at |-> "done", op |-> "verify", checked |-> TRUE, rows |-> t.rows, head |-> t.head,
                 valid |-> v]
<1>7. y \in VerifyTask
  BY <1>3 DEF VerifyTask
<1>8. VerifyOK(y)
  <2>1. /\ y.at = "done" /\ y.checked /\ y.rows = t.rows /\ y.head = t.head /\ y.valid = v
    OBVIOUS
  <2>2. y.valid => ReadyViews(t.rows) = ViewsOf(t.head, t.head)
    BY <1>4, <1>6
  <2> HIDE DEF y, valid
  <2> QED
    BY <1>3, <2>1, <2>2 DEF VerifyOK
<1>9. task' = [task EXCEPT ![b] = y] /\ UNCHANGED <<ledger, landed, completed, artifacts>>
  BY <1>2, <1>6 DEF RebuildCore, Become
<1> QED
  BY <1>7, <1>8, <1>9, VerifyStep

LEMMA EndKeeps == ASSUME Inv, NEW b \in Builders, Return(b) \/ Crash(b) PROVE Inv'
<1>1. Idle \in IdleTask
  BY DEF Idle, IdleTask
<1>2. TaskOK(Idle)
  BY <1>1, Kinds DEF TaskOK
<1>3. task' = [task EXCEPT ![b] = Idle] /\ UNCHANGED <<ledger, landed, completed, artifacts>>
  BY DEF Return, Crash, Become
<1> QED
  BY <1>1, <1>2, <1>3, SameArtifacts, StepKeeps

-----------------------------------------------------------------------------
(* The theorems.                                                           *)

LEMMA InitInv == Init => Inv
<1> SUFFICES ASSUME Init PROVE Inv
  OBVIOUS
<1>1. \A b \in Builders : task[b] \in IdleTask
  BY DEF Init, Idle, IdleTask
<1>2. [s \in Scenarios |-> 0] \in [Scenarios -> Nat]
  OBVIOUS
<1>3. ledger \in Seq([Scenarios -> Nat]) /\ ledger # <<>> /\ Now = 1
  BY <1>2 DEF Init, Now
<1>4. TypeInv
  BY <1>1, <1>3 DEF Init, TypeInv, Rows, Row, NoArtifact
<1>5. CoreBy(artifacts, Now)
  BY DEF Init, CoreBy, NoArtifact, Ids
<1>6. \A b \in Builders : TaskOK(task[b])
  BY <1>1, Kinds DEF TaskOK
<1>7. HandoffCoversDrafts
  BY DEF Init, HandoffCoversDrafts
<1> QED
  BY <1>4, <1>5, <1>6, <1>7 DEF Inv

LEMMA NextInv == Inv /\ [Next]_vars => Inv'
<1> SUFFICES ASSUME Inv, [Next]_vars PROVE Inv'
  OBVIOUS
<1>1. ASSUME NEW b \in Builders, NEW op \in {"consolidate", "cold"}, Begin(b, op) PROVE Inv'
  BY <1>1, BeginKeeps
<1>2. ASSUME NEW b \in Builders, BeginVerify(b) \/ Step(b) \/ CommitDraft(b, FALSE) \/ Crash(b) PROVE Inv'
  <2>1. CASE ReadProjection(b) \/ PackCore(b) \/ ReadForIndex(b)
    BY <2>1, ProjectionKeeps
  <2>2. CASE BuildAtomic(b) \/ BuildScenario(b) \/ BuildCore(b)
    BY <2>2, StoringKeeps
  <2>3. CASE ListStale(b) \/ MarkStale(b)
    BY <2>3, StaleKeeps
  <2>4. CASE ReplaceDocuments(b) \/ ReplaceLinks(b) \/ ReplaceCode(b)
    BY <2>4, IndexKeeps
  <2>5. CASE CommitDraft(b, TRUE) \/ CommitDraft(b, FALSE)
    BY <2>5, CommitDraftKeeps
  <2>6. CASE BatchDone(b) \/ Complete(b)
    BY <2>6, ColdStartKeeps
  <2>7. CASE BeginVerify(b) \/ ReadRows(b) \/ RebuildProjection(b)
    BY <2>7, CompareKeeps
  <2>8. CASE RebuildCore(b)
    BY <2>8, VerdictKeeps
  <2>9. CASE Return(b) \/ Crash(b)
    BY <2>9, EndKeeps
  <2> QED
    BY <1>2, <2>1, <2>2, <2>3, <2>4, <2>5, <2>6, <2>7, <2>8, <2>9 DEF Step
<1>3. ASSUME NEW s \in Scenarios, OthersCommit(Touched(s)) \/ OthersCommit(Retired(s)) PROVE Inv'
  BY <1>3, TouchedType, OthersCommitKeeps
<1>4. CASE OthersCommit(ledger[Now])
  <2>1. ledger[Now] \in [Scenarios -> Nat]
    BY Heads DEF Inv, TypeInv, Now
  <2> QED
    BY <1>4, <2>1, OthersCommitKeeps
<1>5. CASE UNCHANGED vars
  <2>1. TypeInv' /\ UNCHANGED <<ledger, landed, artifacts, completed, task>>
    BY <1>5 DEF vars, Inv, TypeInv, Now
  <2>2. Grows
    BY <2>1, SameGrows DEF Inv
  <2>3. \A c \in {} \cap Builders : TaskOK(task[c])'
    OBVIOUS
  <2> QED
    BY <2>1, <2>2, <2>3, OthersKeep
<1>6. \A s \in Active(Now) : s \in Scenarios
  BY DEF Active
<1> QED
  BY <1>1, <1>2, <1>3, <1>4, <1>5, <1>6 DEF Next

\* The invariant the reports rest on: a core context fits the heads of one
\* ledger, and a draft that landed is covered by every projection read after it.
THEOREM Invariance == Spec => []Inv
BY InitInv, NextInv, PTL DEF Spec

\* The views and the index a cold start reports were made after every draft it
\* reports committed, for any number of builds, cold starts, verifications,
\* commits and deaths in between.
THEOREM ReportsAreCovered == Spec => []HandoffCoversDrafts
BY Invariance, PTL DEF Inv

\* A verification reads the artifacts, then projects, then packs; whatever is
\* built and committed between its reads, what it calls valid was exact.
THEOREM ValidIsExact == Spec => []ValidWasExact
<1>1. Inv => ValidWasExact
  <2> SUFFICES ASSUME Inv, NEW b \in Builders, At(b, "done"), task[b].op = "verify",
                      task[b].valid, task[b].checked
               PROVE  ReadyViews(task[b].rows) = ViewsOf(task[b].head, task[b].head)
    BY DEF ValidWasExact
  <2>1. task[b] \in IdleTask \cup BuildTask \cup VerifyTask /\ TaskOK(task[b])
    BY DEF Inv, TypeInv
  <2>2. task[b] \in VerifyTask
    BY <2>1, Kinds DEF At
  <2> QED
    BY <2>1, <2>2 DEF TaskOK, VerifyOK, At
<1> QED
  BY <1>1, Invariance, PTL

-----------------------------------------------------------------------------
(* What a build that was never disturbed has repaired.                     *)

\* Versions of records are the heads that made them: a record that comes back
\* never has an older version again.
VersionsGrow ==
  \A s \in Scenarios : \A h \in 1 .. Now :
    /\ ledger[h][s] <= h
    /\ \A g \in 1 .. h : ledger[h][s] \in {0, ledger[g][s]} \/ ledger[h][s] > g

\* Rows stay, and only those of scenarios become stale.
FullRow == [status : {"READY", "STALE"}, digest : Seq(Nat)]
RowKept(id, row, now) ==
  row # NoArtifact =>
    /\ row \in FullRow
    /\ id \in {"atomic", "core"} => row.status = "READY"
    /\ id \in Scenarios => \E k \in 1 .. now : row.digest = <<k>>
RowsKept == \A id \in Ids : RowKept(id, artifacts[id], Now)

\* What a build has still to store, and what it will mark, are of its projection.
WorkOK(t) ==
  /\ HasViews(t) => t.todo \subseteq Active(t.v)
  /\ t.at \notin {"atomic", "scenarios"} => t.todo = {}
  /\ t.at = "mark" => \A id \in t.stale : id \in Scenarios \ Active(t.v) /\ artifacts[id] # NoArtifact

\* Before any builds overlap, no current view is stale: what a build marks is
\* older than its projection, in which the records are gone.
FreshRow(s, row, world) == row.status = "STALE" => row.digest # <<world[s]>>
NotAfter(row, v) == row # NoArtifact => row.digest[1] <= v
NotBuried ==
  ~overlapped =>
    /\ \A b, c \in Builders : Building(b) /\ Building(c) => b = c
    /\ \A s \in Scenarios : FreshRow(s, artifacts[s], ledger[Now])
    /\ \A b \in Builders : Building(b) /\ HasViews(task[b]) =>
         \A s \in Scenarios : NotAfter(artifacts[s], task[b].v)

\* A row as a build at the head leaves it, and as one that overlaps may have
\* buried it.
GoodRow(id, row, world, now, buried) ==
  IF id = "atomic" THEN row = [status |-> "READY", digest |-> <<now>>]
  ELSE IF id = "core" THEN row = [status |-> "READY", digest |-> <<now, now>>]
  ELSE IF world[id] = 0 THEN row.status # "READY"
  ELSE \/ row = [status |-> "READY", digest |-> <<world[id]>>]
       \/ buried /\ row = [status |-> "STALE", digest |-> <<world[id]>>]
Good(id) == GoodRow(id, artifacts[id], ledger[Now], Now, overlapped)
Gone == Scenarios \ Active(Now)
Begun == {"drafts", "read", "atomic"}
Viewing == {"scenarios", "core", "list", "mark"}
\* As far as it has come.
Repaired(t) ==
  /\ HasViews(t) => t.v = Now /\ \A s \in Active(Now) \ t.todo : Good(s)
  /\ t.at = "core" \/ HasIndex(t) => t.v2 = Now
  /\ t.at \notin Begun => Good("atomic")
  /\ t.at \notin Begun \cup {"scenarios", "core"} => Good("core")
  /\ t.at = "mark" => \A id \in Gone : artifacts[id].status = "READY" => id \in t.stale
  /\ t.at \notin Begun \cup Viewing => \A id \in Gone : Good(id)
  /\ t.at \in {"links", "code", "audit", "done"} => index["documents"] = Now
  /\ t.at \in {"code", "audit", "done"} => index["links"] = Now
  /\ t.at \in {"audit", "done"} => index["code"] = Now
Lone(t) == t \in BuildTask /\ t.alone
\* Nobody else builds, unless it has finished: then one that is alone may.
LoneOK(b) ==
  Lone(task[b]) =>
    /\ \A c \in Builders \ {b} : Building(c) => At(b, "done") /\ Lone(task[c])
    /\ Repaired(task[b])

IndexType == index \in [Parts -> Nat] /\ overlapped \in BOOLEAN

RepairInv ==
  /\ IndexType
  /\ VersionsGrow
  /\ RowsKept
  /\ \A b \in Builders : task[b] \in BuildTask => WorkOK(task[b])
  /\ NotBuried
  /\ \A b \in Builders : LoneOK(b)

-----------------------------------------------------------------------------
(* A build that takes a step.                                              *)

\* What was good stays good.
Preserves ==
  /\ \A id \in Ids : Good(id) => Good(id)'
  /\ \A p \in Parts : index[p] = Now => index'[p] = Now

LEMMA DoneStays ==
  ASSUME NEW t \in BuildTask, t.at = "done", Repaired(t), Preserves, UNCHANGED ledger
  PROVE  Repaired(t)'
<1>1. Now' = Now /\ Active(Now)' = Active(Now) /\ Gone' = Gone
  BY DEF Now, Active, Gone
<1>2. /\ \A s \in Active(Now) \cup Gone \cup {"atomic", "core"} : s \in Ids
      /\ {"documents", "links", "code"} \subseteq Parts
  BY DEF Active, Gone, Ids, Parts
<1>3. HasViews(t) /\ ~HasIndex(t)
  BY DEF HasViews, HasIndex
<1>4. t.v = Now /\ \A s \in Active(Now) \ t.todo : Good(s)'
  BY <1>2, <1>3 DEF Repaired, Preserves
<1>5. Good("atomic")' /\ Good("core")' /\ \A id \in Gone : Good(id)'
  BY <1>2 DEF Repaired, Preserves, Begun, Viewing
<1>6. index'["documents"] = Now /\ index'["links"] = Now /\ index'["code"] = Now
  BY <1>2 DEF Repaired, Preserves
<1> QED
  BY <1>1, <1>3, <1>4, <1>5, <1>6 DEF Repaired, HasViews, HasIndex

\* Nobody else is alone unless finished, and what finished builds have repaired
\* the step keeps.
LEMMA LoneStep ==
  ASSUME Inv, RepairInv, NEW b \in Builders, NEW t \in BuildTask, t = task[b], Building(b),
         NEW x \in BuildTask, x.alone = t.alone,
         task' = [task EXCEPT ![b] = x], UNCHANGED ledger,
         t.alone => Preserves /\ Repaired(x)'
  PROVE  \A c \in Builders : LoneOK(c)'
<1>1. task'[b] = x /\ \A c \in Builders \ {b} : task'[c] = task[c]
  BY DEF Inv, TypeInv
<1>2. \A c \in Builders \ {b} : Building(c)' = Building(c)
  BY <1>1 DEF Building, At
<1>3. ~At(b, "done")
  BY DEF Building
<1>4. LoneOK(b)'
  <2> SUFFICES ASSUME x.alone PROVE LoneOK(b)'
    BY <1>1 DEF LoneOK, Lone
  <2>1. \A c \in Builders \ {b} : ~Building(c)
    BY <1>3 DEF RepairInv, LoneOK, Lone
  <2> QED
    BY <1>1, <1>2, <2>1 DEF LoneOK
<1>5. ASSUME NEW c \in Builders \ {b} PROVE LoneOK(c)'
  <2>1. PICK y : y = task[c]
    OBVIOUS
  <2>2. y = task'[c]
    BY <1>1, <2>1
  <2> SUFFICES ASSUME Lone(y) PROVE LoneOK(c)'
    BY <2>2 DEF LoneOK, Lone
  <2>3. At(c, "done") /\ t.alone /\ Repaired(y) /\ y \in BuildTask /\ y.at = "done"
    BY <2>1 DEF RepairInv, LoneOK, Lone, At
  <2>4. Repaired(y)'
    BY <2>3, DoneStays
  <2>5. At(c, "done")'
    BY <2>2, <2>3 DEF At
  <2>6. \A e \in Builders \ {c} : Building(e)' => Lone(task[e])'
    <3>1. Lone(x)
      BY <2>3 DEF Lone
    <3>2. \A e \in Builders \ {b, c} : Building(e) => Lone(task[e])
      BY <2>1 DEF RepairInv, LoneOK
    <3> QED
      BY <1>1, <1>2, <3>1, <3>2 DEF Lone
  <2> QED
    BY <2>2, <2>4, <2>5, <2>6 DEF LoneOK
<1> QED
  BY <1>4, <1>5

LEMMA RepairStep ==
  ASSUME Inv, Inv', RepairInv, NEW b \in Builders, NEW t \in BuildTask, t = task[b], Building(b),
         NEW x \in BuildTask, x.alone = t.alone,
         task' = [task EXCEPT ![b] = x], UNCHANGED <<ledger, overlapped>>, IndexType',
         RowsKept', \A id \in Ids : artifacts[id] # NoArtifact => artifacts'[id] # NoArtifact,
         WorkOK(x)',
         ~overlapped =>
           /\ \A s \in Scenarios : FreshRow(s, artifacts'[s], ledger[Now])
           /\ HasViews(x) => \A s \in Scenarios : NotAfter(artifacts'[s], x.v),
         t.alone => Preserves /\ Repaired(x)'
  PROVE  RepairInv'
<1>1. task'[b] = x /\ \A c \in Builders \ {b} : task'[c] = task[c]
  BY DEF Inv, TypeInv
<1>2. \A c \in Builders \ {b} : Building(c)' = Building(c)
  BY <1>1 DEF Building, At
<1>3. Now' = Now /\ \A v : Active(v)' = Active(v)
  BY DEF Now, Active
<1>4. VersionsGrow'
  BY <1>3 DEF RepairInv, VersionsGrow
<1>5. ASSUME NEW c \in Builders, task'[c] \in BuildTask PROVE WorkOK(task[c])'
  <2>1. PICK y \in BuildTask : y = task'[c]
    BY <1>5
  <2>2. CASE c = b
    BY <1>1, <2>1, <2>2 DEF WorkOK
  <2>3. CASE c # b
    <3>1. WorkOK(y)
      BY <1>1, <2>1, <2>3 DEF RepairInv
    <3>2. \A id \in y.stale : id \in Ids
      BY DEF BuildTask
    <3> QED
      BY <1>3, <2>1, <3>1, <3>2 DEF WorkOK
  <2> QED
    BY <2>2, <2>3
<1>6. NotBuried'
  <2> SUFFICES ASSUME ~overlapped PROVE NotBuried'
    BY DEF NotBuried
  <2>1. \A c \in Builders : Building(c) => c = b
    BY DEF RepairInv, NotBuried
  <2>2. \A c \in Builders : Building(c)' => c = b
    BY <1>2, <2>1
  <2>3. \A s \in Scenarios : FreshRow(s, artifacts[s], ledger[Now])'
    BY <1>3
  <2>4. HasViews(task[b])' => \A s \in Scenarios : NotAfter(artifacts'[s], task'[b].v)
    BY <1>1 DEF HasViews
  <2> QED
    BY <2>2, <2>3, <2>4 DEF NotBuried
<1>7. \A c \in Builders : LoneOK(c)'
  BY LoneStep
<1> QED
  BY <1>4, <1>5, <1>6, <1>7 DEF RepairInv

\* A step that leaves the artifacts as they are.
LEMMA RepairQuiet ==
  ASSUME Inv, Inv', RepairInv, NEW b \in Builders, NEW t \in BuildTask, t = task[b], Building(b),
         NEW x \in BuildTask, x.alone = t.alone,
         task' = [task EXCEPT ![b] = x], UNCHANGED <<ledger, overlapped, artifacts>>, IndexType',
         WorkOK(x),
         HasViews(x) => x.v = Now \/ (HasViews(t) /\ x.v = t.v),
         t.alone => /\ \A p \in Parts : index[p] = Now => index'[p] = Now
                    /\ Repaired(x)'
  PROVE  RepairInv'
<1>1. Now' = Now /\ \A v : Active(v)' = Active(v)
  BY DEF Now, Active
<1>2. RowsKept'
  BY <1>1 DEF RepairInv, RowsKept
<1>3. WorkOK(x)'
  BY <1>1 DEF WorkOK
<1>4. ASSUME ~overlapped
      PROVE  /\ \A s \in Scenarios : FreshRow(s, artifacts'[s], ledger[Now])
             /\ HasViews(x) => \A s \in Scenarios : NotAfter(artifacts'[s], x.v)
  <2>1. \A s \in Scenarios : FreshRow(s, artifacts[s], ledger[Now])
    BY <1>4 DEF RepairInv, NotBuried
  <2>2. HasViews(t) => \A s \in Scenarios : NotAfter(artifacts[s], t.v)
    BY <1>4 DEF RepairInv, NotBuried
  <2>3. \A s \in Scenarios : NotAfter(artifacts[s], Now)
    <3> SUFFICES ASSUME NEW s \in Scenarios, artifacts[s] # NoArtifact PROVE artifacts[s].digest[1] <= Now
      BY DEF NotAfter
    <3>1. RowKept(s, artifacts[s], Now) /\ Now \in Nat
      BY Heads DEF RepairInv, RowsKept, Ids
    <3>2. PICK k \in 1 .. Now : artifacts[s].digest = <<k>>
      BY <3>1 DEF RowKept
    <3> QED
      BY <3>1, <3>2
  <2> QED
    BY <2>1, <2>2, <2>3
<1>5. \A id \in Ids : Good(id) => Good(id)'
  BY <1>1 DEF Good
<1>6. t.alone => Preserves /\ Repaired(x)'
  BY <1>5 DEF Preserves
<1> QED
  BY <1>2, <1>3, <1>4, <1>6, RepairStep

\* Where a build has come from, told label by label.
LEMMA RepairedHere ==
  ASSUME Inv, RepairInv, NEW b \in Builders, NEW t, t = task[b], Lone(t) PROVE Repaired(t)
BY DEF RepairInv, LoneOK

LEMMA ReadProjectionRepairs ==
  ASSUME Inv, Inv', RepairInv, NEW b \in Builders, ReadProjection(b) PROVE RepairInv'
<1>1. PICK t \in BuildTask : t = task[b]
  BY IsBuild DEF ReadProjection, At
<1>2. t.at = "read" /\ UNCHANGED <<ledger, overlapped, artifacts, index>> /\ IndexType'
  BY <1>1 DEF ReadProjection, At, RepairInv, IndexType
<1> DEFINE u == [t EXCEPT !.at = "atomic", !.v = Now, !.todo = Active(Now)]
<1>3. u \in BuildTask /\ u.at = "atomic" /\ u.v = Now /\ u.todo = Active(Now) /\ u.alone = t.alone
  BY Heads DEF BuildTask, Labels, Active
<1>4. PICK x \in BuildTask : x = u
  BY <1>3
<1>5. x.at = "atomic" /\ x.v = Now /\ x.todo = Active(Now) /\ x.alone = t.alone
  BY <1>3, <1>4
<1>6. task' = [task EXCEPT ![b] = x]
  BY <1>1, <1>4 DEF ReadProjection, Become
<1> HIDE DEF u
<1>7. Building(b)
  BY <1>1, <1>2, Kinds DEF Building, At
<1>8. WorkOK(x)
  BY <1>5 DEF WorkOK
<1>9. Now' = Now /\ Active(Now)' = Active(Now)
  BY <1>2 DEF Now, Active
<1>10. Repaired(x)'
  BY <1>5, <1>9 DEF Repaired, HasViews, HasIndex, Begun
<1> QED
  BY <1>1, <1>2, <1>5, <1>6, <1>7, <1>8, <1>10, RepairQuiet

LEMMA PackCoreRepairs ==
  ASSUME Inv, Inv', RepairInv, NEW b \in Builders, PackCore(b) PROVE RepairInv'
<1>1. PICK t \in BuildTask : t = task[b]
  BY IsBuild DEF PackCore, At
<1>2. t.at = "scenarios" /\ t.todo = {} /\ UNCHANGED <<ledger, overlapped, artifacts, index>> /\ IndexType'
  BY <1>1 DEF PackCore, At, RepairInv, IndexType
<1> DEFINE u == [t EXCEPT !.at = "core", !.v2 = Now]
<1>3. u \in BuildTask /\ u.at = "core" /\ u.v = t.v /\ u.v2 = Now /\ u.todo = {} /\ u.alone = t.alone
  BY <1>2, Heads DEF BuildTask, Labels
<1>4. PICK x \in BuildTask : x = u
  BY <1>3
<1>5. x.at = "core" /\ x.v = t.v /\ x.v2 = Now /\ x.todo = {} /\ x.alone = t.alone
  BY <1>3, <1>4
<1>6. task' = [task EXCEPT ![b] = x]
  BY <1>1, <1>4 DEF PackCore, Become
<1> HIDE DEF u
<1>7. Building(b)
  BY <1>1, <1>2, Kinds DEF Building, At
<1>8. WorkOK(x)
  BY <1>5 DEF WorkOK
<1>9. Now' = Now /\ Active(Now)' = Active(Now) /\ \A id : Good(id)' = Good(id)
  BY <1>2 DEF Now, Active, Good
<1>10. ASSUME t.alone PROVE Repaired(x)'
  <2>1. Repaired(t)
    BY <1>1, <1>10, RepairedHere DEF Lone
  <2>2. t.v = Now /\ (\A s \in Active(Now) : Good(s)) /\ Good("atomic")
    BY <1>2, <2>1 DEF Repaired, HasViews, Begun
  <2> QED
    BY <1>5, <1>9, <2>2 DEF Repaired, HasViews, HasIndex, Begun, Viewing
<1>11. HasViews(t)
  BY <1>2 DEF HasViews
<1> QED
  BY <1>1, <1>2, <1>5, <1>6, <1>7, <1>8, <1>10, <1>11, RepairQuiet

LEMMA ListStaleRepairs ==
  ASSUME Inv, Inv', RepairInv, NEW b \in Builders, ListStale(b) PROVE RepairInv'
<1>1. PICK t \in BuildTask : t = task[b]
  BY IsBuild DEF ListStale, At
<1>2. t.at = "list" /\ UNCHANGED <<ledger, overlapped, artifacts, index>> /\ IndexType'
  BY <1>1 DEF ListStale, At, RepairInv, IndexType
<1> DEFINE stale == {id \in Ids \ ({"atomic", "core"} \cup Active(t.v)) : artifacts[id].status = "READY"}
           u == [t EXCEPT !.at = "mark", !.stale = stale]
<1>3. /\ u \in BuildTask /\ u.at = "mark" /\ u.v = t.v /\ u.todo = t.todo /\ u.alone = t.alone
      /\ u.stale = stale
  BY DEF BuildTask, Labels
<1>4. PICK x \in BuildTask : x = u
  BY <1>3
<1>5. /\ x.at = "mark" /\ x.v = t.v /\ x.todo = t.todo /\ x.alone = t.alone /\ x.stale = stale
  BY <1>3, <1>4
<1>6. task' = [task EXCEPT ![b] = x]
  BY <1>1, <1>4 DEF ListStale, Become
<1> HIDE DEF u
<1>7. Building(b)
  BY <1>1, <1>2, Kinds DEF Building, At
<1>8. WorkOK(t)
  BY <1>1 DEF RepairInv
<1>9. WorkOK(x)
  <2>1. \A id \in stale : id \in Scenarios \ Active(t.v) /\ artifacts[id] # NoArtifact
    BY DEF Ids, NoArtifact
  <2> QED
    BY <1>2, <1>5, <1>8, <2>1 DEF WorkOK, HasViews
<1>10. Now' = Now /\ Active(Now)' = Active(Now) /\ Gone' = Gone /\ \A id : Good(id)' = Good(id)
  BY <1>2 DEF Now, Active, Gone, Good
<1>11. ASSUME t.alone PROVE Repaired(x)'
  <2>1. Repaired(t)
    BY <1>1, <1>11, RepairedHere DEF Lone
  <2>2. t.v = Now /\ (\A s \in Active(Now) \ t.todo : Good(s)) /\ Good("atomic") /\ Good("core")
    BY <1>2, <2>1 DEF Repaired, HasViews, Begun
  <2>3. \A id \in Gone : artifacts'[id].status = "READY" => id \in x.stale
    BY <1>2, <1>5, <2>2, ViewsAssumption DEF Gone, Ids
  <2> QED
    BY <1>5, <1>10, <2>2, <2>3 DEF Repaired, HasViews, HasIndex, Begun, Viewing
<1>12. HasViews(t)
  BY <1>2 DEF HasViews
<1> QED
  BY <1>1, <1>2, <1>5, <1>6, <1>7, <1>9, <1>11, <1>12, RepairQuiet

\* Moving on to the index, within it, and to the end.
LEMMA ReadForIndexRepairs ==
  ASSUME Inv, Inv', RepairInv, NEW b \in Builders, ReadForIndex(b) PROVE RepairInv'
<1>1. PICK t \in BuildTask : t = task[b]
  BY IsBuild DEF ReadForIndex, At
<1>2. t.at = "index" /\ UNCHANGED <<ledger, overlapped, artifacts, index>> /\ IndexType'
  BY <1>1 DEF ReadForIndex, At, RepairInv, IndexType
<1> DEFINE u == [t EXCEPT !.at = "documents", !.v2 = Now]
<1>3. /\ u \in BuildTask /\ u.at = "documents" /\ u.v = t.v /\ u.v2 = Now /\ u.todo = t.todo
      /\ u.alone = t.alone
  BY Heads DEF BuildTask, Labels
<1>4. PICK x \in BuildTask : x = u
  BY <1>3
<1>5. /\ x.at = "documents" /\ x.v = t.v /\ x.v2 = Now /\ x.todo = t.todo
      /\ x.alone = t.alone
  BY <1>3, <1>4
<1>6. task' = [task EXCEPT ![b] = x]
  BY <1>1, <1>4 DEF ReadForIndex, Become
<1> HIDE DEF u
<1>7. Building(b)
  BY <1>1, <1>2, Kinds DEF Building, At
<1>8. WorkOK(x)
  <2>1. WorkOK(t)
    BY <1>1 DEF RepairInv
  <2> QED
    BY <1>2, <1>5, <2>1 DEF WorkOK, HasViews
<1>9. Now' = Now /\ Active(Now)' = Active(Now) /\ Gone' = Gone /\ \A id : Good(id)' = Good(id)
  BY <1>2 DEF Now, Active, Gone, Good
<1>10. ASSUME t.alone PROVE Repaired(x)'
  <2>1. Repaired(t)
    BY <1>1, <1>10, RepairedHere DEF Lone
  <2>2. /\ t.v = Now /\ (\A s \in Active(Now) \ t.todo : Good(s)) /\ Good("atomic") /\ Good("core")
        /\ \A id \in Gone : Good(id)
    BY <1>2, <2>1 DEF Repaired, HasViews, Begun, Viewing
  <2> QED
    BY <1>5, <1>9, <2>2 DEF Repaired, HasViews, HasIndex, Begun, Viewing
<1>11. HasViews(t)
  BY <1>2 DEF HasViews
<1> QED
  BY <1>1, <1>2, <1>5, <1>6, <1>7, <1>8, <1>10, <1>11, RepairQuiet

LEMMA ReplacePartRepairs ==
  ASSUME Inv, Inv', RepairInv, NEW b \in Builders,
         ReplaceDocuments(b) \/ ReplaceLinks(b) \/ ReplaceCode(b)
  PROVE  RepairInv'
<1>1. PICK t \in BuildTask : t = task[b]
  BY IsBuild DEF ReplaceDocuments, ReplaceLinks, ReplaceCode, ReplacePart, At
<1>2. PICK label \in {"links", "code", "audit", "done"} :
        /\ task' = [task EXCEPT ![b] = [t EXCEPT !.at = label]]
        /\ index' = [index EXCEPT ![t.at] = t.v2]
        /\ \/ t.at = "documents" /\ label = "links"
           \/ t.at = "links" /\ label = "code"
           \/ t.at = "code" /\ label \in {"audit", "done"}
  <2>1. CASE ReplaceDocuments(b)
    BY <1>1, <2>1 DEF ReplaceDocuments, ReplacePart, Goto, Become, At
  <2>2. CASE ReplaceLinks(b)
    BY <1>1, <2>2 DEF ReplaceLinks, ReplacePart, Goto, Become, At
  <2>3. CASE ReplaceCode(b)
    BY <1>1, <2>3, Afters DEF ReplaceCode, ReplacePart, Goto, Become, At, BuildTask
  <2> QED
    BY <2>1, <2>2, <2>3
<1>3. UNCHANGED <<ledger, overlapped, artifacts>>
  BY DEF ReplaceDocuments, ReplaceLinks, ReplaceCode, ReplacePart
<1> DEFINE x == [t EXCEPT !.at = label]
<1>4. /\ x \in BuildTask /\ x.at = label /\ x.v = t.v /\ x.v2 = t.v2 /\ x.todo = t.todo
      /\ x.alone = t.alone
  BY DEF BuildTask, Labels
<1>5. task' = [task EXCEPT ![b] = x]
  BY <1>2
<1> HIDE DEF x
<1>6. Building(b)
  BY <1>1, <1>2, Kinds DEF Building, At
<1>7. HasViews(t) /\ HasIndex(t)
  BY <1>2 DEF HasViews, HasIndex
<1>8. WorkOK(x)
  <2>1. WorkOK(t)
    BY <1>1 DEF RepairInv
  <2> QED
    BY <1>2, <1>4, <1>7, <2>1 DEF WorkOK
<1>9. Now' = Now /\ Active(Now)' = Active(Now) /\ Gone' = Gone /\ \A id : Good(id)' = Good(id)
  BY <1>3 DEF Now, Active, Gone, Good
<1>10. index \in [Parts -> Nat] /\ IndexType'
  BY <1>2, <1>3 DEF RepairInv, IndexType, BuildTask
<1>11. ASSUME t.alone PROVE (\A p \in Parts : index[p] = Now => index'[p] = Now) /\ Repaired(x)'
  <2>1. Repaired(t)
    BY <1>1, <1>11, RepairedHere DEF Lone
  <2>2. /\ t.v = Now /\ t.v2 = Now /\ (\A s \in Active(Now) \ t.todo : Good(s)) /\ Good("atomic") /\ Good("core")
        /\ \A id \in Gone : Good(id)
    BY <1>2, <1>7, <2>1 DEF Repaired, Begun, Viewing
  <2>3. \A p \in Parts : index[p] = Now => index'[p] = Now
    BY <1>2, <1>10, <2>2
  <2>4. index'[t.at] = Now
    BY <1>2, <1>10, <2>2 DEF Parts
  <2>5. /\ label \in {"links", "code", "audit", "done"} => index'["documents"] = Now
        /\ label \in {"code", "audit", "done"} => index'["links"] = Now
        /\ label \in {"audit", "done"} => index'["code"] = Now
    BY <1>2, <2>1, <2>3, <2>4 DEF Repaired, Parts
  <2>6. Repaired(x)'
    BY <1>4, <1>9, <2>2, <2>5 DEF Repaired, HasViews, HasIndex, Begun, Viewing
  <2> QED
    BY <2>3, <2>6
<1> QED
  BY <1>1, <1>3, <1>4, <1>5, <1>6, <1>7, <1>8, <1>10, <1>11, RepairQuiet

LEMMA ColdStartRepairs ==
  ASSUME Inv, Inv', RepairInv, NEW b \in Builders, BatchDone(b) \/ Complete(b) PROVE RepairInv'
<1>1. PICK t \in BuildTask : t = task[b] /\ BuildOK(t)
  BY IsBuild DEF BatchDone, Complete, At
<1>2. PICK label \in {"read", "done"} :
        /\ task' = [task EXCEPT ![b] = [t EXCEPT !.at = label]]
        /\ t.at = IF label = "read" THEN "drafts" ELSE "audit"
  BY <1>1, Afters DEF BatchDone, Complete, Goto, Become, At, BuildOK
<1>3. UNCHANGED <<ledger, overlapped, artifacts, index>> /\ IndexType'
  BY DEF BatchDone, Complete, RepairInv, IndexType
<1> DEFINE x == [t EXCEPT !.at = label]
<1>4. /\ x \in BuildTask /\ x.at = label /\ x.v = t.v /\ x.todo = t.todo /\ x.alone = t.alone
  BY DEF BuildTask, Labels
<1>5. task' = [task EXCEPT ![b] = x]
  BY <1>2
<1> HIDE DEF x
<1>6. Building(b)
  BY <1>1, <1>2, Kinds DEF Building, At
<1>7. HasViews(x) => HasViews(t)
  BY <1>2, <1>4 DEF HasViews
<1>8. WorkOK(x)
  <2>1. WorkOK(t)
    BY <1>1 DEF RepairInv
  <2> QED
    BY <1>2, <1>4, <1>7, <2>1 DEF WorkOK
<1>9. Now' = Now /\ Active(Now)' = Active(Now) /\ Gone' = Gone /\ \A id : Good(id)' = Good(id)
  BY <1>3 DEF Now, Active, Gone, Good
<1>10. ASSUME t.alone PROVE Repaired(x)'
  <2>1. Repaired(t)
    BY <1>1, <1>10, RepairedHere DEF Lone
  <2>2. CASE label = "read"
    BY <1>4, <2>2 DEF Repaired, HasViews, HasIndex, Begun
  <2>3. CASE label = "done"
    BY <1>2, <1>3, <1>4, <1>9, <2>1, <2>3 DEF Repaired, HasViews, HasIndex, Begun, Viewing
  <2> QED
    BY <2>2, <2>3
<1> QED
  BY <1>1, <1>3, <1>4, <1>5, <1>6, <1>7, <1>8, <1>10, RepairQuiet

\* Storing: the row of a view as it is built now.
LEMMA StoreRow ==
  ASSUME Inv, RowsKept, NEW id \in Ids, NEW digest \in Seq(Nat), Store(id, digest),
         id \in Scenarios => \E k \in 1 .. Now : digest = <<k>>
  PROVE  /\ artifacts' = [artifacts EXCEPT ![id] = Put(artifacts[id], digest)]
         /\ artifacts'[id] = Put(artifacts[id], digest)
         /\ \A i \in Ids \ {id} : artifacts'[i] = artifacts[i]
         /\ artifacts'[id] \in FullRow /\ artifacts'[id].digest = digest
         /\ artifacts'[id].status = "READY" \/ artifacts'[id] = artifacts[id]
         /\ id \in {"atomic", "core"} => artifacts'[id].status = "READY"
         /\ \A i \in Ids : RowKept(i, artifacts'[i], Now)
         /\ \A i \in Ids : artifacts[i] # NoArtifact => artifacts'[i] # NoArtifact
<1>1. artifacts \in [Ids -> Row] /\ artifacts' = [artifacts EXCEPT ![id] = Put(artifacts[id], digest)]
  BY DEF Inv, TypeInv, Rows, Store
<1>2. artifacts'[id] = Put(artifacts[id], digest) /\ \A i \in Ids \ {id} : artifacts'[i] = artifacts[i]
  BY <1>1
<1>3. PICK row \in Row : row = artifacts[id]
  BY <1>1
<1>4. RowKept(id, row, Now)
  BY <1>3 DEF RowsKept
<1>5. /\ Put(row, digest) \in FullRow /\ Put(row, digest).digest = digest
      /\ Put(row, digest).status = "READY" \/ Put(row, digest) = row
      /\ id \in {"atomic", "core"} => Put(row, digest).status = "READY"
  <2>1. CASE row # NoArtifact /\ row.digest = digest
    BY <1>4, <2>1 DEF Put, RowKept
  <2>2. CASE ~(row # NoArtifact /\ row.digest = digest)
    <3>1. Put(row, digest) = [status |-> "READY", digest |-> digest]
      BY <2>2 DEF Put
    <3> QED
      BY <3>1 DEF FullRow
  <2> QED
    BY <2>1, <2>2
<1>6. \A r \in FullRow : r # NoArtifact
  BY DEF FullRow, NoArtifact
<1>7. RowKept(id, artifacts'[id], Now)
  BY <1>2, <1>3, <1>5 DEF RowKept
<1>8. \A i \in Ids : RowKept(i, artifacts'[i], Now)
  BY <1>2, <1>7 DEF RowsKept
<1> QED
  BY <1>1, <1>2, <1>3, <1>5, <1>6, <1>8

\* A row of a full record is what its fields say.
LEMMA FullRowIs ==
  ASSUME NEW row \in FullRow PROVE row = [status |-> row.status, digest |-> row.digest]
BY DEF FullRow

LEMMA BuildAtomicRepairs ==
  ASSUME Inv, Inv', RepairInv, NEW b \in Builders, BuildAtomic(b) PROVE RepairInv'
<1>1. PICK t \in BuildTask : t = task[b] /\ BuildOK(t)
  BY IsBuild DEF BuildAtomic, At
<1>2. t.at = "atomic" /\ UNCHANGED <<ledger, overlapped, index>> /\ Store("atomic", <<t.v>>)
  BY <1>1 DEF BuildAtomic, At
<1> DEFINE x == [t EXCEPT !.at = "scenarios"]
<1>3. /\ x \in BuildTask /\ x.at = "scenarios" /\ x.v = t.v /\ x.todo = t.todo /\ x.alone = t.alone
  BY DEF BuildTask, Labels
<1>4. task' = [task EXCEPT ![b] = x]
  BY <1>1 DEF BuildAtomic, Goto, Become
<1> HIDE DEF x
<1>5. Building(b)
  BY <1>1, <1>2, Kinds DEF Building, At
<1>6. WorkOK(t) /\ HasViews(t)
  BY <1>1, <1>2 DEF RepairInv, HasViews
<1>7. Now' = Now /\ Active(Now)' = Active(Now) /\ \A v : Active(v)' = Active(v)
  BY <1>2 DEF Now, Active
<1>8. "atomic" \in Ids \ Scenarios /\ \A s \in Scenarios : s \in Ids
  BY ViewsAssumption DEF Ids
<1>9. t.v \in 1 .. Now /\ <<t.v>> \in Seq(Nat)
  BY <1>1, <1>6, Heads DEF BuildOK
<1>10. /\ \A i \in Ids \ {"atomic"} : artifacts'[i] = artifacts[i]
       /\ artifacts'["atomic"] \in FullRow /\ artifacts'["atomic"].digest = <<t.v>>
       /\ artifacts'["atomic"].status = "READY"
       /\ \A i \in Ids : RowKept(i, artifacts'[i], Now)
       /\ \A i \in Ids : artifacts[i] # NoArtifact => artifacts'[i] # NoArtifact
  BY <1>2, <1>8, <1>9, StoreRow DEF RepairInv
<1>11. RowsKept' /\ IndexType'
  BY <1>2, <1>7, <1>10 DEF RowsKept, RepairInv, IndexType
<1>12. WorkOK(x)'
  BY <1>2, <1>3, <1>6, <1>7 DEF WorkOK, HasViews
<1>13. ASSUME ~overlapped
       PROVE  /\ \A s \in Scenarios : FreshRow(s, artifacts'[s], ledger[Now])
              /\ HasViews(x) => \A s \in Scenarios : NotAfter(artifacts'[s], x.v)
  BY <1>1, <1>3, <1>5, <1>6, <1>8, <1>10, <1>13 DEF RepairInv, NotBuried
<1>14. ASSUME t.alone PROVE Preserves /\ Repaired(x)'
  <2>1. Repaired(t)
    BY <1>1, <1>14, RepairedHere DEF Lone
  <2>2. t.v = Now /\ \A s \in Active(Now) \ t.todo : Good(s)
    BY <1>6, <2>1 DEF Repaired
  <2>3. artifacts'["atomic"] = [status |-> "READY", digest |-> <<Now>>]
    BY <1>10, <2>2, FullRowIs
  <2>4. Good("atomic")'
    BY <1>7, <2>3 DEF Good, GoodRow
  <2>5. \A id \in Ids : Good(id) => Good(id)'
    BY <1>2, <1>7, <1>10, <2>4 DEF Good
  <2>6. Preserves
    BY <1>2, <2>5 DEF Preserves
  <2>7. \A s \in Active(Now) : s \in Ids
    BY DEF Active, Ids
  <2>8. Repaired(x)'
    BY <1>3, <1>7, <2>2, <2>4, <2>5, <2>7 DEF Repaired, HasViews, HasIndex, Begun, Viewing
  <2> QED
    BY <2>6, <2>8
<1> QED
  BY <1>1, <1>2, <1>3, <1>4, <1>5, <1>10, <1>11, <1>12, <1>13, <1>14, RepairStep

LEMMA BuildCoreRepairs ==
  ASSUME Inv, Inv', RepairInv, NEW b \in Builders, BuildCore(b) PROVE RepairInv'
<1>1. PICK t \in BuildTask : t = task[b] /\ BuildOK(t)
  BY IsBuild DEF BuildCore, At
<1>2. t.at = "core" /\ UNCHANGED <<ledger, overlapped, index>> /\ Store("core", <<t.v, t.v2>>)
  BY <1>1 DEF BuildCore, At
<1> DEFINE x == [t EXCEPT !.at = "list"]
<1>3. /\ x \in BuildTask /\ x.at = "list" /\ x.v = t.v /\ x.todo = t.todo /\ x.alone = t.alone
  BY DEF BuildTask, Labels
<1>4. task' = [task EXCEPT ![b] = x]
  BY <1>1 DEF BuildCore, Goto, Become
<1> HIDE DEF x
<1>5. Building(b)
  BY <1>1, <1>2, Kinds DEF Building, At
<1>6. WorkOK(t) /\ HasViews(t)
  BY <1>1, <1>2 DEF RepairInv, HasViews
<1>7. Now' = Now /\ Active(Now)' = Active(Now) /\ \A v : Active(v)' = Active(v)
  BY <1>2 DEF Now, Active
<1>8. "core" \in Ids \ Scenarios /\ \A s \in Scenarios : s \in Ids
  BY ViewsAssumption DEF Ids
<1>9. t.v \in 1 .. Now /\ t.v2 \in 1 .. Now /\ <<t.v, t.v2>> \in Seq(Nat)
  BY <1>1, <1>2, <1>6, Heads DEF BuildOK
<1>10. /\ \A i \in Ids \ {"core"} : artifacts'[i] = artifacts[i]
       /\ artifacts'["core"] \in FullRow /\ artifacts'["core"].digest = <<t.v, t.v2>>
       /\ artifacts'["core"].status = "READY"
       /\ \A i \in Ids : RowKept(i, artifacts'[i], Now)
       /\ \A i \in Ids : artifacts[i] # NoArtifact => artifacts'[i] # NoArtifact
  BY <1>2, <1>8, <1>9, StoreRow DEF RepairInv
<1>11. RowsKept' /\ IndexType'
  BY <1>2, <1>7, <1>10 DEF RowsKept, RepairInv, IndexType
<1>12. WorkOK(x)'
  BY <1>2, <1>3, <1>6, <1>7 DEF WorkOK, HasViews
<1>13. ASSUME ~overlapped
       PROVE  /\ \A s \in Scenarios : FreshRow(s, artifacts'[s], ledger[Now])
              /\ HasViews(x) => \A s \in Scenarios : NotAfter(artifacts'[s], x.v)
  BY <1>1, <1>3, <1>5, <1>6, <1>8, <1>10, <1>13 DEF RepairInv, NotBuried
<1>14. ASSUME t.alone PROVE Preserves /\ Repaired(x)'
  <2>1. Repaired(t)
    BY <1>1, <1>14, RepairedHere DEF Lone
  <2>2. t.v = Now /\ t.v2 = Now /\ Good("atomic") /\ \A s \in Active(Now) \ t.todo : Good(s)
    BY <1>2, <1>6, <2>1 DEF Repaired, Begun
  <2>3. artifacts'["core"] = [status |-> "READY", digest |-> <<Now, Now>>]
    BY <1>10, <2>2, FullRowIs
  <2>4. Good("core")'
    BY <1>7, <2>3 DEF Good, GoodRow
  <2>5. \A id \in Ids : Good(id) => Good(id)'
    BY <1>2, <1>7, <1>10, <2>4 DEF Good
  <2>6. Preserves
    BY <1>2, <2>5 DEF Preserves
  <2>7. "atomic" \in Ids /\ \A s \in Active(Now) : s \in Ids
    BY DEF Active, Ids
  <2>8. Repaired(x)'
    BY <1>3, <1>7, <2>2, <2>4, <2>5, <2>7 DEF Repaired, HasViews, HasIndex, Begun, Viewing
  <2> QED
    BY <2>6, <2>8
<1> QED
  BY <1>1, <1>2, <1>3, <1>4, <1>5, <1>10, <1>11, <1>12, <1>13, <1>14, RepairStep

LEMMA BuildScenarioRepairs ==
  ASSUME Inv, Inv', RepairInv, NEW b \in Builders, BuildScenario(b) PROVE RepairInv'
<1>1. PICK t \in BuildTask : t = task[b] /\ BuildOK(t)
  BY IsBuild DEF BuildScenario, At
<1>2. t.at = "scenarios" /\ UNCHANGED <<ledger, overlapped, index>>
  BY <1>1 DEF BuildScenario, At
<1>3. PICK s \in t.todo : /\ Store(s, <<ledger[t.v][s]>>)
                          /\ task' = [task EXCEPT ![b] = [t EXCEPT !.todo = t.todo \ {s}]]
  BY <1>1 DEF BuildScenario, Become
<1> DEFINE x == [t EXCEPT !.todo = t.todo \ {s}]
<1>4. /\ x \in BuildTask /\ x.at = "scenarios" /\ x.v = t.v /\ x.todo = t.todo \ {s} /\ x.alone = t.alone
  BY <1>2 DEF BuildTask, Labels
<1>5. task' = [task EXCEPT ![b] = x]
  BY <1>3
<1> HIDE DEF x
<1>6. Building(b)
  BY <1>1, <1>2, Kinds DEF Building, At
<1>7. WorkOK(t) /\ HasViews(t)
  BY <1>1, <1>2 DEF RepairInv, HasViews
<1>8. Now' = Now /\ Active(Now)' = Active(Now) /\ \A v : Active(v)' = Active(v)
  BY <1>2 DEF Now, Active
<1>9. s \in Ids \cap Scenarios /\ s \notin {"atomic", "core"} /\ \A i \in Scenarios : i \in Ids
  BY ViewsAssumption DEF Ids, BuildTask
<1>10. t.v \in 1 .. Now /\ Now \in Nat
  BY <1>1, <1>7, Heads DEF BuildOK
<1>11. ledger[t.v][s] \in 1 .. t.v
  <2>1. ledger[t.v] \in [Scenarios -> Nat]
    BY <1>10 DEF Inv, TypeInv, Now
  <2>2. ledger[t.v][s] # 0
    BY <1>7 DEF WorkOK, Active
  <2>3. ledger[t.v][s] <= t.v
    BY <1>9, <1>10 DEF RepairInv, VersionsGrow
  <2> QED
    BY <1>9, <1>10, <2>1, <2>2, <2>3
<1>12. PICK k \in 1 .. Now : k = ledger[t.v][s] /\ k <= t.v
  BY <1>10, <1>11
<1>13. /\ \A i \in Ids \ {s} : artifacts'[i] = artifacts[i]
       /\ artifacts'[s] \in FullRow /\ artifacts'[s].digest = <<k>>
       /\ artifacts'[s].status = "READY" \/ artifacts'[s] = artifacts[s]
       /\ \A i \in Ids : RowKept(i, artifacts'[i], Now)
       /\ \A i \in Ids : artifacts[i] # NoArtifact => artifacts'[i] # NoArtifact
  <2>1. Store(s, <<k>>) /\ <<k>> \in Seq(Nat)
    BY <1>3, <1>10, <1>12
  <2> QED
    BY <1>9, <2>1, StoreRow DEF RepairInv
<1>14. RowsKept' /\ IndexType'
  BY <1>2, <1>8, <1>13 DEF RowsKept, RepairInv, IndexType
<1>15. WorkOK(x)'
  BY <1>2, <1>4, <1>7, <1>8 DEF WorkOK, HasViews
<1>16. ASSUME ~overlapped
       PROVE  /\ \A i \in Scenarios : FreshRow(i, artifacts'[i], ledger[Now])
              /\ HasViews(x) => \A i \in Scenarios : NotAfter(artifacts'[i], x.v)
  <2>1. /\ \A i \in Scenarios : FreshRow(i, artifacts[i], ledger[Now])
        /\ \A i \in Scenarios : NotAfter(artifacts[i], t.v)
    BY <1>1, <1>6, <1>7, <1>16 DEF RepairInv, NotBuried
  <2>2. FreshRow(s, artifacts'[s], ledger[Now])
    BY <1>9, <1>13, <2>1 DEF FreshRow
  <2>3. NotAfter(artifacts'[s], t.v)
    BY <1>12, <1>13 DEF NotAfter
  <2> QED
    BY <1>4, <1>9, <1>13, <2>1, <2>2, <2>3
<1>17. ASSUME t.alone PROVE Preserves /\ Repaired(x)'
  <2>1. Repaired(t)
    BY <1>1, <1>17, RepairedHere DEF Lone
  <2>2. t.v = Now /\ Good("atomic") /\ \A i \in Active(Now) \ t.todo : Good(i)
    BY <1>2, <1>7, <2>1 DEF Repaired, Begun
  <2>3. Good(s)'
    <3>1. ledger[Now][s] = k /\ k # 0
      BY <1>10, <1>12, <2>2
    <3>2. artifacts'[s] = [status |-> artifacts'[s].status, digest |-> <<k>>]
      BY <1>13, FullRowIs
    <3>3. artifacts'[s].status = "READY" \/ (overlapped /\ artifacts'[s].status = "STALE")
      <4>1. artifacts'[s].status \in {"READY", "STALE"}
        BY <1>13 DEF FullRow
      <4>2. ~overlapped => FreshRow(s, artifacts'[s], ledger[Now])
        BY <1>9, <1>16
      <4> QED
        BY <1>13, <3>1, <4>1, <4>2 DEF FreshRow
    <3> QED
      BY <1>2, <1>8, <1>9, <3>1, <3>2, <3>3 DEF Good, GoodRow
  <2>4. \A id \in Ids : Good(id) => Good(id)'
    BY <1>2, <1>8, <1>13, <2>3 DEF Good
  <2>5. Preserves
    BY <1>2, <2>4 DEF Preserves
  <2>6. "atomic" \in Ids /\ \A i \in Active(Now) : i \in Ids
    BY DEF Active, Ids
  <2>7. Repaired(x)'
    BY <1>4, <1>8, <2>2, <2>3, <2>4, <2>6 DEF Repaired, HasViews, HasIndex, Begun, Viewing
  <2> QED
    BY <2>5, <2>7
<1> QED
  BY <1>1, <1>2, <1>4, <1>5, <1>6, <1>13, <1>14, <1>15, <1>16, <1>17, RepairStep

LEMMA MarkStaleRepairs ==
  ASSUME Inv, Inv', RepairInv, NEW b \in Builders, MarkStale(b) PROVE RepairInv'
<1>1. PICK t \in BuildTask : t = task[b] /\ BuildOK(t)
  BY IsBuild DEF MarkStale, At
<1>2. t.at = "mark" /\ UNCHANGED <<ledger, overlapped, index>> /\ After(t.op, "read") = "index"
  BY <1>1, Afters DEF MarkStale, At, BuildTask
<1>3. artifacts' = [id \in Ids |-> IF id \in t.stale THEN [artifacts[id] EXCEPT !.status = "STALE"]
                                   ELSE artifacts[id]]
  BY <1>1 DEF MarkStale
<1> DEFINE x == [t EXCEPT !.at = "index"]
<1>4. /\ x \in BuildTask /\ x.at = "index" /\ x.v = t.v /\ x.todo = t.todo /\ x.alone = t.alone
  BY DEF BuildTask, Labels
<1>5. task' = [task EXCEPT ![b] = x]
  BY <1>1, <1>2 DEF MarkStale, Goto, Become
<1> HIDE DEF x
<1>6. Building(b)
  BY <1>1, <1>2, Kinds DEF Building, At
<1>7. WorkOK(t) /\ HasViews(t)
  BY <1>1, <1>2 DEF RepairInv, HasViews
<1>8. Now' = Now /\ Active(Now)' = Active(Now) /\ Gone' = Gone /\ \A v : Active(v)' = Active(v)
  BY <1>2 DEF Now, Active, Gone
<1>9. t.v \in 1 .. Now /\ Now \in Nat
  BY <1>1, <1>7, Heads DEF BuildOK
<1>10. \A id \in t.stale : id \in Scenarios \ Active(t.v) /\ artifacts[id] # NoArtifact
  BY <1>2, <1>7 DEF WorkOK
<1>11. Scenarios \subseteq Ids /\ {"atomic", "core"} \subseteq Ids \ Scenarios
  BY ViewsAssumption DEF Ids
<1>12. /\ \A id \in Ids \ t.stale : artifacts'[id] = artifacts[id]
       /\ \A id \in t.stale : /\ artifacts'[id] \in FullRow /\ artifacts'[id].status = "STALE"
                              /\ artifacts'[id].digest = artifacts[id].digest
                              /\ RowKept(id, artifacts'[id], Now)
  <2>1. ASSUME NEW id \in t.stale
        PROVE  /\ artifacts'[id] \in FullRow /\ artifacts'[id].status = "STALE"
               /\ artifacts'[id].digest = artifacts[id].digest
               /\ RowKept(id, artifacts'[id], Now)
    <3>1. PICK row \in FullRow : row = artifacts[id] /\ RowKept(id, row, Now)
      BY <1>10, <1>11 DEF RepairInv, RowsKept, RowKept
    <3>2. artifacts'[id] = [row EXCEPT !.status = "STALE"]
      BY <1>3, <1>10, <1>11, <3>1
    <3>3. artifacts'[id] \in FullRow /\ artifacts'[id].status = "STALE" /\ artifacts'[id].digest = row.digest
      BY <3>2 DEF FullRow
    <3>4. RowKept(id, artifacts'[id], Now)
      BY <1>10, <1>11, <3>1, <3>3 DEF RowKept, FullRow, NoArtifact
    <3> QED
      BY <3>1, <3>3, <3>4
  <2>2. \A id \in Ids \ t.stale : artifacts'[id] = artifacts[id]
    BY <1>3
  <2> QED
    BY <2>1, <2>2
<1>13. RowsKept' /\ IndexType'
  BY <1>2, <1>8, <1>12 DEF RowsKept, RepairInv, IndexType
<1>14. \A id \in Ids : artifacts[id] # NoArtifact => artifacts'[id] # NoArtifact
  BY <1>12 DEF FullRow, NoArtifact
<1>15. WorkOK(x)'
  BY <1>2, <1>4, <1>7, <1>8 DEF WorkOK
<1>16. ASSUME ~overlapped
       PROVE  /\ \A s \in Scenarios : FreshRow(s, artifacts'[s], ledger[Now])
              /\ HasViews(x) => \A s \in Scenarios : NotAfter(artifacts'[s], x.v)
  <2>1. /\ \A s \in Scenarios : FreshRow(s, artifacts[s], ledger[Now])
        /\ \A s \in Scenarios : NotAfter(artifacts[s], t.v)
    BY <1>1, <1>6, <1>7, <1>16 DEF RepairInv, NotBuried
  <2>2. ASSUME NEW s \in t.stale PROVE FreshRow(s, artifacts'[s], ledger[Now]) /\ NotAfter(artifacts'[s], t.v)
    <3>1. PICK k \in 1 .. Now : artifacts[s].digest = <<k>>
      BY <1>10, <1>11 DEF RepairInv, RowsKept, RowKept
    <3>2. k <= t.v
      BY <1>10, <2>1, <3>1 DEF NotAfter
    <3>3. ledger[t.v][s] = 0 /\ s \in Scenarios
      BY <1>10 DEF Active
    <3>4. ledger[Now][s] \in {0, ledger[t.v][s]} \/ ledger[Now][s] > t.v
      BY <1>9, <3>3 DEF RepairInv, VersionsGrow
    <3>5. ledger[Now][s] # k
      BY <1>9, <3>2, <3>3, <3>4
    <3>6. artifacts'[s].digest = <<k>>
      BY <1>12, <3>1
    <3> QED
      BY <3>2, <3>5, <3>6 DEF FreshRow, NotAfter
  <2>3. \A s \in Scenarios \ t.stale : artifacts'[s] = artifacts[s]
    BY <1>11, <1>12
  <2> QED
    BY <1>4, <2>1, <2>2, <2>3
<1>17. ASSUME t.alone PROVE Preserves /\ Repaired(x)'
  <2>1. Repaired(t)
    BY <1>1, <1>17, RepairedHere DEF Lone
  <2>2. /\ t.v = Now /\ Good("atomic") /\ Good("core") /\ \A s \in Active(Now) \ t.todo : Good(s)
        /\ \A id \in Gone : artifacts[id].status = "READY" => id \in t.stale
    BY <1>2, <1>7, <2>1 DEF Repaired, Begun
  <2>3. \A id \in Gone : Good(id)'
    <3> SUFFICES ASSUME NEW id \in Gone PROVE Good(id)'
      OBVIOUS
    <3>1. artifacts'[id].status # "READY"
      BY <1>11, <1>12, <2>2 DEF Gone
    <3>2. id \notin {"atomic", "core"} /\ ledger[Now][id] = 0
      BY <1>11 DEF Gone, Active
    <3> QED
      BY <1>2, <1>8, <3>1, <3>2 DEF Good, GoodRow
  <2>4. \A id \in Ids \ Gone : Good(id) => Good(id)'
    <3>1. \A id \in Ids \ Gone : id \notin t.stale
      BY <1>10, <2>2 DEF Gone
    <3> QED
      BY <1>2, <1>8, <1>12, <3>1 DEF Good
  <2>5. \A id \in Ids : Good(id) => Good(id)'
    BY <2>3, <2>4
  <2>6. Preserves
    BY <1>2, <2>5 DEF Preserves
  <2>7. \A s \in Active(Now) : s \in Ids
    BY DEF Active, Ids
  <2>8. Repaired(x)'
    BY <1>4, <1>8, <1>11, <2>2, <2>3, <2>5, <2>7 DEF Repaired, HasViews, HasIndex, Begun, Viewing
  <2> QED
    BY <2>6, <2>8
<1> QED
  BY <1>1, <1>2, <1>4, <1>5, <1>6, <1>13, <1>14, <1>15, <1>16, <1>17, RepairStep

-----------------------------------------------------------------------------
(* Calls that end, verifications, and calls that begin.                    *)

LEMMA SameTables ==
  ASSUME UNCHANGED <<ledger, overlapped, artifacts, index>>
  PROVE  /\ VersionsGrow' = VersionsGrow /\ RowsKept' = RowsKept /\ IndexType' = IndexType
         /\ \A t : WorkOK(t)' = WorkOK(t)
         /\ \A t : Repaired(t)' = Repaired(t)
<1>1. Now' = Now /\ Gone' = Gone /\ (\A v : Active(v)' = Active(v)) /\ \A id : Good(id)' = Good(id)
  BY DEF Now, Active, Gone, Good
<1>2. VersionsGrow' = VersionsGrow
  BY <1>1 DEF VersionsGrow
<1>3. RowsKept' = RowsKept
  BY <1>1 DEF RowsKept
<1>4. IndexType' = IndexType
  BY DEF IndexType
<1>5. \A t : WorkOK(t)' = WorkOK(t)
  BY <1>1 DEF WorkOK
<1>6. ASSUME NEW t PROVE Repaired(t)' = Repaired(t)
  <2>1. Active(Now)' = Active(Now)
    BY <1>1
  <2> QED
    BY <1>1, <2>1, Zenon DEF Repaired
<1> QED
  BY <1>2, <1>3, <1>4, <1>5, <1>6

LEMMA EndRepairs ==
  ASSUME Inv, RepairInv, UNCHANGED <<ledger, overlapped, artifacts, index>>,
         \A c \in Builders : task'[c] = task[c] \/ task'[c] \in IdleTask \cup VerifyTask
  PROVE  RepairInv'
<1>1. \A c \in Builders : Building(c)' \/ task'[c] \in BuildTask => task'[c] = task[c]
  BY Kinds DEF Building, At
<1>2. \A c \in Builders : Building(c)' => Building(c)
  BY <1>1 DEF Building, At
<1>3. VersionsGrow' /\ RowsKept' /\ IndexType' /\ Now' = Now
  BY SameTables DEF RepairInv, Now
<1>4. ASSUME NEW c \in Builders, task'[c] \in BuildTask PROVE WorkOK(task[c])'
  <2>1. PICK y : y = task[c]
    OBVIOUS
  <2>2. y = task'[c] /\ WorkOK(y)
    BY <1>1, <1>4, <2>1 DEF RepairInv
  <2>3. WorkOK(y)'
    BY <2>2, SameTables
  <2> QED
    BY <2>2, <2>3
<1>5. NotBuried'
  <2> SUFFICES ASSUME ~overlapped PROVE NotBuried'
    BY DEF NotBuried
  <2>1. \A c, d \in Builders : Building(c)' /\ Building(d)' => c = d
    BY <1>2 DEF RepairInv, NotBuried
  <2>2. \A s \in Scenarios : FreshRow(s, artifacts[s], ledger[Now])'
    BY <1>3 DEF RepairInv, NotBuried
  <2>3. \A c \in Builders : Building(c)' /\ HasViews(task'[c]) =>
          \A s \in Scenarios : NotAfter(artifacts'[s], task'[c].v)
    BY <1>1, <1>2 DEF RepairInv, NotBuried
  <2> QED
    BY <2>1, <2>2, <2>3 DEF NotBuried, HasViews
<1>6. ASSUME NEW c \in Builders PROVE LoneOK(c)'
  <2>1. PICK y : y = task'[c]
    OBVIOUS
  <2> SUFFICES ASSUME Lone(y) PROVE LoneOK(c)'
    BY <2>1 DEF LoneOK, Lone
  <2>2. y = task[c]
    BY <1>1, <2>1 DEF Lone
  <2>3. Repaired(y) /\ \A e \in Builders \ {c} : Building(e) => At(c, "done") /\ Lone(task[e])
    BY <2>2 DEF RepairInv, LoneOK
  <2>4. Repaired(y)'
    BY <2>3, SameTables
  <2>5. At(c, "done")' = At(c, "done")
    BY <2>1, <2>2 DEF At
  <2>6. \A e \in Builders \ {c} : Building(e)' => At(c, "done")' /\ Lone(task[e])'
    BY <1>1, <1>2, <2>3, <2>5 DEF Lone
  <2> QED
    BY <2>1, <2>4, <2>6 DEF LoneOK
<1> QED
  BY <1>3, <1>4, <1>5, <1>6 DEF RepairInv

\* The draft could not be committed, or was before.
LEMMA CommitNothingRepairs ==
  ASSUME Inv, Inv', RepairInv, NEW b \in Builders, NEW ok \in BOOLEAN, CommitDraft(b, ok), UNCHANGED ledger
  PROVE  RepairInv'
<1>1. PICK t \in BuildTask : t = task[b]
  BY IsBuild DEF CommitDraft, At
<1>2. t.at = "drafts" /\ UNCHANGED <<ledger, overlapped, artifacts, index>> /\ IndexType'
  BY <1>1 DEF CommitDraft, At, RepairInv, IndexType
<1>3. PICK d \in t.drafts :
        LET lands == ok /\ landed[d] = 0
            u == [t EXCEPT !.drafts = t.drafts \ {d},
                           !.committed = IF lands THEN t.committed \cup {d} ELSE t.committed]
        IN /\ IF lands THEN \E s \in Scenarios : Extend(Touched(s)) ELSE UNCHANGED ledger
           /\ task' = [(IF lands THEN Alone(task) ELSE task) EXCEPT ![b] = u]
  BY <1>1 DEF CommitDraft
<1>4. ~(ok /\ landed[d] = 0)
  <2> SUFFICES ASSUME ok /\ landed[d] = 0 PROVE FALSE
    OBVIOUS
  <2>1. PICK s \in Scenarios : ledger' = Append(ledger, Touched(s))
    BY <1>3 DEF Extend
  <2>2. Touched(s) \in [Scenarios -> Nat]
    BY TouchedType
  <2> QED
    BY <2>1, <2>2 DEF Inv, TypeInv
<1> DEFINE x == [t EXCEPT !.drafts = t.drafts \ {d}, !.committed = t.committed]
<1>5. /\ x \in BuildTask /\ x.at = "drafts" /\ x.todo = t.todo /\ x.alone = t.alone
  BY <1>2 DEF BuildTask
<1>6. task' = [task EXCEPT ![b] = x]
  BY <1>3, <1>4
<1> HIDE DEF x
<1>7. Building(b)
  BY <1>1, <1>2, Kinds DEF Building, At
<1>8. WorkOK(x) /\ ~HasViews(x)
  <2>1. WorkOK(t)
    BY <1>1 DEF RepairInv
  <2> QED
    BY <1>2, <1>5, <2>1 DEF WorkOK, HasViews
<1>9. Repaired(x)'
  BY <1>5 DEF Repaired, HasViews, HasIndex, Begun
<1> QED
  BY <1>1, <1>2, <1>5, <1>6, <1>7, <1>8, <1>9, RepairQuiet

\* Whoever else was alone no longer is, and is otherwise as it was.
LEMMA AloneTask ==
  ASSUME Inv, NEW c \in Builders
  PROVE  /\ ~Lone(Alone(task)[c])
         /\ Alone(task)[c] \in BuildTask =>
              /\ task[c] \in BuildTask
              /\ Alone(task)[c].at = task[c].at /\ Alone(task)[c].op = task[c].op
              /\ Alone(task)[c].todo = task[c].todo /\ Alone(task)[c].v = task[c].v
              /\ Alone(task)[c].stale = task[c].stale
         /\ Alone(task)[c] \notin BuildTask => Alone(task)[c] = task[c]
<1>1. PICK t \in IdleTask \cup BuildTask \cup VerifyTask : t = task[c]
  BY DEF Inv, TypeInv
<1>2. CASE t \in BuildTask
  <2> DEFINE u == [t EXCEPT !.alone = FALSE]
  <2>1. Alone(task)[c] = u
    BY <1>1, <1>2, Kinds DEF Alone
  <2>2. /\ u \in BuildTask /\ u.at = t.at /\ u.op = t.op /\ u.todo = t.todo /\ u.v = t.v
        /\ u.stale = t.stale /\ u.alone = FALSE
    BY <1>2 DEF BuildTask
  <2> HIDE DEF u
  <2> QED
    BY <1>1, <1>2, <2>1, <2>2 DEF Lone
<1>3. CASE t \notin BuildTask
  <2>1. Alone(task)[c] = t
    BY <1>1, <1>3, Kinds DEF Alone
  <2> QED
    BY <1>1, <1>3, <2>1 DEF Lone
<1> QED
  BY <1>2, <1>3

LEMMA BeginRepairs ==
  ASSUME Inv, Inv', RepairInv, NEW b \in Builders, NEW op \in {"consolidate", "cold"}, Begin(b, op)
  PROVE  RepairInv'
<1> DEFINE others == {c \in Builders : c # b /\ Building(c)}
           begun == [at |-> Phases(op)[1], op |-> op, alone |-> others = {}, todo |-> {},
                     drafts |-> IF op = "cold" THEN Drafts ELSE {}, v |-> 0, v2 |-> 0, stale |-> {},
                     committed |-> {}]
           rest == IF others = {} THEN task ELSE Alone(task)
<1>1. /\ task' = [rest EXCEPT ![b] = begun] /\ overlapped' = (overlapped \/ others # {}) /\ At(b, "idle")
      /\ UNCHANGED <<ledger, artifacts, index>>
  BY DEF Begin
<1>2. Phases(op)[1] = IF op = "cold" THEN "drafts" ELSE "read"
  BY DEF Phases
<1>3. PICK alone \in BOOLEAN : alone = (others = {})
  OBVIOUS
<1>4. PICK x \in BuildTask : /\ x = begun /\ x.at \in {"drafts", "read"} /\ x.todo = {} /\ x.alone = alone
                             /\ x.op = op
  <2> DEFINE u == [at |-> Phases(op)[1], op |-> op, alone |-> alone, todo |-> {},
                   drafts |-> IF op = "cold" THEN Drafts ELSE {}, v |-> 0, v2 |-> 0, stale |-> {},
                   committed |-> {}]
  <2>1. u = begun
    BY <1>3
  <2>2. u \in BuildTask
    BY <1>2 DEF BuildTask, Labels
  <2>3. u.at \in {"drafts", "read"} /\ u.todo = {} /\ u.alone = alone /\ u.op = op
    BY <1>2
  <2> HIDE DEF u
  <2> QED
    BY <2>1, <2>2, <2>3
<1>5. others = {} <=> \A c \in Builders \ {b} : ~Building(c)
  OBVIOUS
<1> HIDE DEF begun, others
<1>6. rest \in [Builders -> IdleTask \cup BuildTask \cup VerifyTask]
  BY AloneKeeps DEF Inv, TypeInv
<1>7. task'[b] = x /\ \A c \in Builders \ {b} : task'[c] = rest[c]
  BY <1>1, <1>4, <1>6
<1>8. ~HasViews(x) /\ ~HasIndex(x) /\ x.at \in Begun
  BY <1>4 DEF HasViews, HasIndex, Begun
<1>9. WorkOK(x)' /\ Repaired(x)'
  BY <1>4, <1>8 DEF WorkOK, Repaired, HasViews, HasIndex, Begun
<1>10. Now' = Now /\ \A v : Active(v)' = Active(v)
  BY <1>1 DEF Now, Active
<1>11. VersionsGrow' /\ RowsKept' /\ IndexType'
  <2>1. overlapped' \in BOOLEAN
    BY <1>1
  <2> QED
    BY <1>1, <1>10, <2>1 DEF RepairInv, VersionsGrow, RowsKept, IndexType
<1>12. \A t : WorkOK(t)' = WorkOK(t)
  BY <1>1, <1>10 DEF WorkOK
<1>13. CASE others = {}
  <2>1. /\ UNCHANGED overlapped /\ x.alone /\ \A c \in Builders \ {b} : task'[c] = task[c] /\ ~Building(c)
    <3>1. rest = task
      BY <1>13
    <3> HIDE DEF rest
    <3>2. \A c \in Builders \ {b} : task'[c] = task[c]
      BY <1>7, <3>1
    <3>3. alone /\ \A c \in Builders \ {b} : ~Building(c)
      BY <1>3, <1>5, <1>13
    <3>4. UNCHANGED overlapped
      BY <1>1, <1>13 DEF RepairInv, IndexType
    <3> QED
      BY <1>4, <3>2, <3>3, <3>4
  <2>2. \A c \in Builders : Building(c)' => c = b
    BY <2>1 DEF Building, At
  <2>3. ASSUME NEW c \in Builders, task'[c] \in BuildTask PROVE WorkOK(task[c])'
    <3>1. PICK y : y = task'[c]
      OBVIOUS
    <3>2. WorkOK(y)'
      BY <1>7, <1>9, <1>12, <2>1, <2>3, <3>1 DEF RepairInv
    <3> QED
      BY <3>1, <3>2
  <2>4. NotBuried'
    <3> SUFFICES ASSUME ~overlapped PROVE NotBuried'
      BY <2>1 DEF NotBuried
    <3>1. \A s \in Scenarios : FreshRow(s, artifacts[s], ledger[Now])'
      BY <1>1, <1>10 DEF RepairInv, NotBuried
    <3>2. \A c \in Builders : ~(Building(c)' /\ HasViews(task[c])')
      BY <1>7, <1>8, <2>2 DEF HasViews
    <3> QED
      BY <2>2, <3>1, <3>2 DEF NotBuried
  <2>5. ASSUME NEW c \in Builders PROVE LoneOK(c)'
    <3>1. CASE c = b
      BY <1>7, <1>9, <2>2, <3>1 DEF LoneOK
    <3>2. CASE c # b
      <4>1. PICK y : y = task'[c]
        OBVIOUS
      <4> SUFFICES ASSUME Lone(y) PROVE LoneOK(c)'
        BY <4>1 DEF LoneOK, Lone
      <4>2. y = task[c] /\ Repaired(y)
        BY <2>1, <3>2, <4>1 DEF RepairInv, LoneOK
      <4>3. At(c, "done")
        BY <2>1, <3>2, <4>2, Kinds DEF Building, At, Lone, BuildTask, Labels
      <4>4. At(c, "done")' /\ Lone(x)
        BY <2>1, <4>1, <4>2, <4>3 DEF At, Lone
      <4>5. Repaired(y)'
        BY <1>1, <2>1, <4>2, SameTables
      <4> QED
        BY <1>7, <2>2, <4>1, <4>4, <4>5 DEF LoneOK, Lone
    <3> QED
      BY <3>1, <3>2
  <2> QED
    BY <1>11, <2>3, <2>4, <2>5 DEF RepairInv
<1>14. CASE others # {}
  <2>1. /\ overlapped' /\ ~x.alone /\ \A c \in Builders \ {b} : task'[c] = Alone(task)[c]
    BY <1>1, <1>3, <1>4, <1>7, <1>14, Zenon
  <2>2. NotBuried'
    BY <2>1 DEF NotBuried
  <2>3. \A c \in Builders : ~Lone(task[c])'
    BY <1>7, <2>1, AloneTask DEF Lone
  <2>4. \A c \in Builders : LoneOK(c)'
    BY <2>3 DEF LoneOK
  <2>5. ASSUME NEW c \in Builders, task'[c] \in BuildTask PROVE WorkOK(task[c])'
    <3>1. PICK y : y = task'[c]
      OBVIOUS
    <3>2. CASE c = b
      BY <1>7, <1>9, <3>1, <3>2 DEF WorkOK
    <3>3. CASE c # b
      <4>1. PICK z : z = task[c]
        OBVIOUS
      <4>2. /\ z \in BuildTask /\ y.at = z.at /\ y.todo = z.todo /\ y.v = z.v /\ y.stale = z.stale
        BY <2>1, <2>5, <3>1, <3>3, <4>1, AloneTask
      <4>3. WorkOK(z)
        BY <4>1, <4>2 DEF RepairInv
      <4>4. WorkOK(y)
        BY <4>2, <4>3 DEF WorkOK, HasViews
      <4>5. WorkOK(y)'
        BY <1>12, <4>4
      <4> QED
        BY <3>1, <4>5
    <3> QED
      BY <3>2, <3>3
  <2> QED
    BY <1>11, <2>2, <2>4, <2>5 DEF RepairInv
<1> QED
  BY <1>13, <1>14

-----------------------------------------------------------------------------
(* The ledger moves: what was stored becomes older, never current again.   *)

\* Of one scenario: the versions at the heads there were, and at the next one.
LEMMA VersionsExtend ==
  ASSUME NEW n \in Nat \ {0}, NEW old \in [1 .. n -> Nat], NEW new \in [1 .. n + 1 -> Nat],
         \A h \in 1 .. n : new[h] = old[h], new[n + 1] \in {0, old[n], n + 1},
         \A h \in 1 .. n : old[h] <= h /\ \A g \in 1 .. h : old[h] \in {0, old[g]} \/ old[h] > g
  PROVE  \A h \in 1 .. n + 1 : new[h] <= h /\ \A g \in 1 .. h : new[h] \in {0, new[g]} \/ new[h] > g
<1>1. ASSUME NEW h \in 1 .. n
      PROVE  new[h] <= h /\ \A g \in 1 .. h : new[h] \in {0, new[g]} \/ new[h] > g
  <2>1. \A g \in 1 .. h : g \in 1 .. n
    OBVIOUS
  <2> QED
    BY <2>1
<1>2. new[n + 1] <= n + 1
  <2>1. n \in 1 .. n /\ old[n] <= n /\ old[n] \in Nat
    OBVIOUS
  <2> QED
    BY <2>1
<1>3. ASSUME NEW g \in 1 .. n PROVE new[n + 1] \in {0, new[g]} \/ new[n + 1] > g
  <2>1. n \in 1 .. n /\ (old[n] \in {0, old[g]} \/ old[n] > g) /\ new[g] = old[g]
    OBVIOUS
  <2> QED
    BY <2>1
<1>4. \A g \in 1 .. n + 1 : new[n + 1] \in {0, new[g]} \/ new[n + 1] > g
  BY <1>3
<1>5. \A h \in 1 .. n + 1 : h \in 1 .. n \/ h = n + 1
  OBVIOUS
<1> QED
  BY <1>1, <1>2, <1>4, <1>5

LEMMA LedgerRepairs ==
  ASSUME Inv, Inv', RepairInv, NEW w \in [Scenarios -> Nat], Now' = Now + 1,
         ledger'[Now + 1] = w, \A h \in 1 .. Now : ledger'[h] = ledger[h],
         \A s \in Scenarios : w[s] \in {0, ledger[Now][s], Now + 1},
         UNCHANGED <<artifacts, index, overlapped>>,
         \A c \in Builders : Building(c)' = Building(c),
         \A c \in Builders : task'[c] \in BuildTask =>
           /\ task[c] \in BuildTask /\ task'[c].at = task[c].at /\ task'[c].todo = task[c].todo
           /\ task'[c].v = task[c].v /\ task'[c].stale = task[c].stale,
         \A c \in Builders : Building(c) => task[c] \in BuildTask /\ task'[c] \in BuildTask,
         \A c \in Builders : Lone(task[c])' =>
           task'[c].at = "drafts" /\ \A e \in Builders \ {c} : ~Building(e)
  PROVE  RepairInv'
<1>1. /\ Now \in Nat \ {0} /\ Now' = Now + 1 /\ ledger'[Now + 1] = w
      /\ \A h \in 1 .. Now : ledger'[h] = ledger[h]
  BY Heads
<1>2. \A h \in 1 .. Now : ledger[h] \in [Scenarios -> Nat]
  BY DEF Inv, TypeInv, Now
<1>3. VersionsGrow'
  <2> SUFFICES ASSUME NEW s \in Scenarios
               PROVE  \A h \in 1 .. Now + 1 :
                        /\ ledger'[h][s] <= h
                        /\ \A g \in 1 .. h : ledger'[h][s] \in {0, ledger'[g][s]} \/ ledger'[h][s] > g
    BY <1>1 DEF VersionsGrow
  <2>1. PICK n, old, new :
          n \in Nat \ {0} /\ n = Now /\ old = [h \in 1 .. n |-> ledger[h][s]] /\ new = [h \in 1 .. n + 1 |-> ledger'[h][s]]
    BY <1>1
  <2>2. n \in Nat \ {0} /\ old \in [1 .. n -> Nat]
    BY <1>2, <2>1
  <2>3. \A h \in 1 .. n : h \in 1 .. n + 1 /\ new[h] = old[h]
    BY <1>1, <2>1
  <2>4. n + 1 \in 1 .. n + 1 /\ n \in 1 .. n /\ new[n + 1] = w[s] /\ old[n] = ledger[Now][s]
    BY <1>1, <2>1
  <2>5. new[n + 1] \in {0, old[n], n + 1}
    BY <2>1, <2>4
  <2>6. new \in [1 .. n + 1 -> Nat]
    BY <1>1, <1>2, <2>1
  <2>7. \A h \in 1 .. n : old[h] <= h /\ \A g \in 1 .. h : old[h] \in {0, old[g]} \/ old[h] > g
    BY <2>1 DEF RepairInv, VersionsGrow
  <2>8. \A h \in 1 .. n + 1 : new[h] <= h /\ \A g \in 1 .. h : new[h] \in {0, new[g]} \/ new[h] > g
    BY <2>2, <2>3, <2>5, <2>6, <2>7, VersionsExtend
  <2>9. \A h \in 1 .. n + 1 : new[h] = ledger'[h][s] /\ \A g \in 1 .. h : new[g] = ledger'[g][s]
    BY <2>1
  <2> QED
    BY <2>1, <2>8, <2>9
<1>4. RowsKept'
  <2>1. \A id \in Ids : RowKept(id, artifacts[id], Now)
    BY DEF RepairInv, RowsKept
  <2>2. \A id \in Ids : RowKept(id, artifacts[id], Now + 1)
    BY <1>1, <2>1 DEF RowKept
  <2> QED
    BY <1>1, <2>2 DEF RowsKept
<1>5. ASSUME NEW c \in Builders, task'[c] \in BuildTask PROVE WorkOK(task[c])'
  <2>1. PICK y : y = task'[c]
    OBVIOUS
  <2>2. PICK z : z = task[c]
    OBVIOUS
  <2>3. /\ z \in BuildTask /\ y.at = z.at /\ y.todo = z.todo /\ y.v = z.v /\ y.stale = z.stale
    BY <1>5, <2>1, <2>2
  <2>4. WorkOK(z) /\ BuildOK(z)
    BY <2>2, <2>3 DEF RepairInv, Inv, TaskOK
  <2>5. HasViews(z) => Active(z.v)' = Active(z.v)
    BY <1>1, <2>4 DEF BuildOK, Active
  <2>6. WorkOK(y)'
    BY <2>3, <2>4, <2>5 DEF WorkOK, HasViews
  <2> QED
    BY <2>1, <2>6
<1>6. NotBuried'
  <2> SUFFICES ASSUME ~overlapped PROVE NotBuried'
    BY DEF NotBuried
  <2>1. ASSUME NEW s \in Scenarios PROVE FreshRow(s, artifacts[s], w)
    <3> SUFFICES ASSUME artifacts[s].status = "STALE" PROVE artifacts[s].digest # <<w[s]>>
      BY DEF FreshRow
    <3>1. artifacts[s] # NoArtifact /\ s \in Ids
      BY DEF NoArtifact, Ids
    <3>2. PICK k \in 1 .. Now : artifacts[s].digest = <<k>>
      BY <3>1 DEF RepairInv, RowsKept, RowKept
    <3>3. artifacts[s].digest # <<ledger[Now][s]>>
      BY DEF RepairInv, NotBuried, FreshRow
    <3>4. w[s] # k
      BY <1>1, <3>2, <3>3
    <3> QED
      BY <3>2, <3>4
  <2>2. \A s \in Scenarios : FreshRow(s, artifacts[s], ledger[Now])'
    BY <1>1, <2>1
  <2>3. \A c, d \in Builders : Building(c)' /\ Building(d)' => c = d
    BY DEF RepairInv, NotBuried
  <2>4. \A c \in Builders : Building(c)' /\ HasViews(task[c])' =>
          \A s \in Scenarios : NotAfter(artifacts'[s], task'[c].v)
    BY DEF RepairInv, NotBuried, HasViews
  <2> QED
    BY <2>2, <2>3, <2>4 DEF NotBuried
<1>7. ASSUME NEW c \in Builders PROVE LoneOK(c)'
  <2>1. PICK y : y = task'[c]
    OBVIOUS
  <2> SUFFICES ASSUME Lone(y) PROVE LoneOK(c)'
    BY <2>1 DEF LoneOK, Lone
  <2>2. y.at = "drafts" /\ \A e \in Builders \ {c} : ~Building(e)
    BY <2>1 DEF Lone
  <2>3. Repaired(y)'
    BY <2>2 DEF Repaired, HasViews, HasIndex, Begun
  <2> QED
    BY <2>1, <2>2, <2>3 DEF LoneOK
<1> QED
  BY <1>3, <1>4, <1>5, <1>6, <1>7 DEF RepairInv, IndexType

LEMMA NothingRepairs == ASSUME Inv, RepairInv, UNCHANGED vars PROVE RepairInv'
<1>1. UNCHANGED <<ledger, overlapped, artifacts, index, task>>
  BY DEF vars
<1> QED
  BY <1>1, EndRepairs

LEMMA OthersCommitRepairs ==
  ASSUME Inv, Inv', RepairInv, NEW w \in [Scenarios -> Nat], OthersCommit(w),
         \A s \in Scenarios : w[s] \in {0, ledger[Now][s], Now + 1}
  PROVE  RepairInv'
<1>1. /\ ledger' = Append(ledger, w) /\ task' = Alone(task)
      /\ UNCHANGED <<artifacts, index, overlapped>>
  BY DEF OthersCommit, Extend
<1>2. Now' = Now + 1 /\ ledger'[Now + 1] = w /\ \A h \in 1 .. Now : ledger'[h] = ledger[h]
  BY <1>1 DEF Inv, TypeInv, Now
<1>3. ASSUME NEW c \in Builders
      PROVE  /\ ~Lone(task[c])'
             /\ Building(c)' = Building(c)
             /\ task'[c] \in BuildTask =>
                  /\ task[c] \in BuildTask /\ task'[c].at = task[c].at /\ task'[c].todo = task[c].todo
                  /\ task'[c].v = task[c].v /\ task'[c].stale = task[c].stale
             /\ Building(c) => task[c] \in BuildTask /\ task'[c] \in BuildTask
  <2>1. task'[c] = Alone(task)[c]
    BY <1>1
  <2>2. PICK y, z : y = task'[c] /\ z = task[c]
    OBVIOUS
  <2>3. /\ ~Lone(y)
        /\ y \in BuildTask => /\ z \in BuildTask /\ y.at = z.at /\ y.op = z.op /\ y.todo = z.todo
                              /\ y.v = z.v /\ y.stale = z.stale
        /\ y \notin BuildTask => y = z
    BY <2>1, <2>2, AloneTask
  <2>4. Building(c)' = Building(c)
    BY <2>2, <2>3 DEF Building, At
  <2>5. z \in BuildTask => y \in BuildTask
    BY <2>3
  <2>6. Building(c) => z \in BuildTask
    BY <2>2, Kinds DEF Building, At, Inv, TypeInv
  <2> QED
    BY <2>2, <2>3, <2>4, <2>5, <2>6 DEF Lone
<1> QED
  BY <1>1, <1>2, <1>3, LedgerRepairs

LEMMA CommitDraftRepairs ==
  ASSUME Inv, Inv', RepairInv, NEW b \in Builders, NEW ok \in BOOLEAN, CommitDraft(b, ok)
  PROVE  RepairInv'
<1>1. PICK t \in BuildTask : t = task[b]
  BY IsBuild DEF CommitDraft, At
<1>2. t.at = "drafts" /\ UNCHANGED <<overlapped, artifacts, index>>
  BY <1>1 DEF CommitDraft, At
<1>3. PICK d \in t.drafts :
        LET lands == ok /\ landed[d] = 0
            u == [t EXCEPT !.drafts = t.drafts \ {d},
                           !.committed = IF lands THEN t.committed \cup {d} ELSE t.committed]
        IN /\ IF lands THEN \E s \in Scenarios : Extend(Touched(s)) ELSE UNCHANGED ledger
           /\ task' = [(IF lands THEN Alone(task) ELSE task) EXCEPT ![b] = u]
  BY <1>1 DEF CommitDraft
<1>4. CASE ~(ok /\ landed[d] = 0)
  <2>1. UNCHANGED ledger
    BY <1>3, <1>4
  <2> QED
    BY <2>1, CommitNothingRepairs
<1>5. CASE ok /\ landed[d] = 0
  <2> DEFINE x == [t EXCEPT !.drafts = t.drafts \ {d}, !.committed = t.committed \cup {d}]
  <2>1. PICK s \in Scenarios : ledger' = Append(ledger, Touched(s))
    BY <1>3, <1>5 DEF Extend
  <2>2. task' = [Alone(task) EXCEPT ![b] = x]
    BY <1>3, <1>5
  <2>3. /\ x \in BuildTask /\ x.at = t.at /\ x.op = t.op /\ x.todo = t.todo /\ x.v = t.v
        /\ x.stale = t.stale /\ x.alone = t.alone
    BY DEF BuildTask
  <2> HIDE DEF x
  <2>4. task'[b] = x /\ \A c \in Builders \ {b} : task'[c] = Alone(task)[c]
    BY <2>2, AloneKeeps DEF Inv, TypeInv
  <2>5. PICK w \in [Scenarios -> Nat] : w = Touched(s)
    BY TouchedType
  <2>6. Now' = Now + 1 /\ ledger'[Now + 1] = w /\ \A h \in 1 .. Now : ledger'[h] = ledger[h]
    BY <2>1, <2>5 DEF Inv, TypeInv, Now
  <2>7. \A i \in Scenarios : w[i] \in {0, ledger[Now][i], Now + 1}
    BY <2>5, TouchedType DEF Touched
  <2>8. Building(b)
    BY <1>1, <1>2, Kinds DEF Building, At
  <2>9. ASSUME NEW c \in Builders
        PROVE  /\ c # b => ~Lone(task[c])'
               /\ Building(c)' = Building(c)
               /\ task'[c] \in BuildTask =>
                    /\ task[c] \in BuildTask /\ task'[c].at = task[c].at /\ task'[c].todo = task[c].todo
                    /\ task'[c].v = task[c].v /\ task'[c].stale = task[c].stale
               /\ Building(c) => task[c] \in BuildTask /\ task'[c] \in BuildTask
    <3>1. CASE c = b
      <4>1. Building(b)'
        BY <1>2, <2>3, <2>4, Kinds DEF Building, At
      <4> QED
        BY <1>1, <2>3, <2>4, <2>8, <3>1, <4>1
    <3>2. CASE c # b
      <4>1. task'[c] = Alone(task)[c]
        BY <2>4, <3>2
      <4>2. PICK y, z : y = task'[c] /\ z = task[c]
        OBVIOUS
      <4>3. /\ ~Lone(y)
            /\ y \in BuildTask => /\ z \in BuildTask /\ y.at = z.at /\ y.op = z.op /\ y.todo = z.todo
                                  /\ y.v = z.v /\ y.stale = z.stale
            /\ y \notin BuildTask => y = z
        BY <4>1, <4>2, AloneTask
      <4>4. Building(c)' = Building(c)
        BY <4>2, <4>3 DEF Building, At
      <4>5. Building(c) => z \in BuildTask
        BY <4>2, Kinds DEF Building, At, Inv, TypeInv
      <4> QED
        BY <4>2, <4>3, <4>4, <4>5 DEF Lone
    <3> QED
      BY <3>1, <3>2
  <2>10. \A c \in Builders : Lone(task[c])' =>
           task'[c].at = "drafts" /\ \A e \in Builders \ {c} : ~Building(e)
    <3> SUFFICES ASSUME Lone(x) PROVE \A e \in Builders \ {b} : ~Building(e)
      BY <1>2, <2>3, <2>4, <2>9 DEF Lone
    <3>1. Lone(task[b]) /\ ~At(b, "done")
      BY <1>1, <1>2, <2>3 DEF Lone, At
    <3> QED
      BY <3>1 DEF RepairInv, LoneOK
  <2> QED
    BY <1>2, <2>6, <2>7, <2>9, <2>10, LedgerRepairs
<1> QED
  BY <1>4, <1>5

-----------------------------------------------------------------------------

LEMMA InitRepairs == Init => RepairInv
<1> SUFFICES ASSUME Init PROVE RepairInv
  OBVIOUS
<1>1. Now = 1 /\ ledger[1] = [s \in Scenarios |-> 0]
  BY DEF Init, Now
<1>2. VersionsGrow
  <2>1. \A s \in Scenarios : ledger[1][s] = 0
    BY <1>1
  <2>2. \A h \in 1 .. Now : h = 1
    BY <1>1
  <2> QED
    BY <2>1, <2>2 DEF VersionsGrow
<1>3. RowsKept /\ IndexType
  BY DEF Init, RowsKept, RowKept, IndexType
<1>4. \A b \in Builders : task[b] = Idle /\ Idle \notin BuildTask /\ ~Building(b)
  BY Kinds DEF Init, Idle, IdleTask, Building, At
<1>5. \A s \in Scenarios : FreshRow(s, artifacts[s], ledger[Now])
  BY DEF Init, FreshRow, NoArtifact, Ids
<1>6. NotBuried
  BY <1>4, <1>5 DEF NotBuried
<1> QED
  BY <1>2, <1>3, <1>4, <1>6 DEF RepairInv, LoneOK, Lone

LEMMA NextRepairs == Inv /\ Inv' /\ RepairInv /\ [Next]_vars => RepairInv'
<1> SUFFICES ASSUME Inv, Inv', RepairInv, [Next]_vars PROVE RepairInv'
  OBVIOUS
<1>1. ASSUME NEW b \in Builders, NEW op \in {"consolidate", "cold"}, Begin(b, op) PROVE RepairInv'
  BY <1>1, BeginRepairs
<1>2. ASSUME NEW b \in Builders, BeginVerify(b) \/ Step(b) \/ CommitDraft(b, FALSE) \/ Crash(b)
      PROVE  RepairInv'
  <2>1. CASE ReadProjection(b)
    BY <2>1, ReadProjectionRepairs
  <2>2. CASE BuildAtomic(b)
    BY <2>2, BuildAtomicRepairs
  <2>3. CASE BuildScenario(b)
    BY <2>3, BuildScenarioRepairs
  <2>4. CASE PackCore(b)
    BY <2>4, PackCoreRepairs
  <2>5. CASE BuildCore(b)
    BY <2>5, BuildCoreRepairs
  <2>6. CASE ListStale(b)
    BY <2>6, ListStaleRepairs
  <2>7. CASE MarkStale(b)
    BY <2>7, MarkStaleRepairs
  <2>8. CASE ReadForIndex(b)
    BY <2>8, ReadForIndexRepairs
  <2>9. CASE ReplaceDocuments(b) \/ ReplaceLinks(b) \/ ReplaceCode(b)
    BY <2>9, ReplacePartRepairs
  <2>10. CASE CommitDraft(b, TRUE) \/ CommitDraft(b, FALSE)
    BY <2>10, CommitDraftRepairs
  <2>11. CASE BatchDone(b) \/ Complete(b)
    BY <2>11, ColdStartRepairs
  <2>12. CASE BeginVerify(b) \/ ReadRows(b) \/ RebuildProjection(b) \/ RebuildCore(b) \/ Return(b) \/ Crash(b)
    <3>1. UNCHANGED <<ledger, overlapped, artifacts, index>>
      BY <2>12 DEF BeginVerify, ReadRows, RebuildProjection, RebuildCore, Return, Crash
    <3>2. PICK x : task' = [task EXCEPT ![b] = x] /\ (x.at = "idle" \/ x.op = "verify")
      <4>1. CASE BeginVerify(b)
        <5> DEFINE y == [at |-> "rows", op |-> "verify"]
        <5>1. task' = [task EXCEPT ![b] = y]
          BY <4>1 DEF BeginVerify, Become
        <5>2. y.op = "verify"
          OBVIOUS
        <5> HIDE DEF y
        <5> QED
          BY <5>1, <5>2
      <4>2. CASE ReadRows(b)
        <5> DEFINE y == [at |-> "done", op |-> "verify", valid |-> TRUE, checked |-> FALSE]
                   z == [at |-> "rebuild", op |-> "verify", rows |-> artifacts, head |-> Now]
        <5>1. PICK x \in {y, z} : task' = [task EXCEPT ![b] = x]
          BY <4>2 DEF ReadRows, Become
        <5>2. y.op = "verify" /\ z.op = "verify"
          OBVIOUS
        <5> HIDE DEF y, z
        <5> QED
          BY <5>1, <5>2
      <4>3. CASE RebuildProjection(b)
        <5> DEFINE y == [at |-> "repack", op |-> "verify", rows |-> task[b].rows, head |-> task[b].head,
                         v |-> Now]
        <5>1. task' = [task EXCEPT ![b] = y]
          BY <4>3 DEF RebuildProjection, Become
        <5>2. y.op = "verify"
          OBVIOUS
        <5> HIDE DEF y
        <5> QED
          BY <5>1, <5>2
      <4>4. CASE RebuildCore(b)
        <5> DEFINE y == [at |-> "done", op |-> "verify", checked |-> TRUE, rows |-> task[b].rows,
                         head |-> task[b].head,
                         valid |-> Same(ReadyViews(task[b].rows), ViewsOf(task[b].v, Now))]
        <5>1. task' = [task EXCEPT ![b] = y]
          BY <4>4 DEF RebuildCore, Become
        <5>2. y.op = "verify"
          OBVIOUS
        <5> HIDE DEF y
        <5> QED
          BY <5>1, <5>2
      <4>5. CASE Return(b) \/ Crash(b)
        <5> DEFINE y == Idle
        <5>1. task' = [task EXCEPT ![b] = y]
          BY <4>5 DEF Return, Crash, Become
        <5>2. y.at = "idle"
          BY DEF Idle
        <5> HIDE DEF y
        <5> QED
          BY <5>1, <5>2
      <4> QED
        BY <2>12, <4>1, <4>2, <4>3, <4>4, <4>5
    <3>3. task'[b] = x /\ \A c \in Builders \ {b} : task'[c] = task[c]
      BY <3>2 DEF Inv, TypeInv
    <3>4. x \in IdleTask \cup BuildTask \cup VerifyTask
      BY <3>3 DEF Inv, TypeInv
    <3>5. x \in IdleTask \cup VerifyTask
      BY <3>2, <3>4 DEF BuildTask, Labels
    <3> QED
      BY <3>1, <3>3, <3>5, EndRepairs
  <2> QED
    BY <1>2, <2>1, <2>2, <2>3, <2>4, <2>5, <2>6, <2>7, <2>8, <2>9, <2>10, <2>11, <2>12 DEF Step
<1>3. ASSUME NEW s \in Scenarios, OthersCommit(Touched(s)) \/ OthersCommit(Retired(s)) PROVE RepairInv'
  <2>1. /\ Touched(s) \in [Scenarios -> Nat] /\ Retired(s) \in [Scenarios -> Nat]
        /\ \A i \in Scenarios : /\ Touched(s)[i] \in {0, ledger[Now][i], Now + 1}
                                /\ Retired(s)[i] \in {0, ledger[Now][i], Now + 1}
    BY TouchedType DEF Touched, Retired
  <2> QED
    BY <1>3, <2>1, OthersCommitRepairs
<1>4. CASE OthersCommit(ledger[Now])
  <2>1. ledger[Now] \in [Scenarios -> Nat]
    BY Heads DEF Inv, TypeInv, Now
  <2> QED
    BY <1>4, <2>1, OthersCommitRepairs
<1>5. CASE UNCHANGED vars
  BY <1>5, NothingRepairs
<1>6. \A s \in Active(Now) : s \in Scenarios
  BY DEF Active
<1> QED
  BY <1>1, <1>2, <1>3, <1>4, <1>5, <1>6 DEF Next

\* A build that nothing disturbed has repaired every view and every part of
\* the index, whatever earlier builds have left undone, and for any number of
\* them; the one view it cannot repair is a buried one.
THEOREM LoneBuildsRepair == Spec => []LoneBuildRepairs
<1>1. Inv /\ RepairInv => LoneBuildRepairs
  <2> SUFFICES ASSUME Inv, RepairInv, NEW b \in Builders, FinishedAlone(b)
               PROVE  /\ \A p \in Parts : index[p] = Now
                      /\ \A id \in Ids : Right(id) \/ (overlapped /\ Buried(id))
    BY DEF LoneBuildRepairs
  <2>1. PICK t : t = task[b]
    OBVIOUS
  <2>2. t \in BuildTask /\ t.at = "done" /\ t.alone
    BY <2>1, Kinds DEF FinishedAlone, At, Inv, TypeInv
  <2>3. Repaired(t) /\ t.todo = {}
    BY <2>1, <2>2, RepairedHere DEF Lone, RepairInv, WorkOK
  <2>4. \A p \in Parts : index[p] = Now
    BY <2>2, <2>3 DEF Repaired, Parts
  <2>5. \A id \in Ids : Good(id)
    BY <2>2, <2>3 DEF Repaired, HasViews, Begun, Viewing, Ids, Gone
  <2>6. ASSUME NEW id \in Ids PROVE Right(id) \/ (overlapped /\ Buried(id))
    <3>1. PICK e : e = ViewsOf(Now, Now)
      OBVIOUS
    <3>2. DOMAIN e = {"atomic", "core"} \cup Active(Now)
      BY <3>1 DEF ViewsOf
    <3>3. CASE id = "atomic"
      <4>1. id \in DOMAIN e /\ e[id] = <<Now>>
        BY <3>1, <3>3 DEF ViewsOf
      <4>2. artifacts[id] = [status |-> "READY", digest |-> <<Now>>]
        BY <2>5, <3>3 DEF Good, GoodRow
      <4> QED
        BY <3>1, <4>1, <4>2 DEF Right
    <3>4. CASE id = "core"
      <4>1. id \in DOMAIN e /\ e[id] = <<Now, Now>>
        BY <3>1, <3>4 DEF ViewsOf
      <4>2. artifacts[id] = [status |-> "READY", digest |-> <<Now, Now>>]
        BY <2>5, <3>4 DEF Good, GoodRow
      <4> QED
        BY <3>1, <4>1, <4>2 DEF Right
    <3>5. CASE id \in Active(Now)
      <4>1. id \notin {"atomic", "core"} /\ ledger[Now][id] # 0
        BY <3>5, ViewsAssumption DEF Active
      <4>2. id \in DOMAIN e /\ e[id] = <<ledger[Now][id]>>
        BY <3>1, <3>5, <4>1 DEF ViewsOf
      <4>3. \/ artifacts[id] = [status |-> "READY", digest |-> <<ledger[Now][id]>>]
            \/ overlapped /\ artifacts[id] = [status |-> "STALE", digest |-> <<ledger[Now][id]>>]
        BY <2>5, <4>1 DEF Good, GoodRow
      <4> QED
        BY <3>1, <3>5, <4>2, <4>3 DEF Right, Buried
    <3>6. CASE id \notin {"atomic", "core"} \cup Active(Now)
      <4>1. ledger[Now][id] = 0
        BY <3>6 DEF Active, Ids
      <4>2. artifacts[id].status # "READY"
        BY <2>5, <3>6, <4>1 DEF Good, GoodRow
      <4> QED
        BY <3>1, <3>2, <3>6, <4>2 DEF Right
    <3> QED
      BY <3>3, <3>4, <3>5, <3>6
  <2> QED
    BY <2>4, <2>6
<1>2. Spec => []RepairInv
  BY InitInv, NextInv, InitRepairs, NextRepairs, PTL DEF Spec
<1> QED
  BY <1>1, <1>2, Invariance, PTL
=============================================================================
