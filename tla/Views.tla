------------------------------- MODULE Views -------------------------------
(***************************************************************************)
(* The derived views and the indexes of a workspace.                       *)
(*                                                                         *)
(* A build projects the ledger, stores one artifact after another, each in *)
(* a transaction of its own, marks stale what its projection no longer     *)
(* has, and rebuilds the three parts of the retrieval index from a second  *)
(* projection.  Builds, cold starts and verifications of several programs  *)
(* run side by side on one product database, commits go on meanwhile, and  *)
(* each of them may die between two steps.                                 *)
(***************************************************************************)
EXTENDS Naturals, Sequences, FiniteSets

CONSTANTS
  Builders,         \* the programs
  Scenarios,        \* what may have a scenario view: a subject, a decision, ...
  Drafts,           \* the deterministic drafts of a cold start's batch
  MaxCommits,       \* bound on the commits of others
  MaxCalls,         \* bound on the calls of one behaviour
  MaxCrashes        \* bound on deaths

ASSUME ViewsAssumption ==
  /\ Scenarios \cap {"atomic", "core"} = {}
  /\ MaxCommits \in Nat /\ MaxCalls \in Nat /\ MaxCrashes \in Nat

VARIABLES
  ledger,           \* at each head, the records of each scenario: 0, or their version
  landed,           \* the head at which a draft was committed, 0 before
  artifacts,        \* the artifacts table
  index,            \* of each part of the index, the head it was made from
  completed,        \* the COLD_START_COMPLETED reports in the audit
  task,             \* where each program stands
  commits, calls, crashes,   \* counted against their bounds
  overlapped        \* history: whether two builds ever overlapped

counters == <<commits, calls, crashes>>
vars == <<ledger, landed, artifacts, index, completed, task, counters, overlapped>>

Ids == {"atomic", "core"} \cup Scenarios
Parts == {"documents", "links", "code"}
Now == Len(ledger)
Active(v) == {s \in Scenarios : ledger[v][s] # 0}

NoArtifact == [status |-> "none"]
Idle == [at |-> "idle"]
At(b, label) == task[b].at = label
Become(b, t) == task' = [task EXCEPT ![b] = t]
Goto(b, label) == Become(b, [task[b] EXCEPT !.at = label])
Building(b) == ~At(b, "idle") /\ ~At(b, "done") /\ task[b].op # "verify"
\* A slip: the drafts are committed when the views have been built.
LateDrafts(op) ==
  IF op = "cold" THEN <<"read", "index", "drafts", "audit">> ELSE <<"read", "index">>
\* In which order a call does its parts.
Phases(op) ==
  IF op = "cold" THEN <<"drafts", "read", "index", "audit">> ELSE <<"read", "index">>
\* The part after this one.
After(op, phase) ==
  LET i == CHOOSE i \in DOMAIN Phases(op) : Phases(op)[i] = phase
  IN IF i = Len(Phases(op)) THEN "done" ELSE Phases(op)[i + 1]

Init ==
  /\ ledger = <<[s \in Scenarios |-> 0]>>
  /\ landed = [d \in Drafts |-> 0]
  /\ artifacts = [id \in Ids |-> NoArtifact]
  /\ index = [p \in Parts |-> 0]
  /\ completed = {}
  /\ task = [b \in Builders |-> Idle]
  /\ commits = 0 /\ calls = 0 /\ crashes = 0
  /\ overlapped = FALSE

\* A commit changes, adds or retires the records of some scenario, or none:
\* then only the state root moves.
Extend(world) == ledger' = Append(ledger, world)
Touched(s) == [ledger[Now] EXCEPT ![s] = Now + 1]
Retired(s) == [ledger[Now] EXCEPT ![s] = 0]
\* The call of b is no longer alone when the ledger moves under it.
Alone(t) == [b \in Builders |-> IF "alone" \in DOMAIN t[b] THEN [t[b] EXCEPT !.alone = FALSE] ELSE t[b]]

OthersCommit(world) ==
  /\ commits < MaxCommits /\ commits' = commits + 1
  /\ Extend(world)
  /\ task' = Alone(task)
  /\ UNCHANGED <<landed, artifacts, index, completed, calls, crashes, overlapped>>

-----------------------------------------------------------------------------
(* build_all.                                                              *)

Begin(b, op) ==
  LET others == {c \in Builders : c # b /\ Building(c)}
      begun == [at |-> Phases(op)[1], op |-> op, alone |-> others = {}, todo |-> {},
                drafts |-> IF op = "cold" THEN Drafts ELSE {}, v |-> 0, v2 |-> 0, stale |-> {}, committed |-> {}]
      rest == IF others = {} THEN task ELSE Alone(task)
  IN /\ At(b, "idle")
     /\ calls < MaxCalls /\ calls' = calls + 1
     /\ task' = [rest EXCEPT ![b] = begun]
     /\ overlapped' = (overlapped \/ others # {})
     /\ UNCHANGED <<ledger, landed, artifacts, index, completed, commits, crashes>>

\* The projection that everything but the core context is made of.
ReadProjection(b) ==
  /\ At(b, "read")
  /\ Become(b, [task[b] EXCEPT !.at = "atomic", !.v = Now, !.todo = Active(Now)])
  /\ UNCHANGED <<ledger, landed, artifacts, index, completed, counters, overlapped>>

\* A slip: a row that is there stays.
PutOnce(row, digest) ==
  IF row # NoArtifact THEN row ELSE [status |-> "READY", digest |-> digest]
\* put_artifact: the row with this digest stays as it is, whatever its status.
Put(row, digest) ==
  IF row # NoArtifact /\ row.digest = digest THEN row ELSE [status |-> "READY", digest |-> digest]
Store(id, digest) == artifacts' = [artifacts EXCEPT ![id] = Put(@, digest)]

BuildAtomic(b) ==
  /\ At(b, "atomic")
  /\ Store("atomic", <<task[b].v>>)
  /\ Goto(b, "scenarios")
  /\ UNCHANGED <<ledger, landed, index, completed, counters, overlapped>>
\* The digest of a scenario is that of its own records, not of the state root.
BuildScenario(b) ==
  /\ At(b, "scenarios")
  /\ \E s \in task[b].todo :
       /\ Store(s, <<ledger[task[b].v][s]>>)
       /\ Become(b, [task[b] EXCEPT !.todo = @ \ {s}])
  /\ UNCHANGED <<ledger, landed, index, completed, counters, overlapped>>
\* The core context is packed from the kernel as it is by now.
PackCore(b) ==
  /\ At(b, "scenarios")
  /\ task[b].todo = {}
  /\ Become(b, [task[b] EXCEPT !.at = "core", !.v2 = Now])
  /\ UNCHANGED <<ledger, landed, artifacts, index, completed, counters, overlapped>>
BuildCore(b) ==
  /\ At(b, "core")
  /\ Store("core", <<task[b].v, task[b].v2>>)
  /\ Goto(b, "list")
  /\ UNCHANGED <<ledger, landed, index, completed, counters, overlapped>>
\* What is READY and was not built now is stale.
ListStale(b) ==
  LET built == {"atomic", "core"} \cup Active(task[b].v)
  IN /\ At(b, "list")
     /\ Become(b, [task[b] EXCEPT !.at = "mark",
                   !.stale = {id \in Ids \ built : artifacts[id].status = "READY"}])
     /\ UNCHANGED <<ledger, landed, artifacts, index, completed, counters, overlapped>>
MarkStale(b) ==
  /\ At(b, "mark")
  /\ artifacts' = [id \in Ids |-> IF id \in task[b].stale THEN [artifacts[id] EXCEPT !.status = "STALE"]
                                  ELSE artifacts[id]]
  /\ Goto(b, After(task[b].op, "read"))
  /\ UNCHANGED <<ledger, landed, index, completed, counters, overlapped>>

-----------------------------------------------------------------------------
(* RetrievalService.rebuild: three transactions from one projection.       *)

ReadForIndex(b) ==
  /\ At(b, "index")
  /\ Become(b, [task[b] EXCEPT !.at = "documents", !.v2 = Now])
  /\ UNCHANGED <<ledger, landed, artifacts, index, completed, counters, overlapped>>
ReplacePart(b, part, next) ==
  /\ At(b, part)
  /\ index' = [index EXCEPT ![part] = task[b].v2]
  /\ Goto(b, next)
  /\ UNCHANGED <<ledger, landed, artifacts, completed, counters, overlapped>>
ReplaceDocuments(b) == ReplacePart(b, "documents", "links")
ReplaceLinks(b) == ReplacePart(b, "links", "code")
ReplaceCode(b) == ReplacePart(b, "code", After(task[b].op, "index"))

-----------------------------------------------------------------------------
(* cold_start, after ingest and extraction.                                *)

\* commit_batch_drafts: one draft after another; one that cannot be committed
\* does not stop the others, one committed before is skipped.
CommitDraft(b, ok) ==
  /\ At(b, "drafts")
  /\ \E d \in task[b].drafts :
       LET lands == ok /\ landed[d] = 0
           t == [task[b] EXCEPT !.drafts = @ \ {d}, !.committed = IF lands THEN @ \cup {d} ELSE @]
       IN /\ landed' = IF lands THEN [landed EXCEPT ![d] = Now + 1] ELSE landed
          /\ IF lands THEN \E s \in Scenarios : Extend(Touched(s)) ELSE UNCHANGED ledger
          /\ task' = [(IF lands THEN Alone(task) ELSE task) EXCEPT ![b] = t]
  /\ UNCHANGED <<artifacts, index, completed, counters, overlapped>>
BatchDone(b) ==
  /\ At(b, "drafts")
  /\ task[b].drafts = {}
  /\ Goto(b, After(task[b].op, "drafts"))
  /\ UNCHANGED <<ledger, landed, artifacts, index, completed, counters, overlapped>>
\* The report is appended to the audit when all is built.
Complete(b) ==
  /\ At(b, "audit")
  /\ completed' = completed \cup {[committed |-> task[b].committed, views |-> task[b].v, index |-> task[b].v2]}
  /\ Goto(b, "done")
  /\ UNCHANGED <<ledger, landed, artifacts, index, counters, overlapped>>

-----------------------------------------------------------------------------
(* verify, its part about the derived views.                               *)

ReadyViews(rows) == [id \in {id \in Ids : rows[id].status = "READY"} |-> rows[id].digest]
\* What a build finds that reads v first and packs the core context at v2.
ViewsOf(v, v2) ==
  [id \in {"atomic", "core"} \cup Active(v) |->
     IF id = "atomic" THEN <<v>> ELSE IF id = "core" THEN <<v, v2>> ELSE <<ledger[v][id]>>]
\* A slip: the artifacts are counted off, their content is not looked at.
SameNames(found, expected) == DOMAIN found = DOMAIN expected
\* missing, unexpected and mismatched are empty.
Same(found, expected) == found = expected

BeginVerify(b) ==
  /\ At(b, "idle")
  /\ calls < MaxCalls /\ calls' = calls + 1
  /\ Become(b, [at |-> "rows", op |-> "verify"])
  /\ UNCHANGED <<ledger, landed, artifacts, index, completed, commits, crashes, overlapped>>
\* Without any managed row there is nothing to check.
ReadRows(b) ==
  /\ At(b, "rows")
  /\ Become(b, IF \A id \in Ids : artifacts[id] = NoArtifact
               THEN [at |-> "done", op |-> "verify", valid |-> TRUE, checked |-> FALSE]
               ELSE [at |-> "rebuild", op |-> "verify", rows |-> artifacts, head |-> Now])
  /\ UNCHANGED <<ledger, landed, artifacts, index, completed, counters, overlapped>>
\* The same builder builds into a store of its own.
RebuildProjection(b) ==
  /\ At(b, "rebuild")
  /\ Become(b, [at |-> "repack", op |-> "verify", rows |-> task[b].rows, head |-> task[b].head, v |-> Now])
  /\ UNCHANGED <<ledger, landed, artifacts, index, completed, counters, overlapped>>
RebuildCore(b) ==
  /\ At(b, "repack")
  /\ Become(b, [at |-> "done", op |-> "verify", checked |-> TRUE,
                rows |-> task[b].rows, head |-> task[b].head,
                valid |-> Same(ReadyViews(task[b].rows), ViewsOf(task[b].v, Now))])
  /\ UNCHANGED <<ledger, landed, artifacts, index, completed, counters, overlapped>>

-----------------------------------------------------------------------------
Return(b) ==
  /\ At(b, "done")
  /\ Become(b, Idle)
  /\ UNCHANGED <<ledger, landed, artifacts, index, completed, counters, overlapped>>
Crash(b) ==
  /\ ~At(b, "idle") /\ ~At(b, "done")
  /\ crashes < MaxCrashes /\ crashes' = crashes + 1
  /\ Become(b, Idle)
  /\ UNCHANGED <<ledger, landed, artifacts, index, completed, commits, calls, overlapped>>

Step(b) ==
  \/ ReadProjection(b) \/ BuildAtomic(b) \/ BuildScenario(b) \/ PackCore(b) \/ BuildCore(b)
  \/ ListStale(b) \/ MarkStale(b)
  \/ ReadForIndex(b) \/ ReplaceDocuments(b) \/ ReplaceLinks(b) \/ ReplaceCode(b)
  \/ CommitDraft(b, TRUE) \/ BatchDone(b) \/ Complete(b)
  \/ ReadRows(b) \/ RebuildProjection(b) \/ RebuildCore(b) \/ Return(b)

Next ==
  \/ \E b \in Builders :
       \/ \E op \in {"consolidate", "cold"} : Begin(b, op)
       \/ BeginVerify(b) \/ Step(b) \/ CommitDraft(b, FALSE) \/ Crash(b)
  \/ \E s \in Scenarios : OthersCommit(Touched(s))
  \/ \E s \in Active(Now) : OthersCommit(Retired(s))
  \/ OthersCommit(ledger[Now])

Spec == Init /\ [][Next]_vars

-----------------------------------------------------------------------------
(***************************************************************************)
(* Properties.                                                             *)
(***************************************************************************)
FinishedAlone(b) == At(b, "done") /\ task[b].op # "verify" /\ task[b].alone
Right(id) ==
  LET expected == ViewsOf(Now, Now)
  IN IF id \in DOMAIN expected
     THEN artifacts[id] = [status |-> "READY", digest |-> expected[id]]
     ELSE artifacts[id].status # "READY"
\* The one thing no build repairs: marked stale by another build while its
\* records are those of the current state.
Buried(id) ==
  /\ id \in Active(Now)
  /\ artifacts[id] = [status |-> "STALE", digest |-> <<ledger[Now][id]>>]

\* Whatever dead or overlapping builds have left, a build that was alone from
\* its begin to its end leaves every view and every part of the index as of
\* the current state, but for a view that overlapping builds have buried.
LoneBuildRepairs ==
  \A b \in Builders : FinishedAlone(b) =>
    /\ \A p \in Parts : index[p] = Now
    /\ \A id \in Ids : Right(id) \/ (overlapped /\ Buried(id))

\* verify reads the artifacts, rebuilds, and compares, while the ledger moves;
\* what it calls valid is exactly the views of the state there was when it read
\* them: no commit can make stale views look current.
ValidWasExact ==
  \A b \in Builders :
    At(b, "done") /\ task[b].op = "verify" /\ task[b].valid /\ task[b].checked =>
      ReadyViews(task[b].rows) = ViewsOf(task[b].head, task[b].head)

\* The views and the index a cold start reports were made after every draft it
\* reports committed: its first handoff has them.
HandoffCoversDrafts ==
  \A r \in completed : \A d \in r.committed :
    landed[d] \in 1 .. r.views /\ landed[d] \in 1 .. r.index
=============================================================================
