------------------------------- MODULE Setup -------------------------------
(***************************************************************************)
(* shared-mind setup: it finds or creates the workspace of a project,      *)
(* starts it cold, verifies it, and installs the lifecycle hooks of two    *)
(* agents and the binding that sends their sessions to the workspace.      *)
(*                                                                         *)
(* Setups are processes that share files and lock none of them.  A file is *)
(* read, created, filled or replaced in a step of its own; another setup,  *)
(* the user who edits a hooks file, a failing replace and the death of a   *)
(* process come between the steps.                                         *)
(***************************************************************************)
EXTENDS Naturals, Sequences, FiniteSets

CONSTANTS
  Setups,           \* the processes
  Explicit,         \* those called with --workspace
  PurposeOf,        \* the purpose each was given
  StartFiles,       \* what may be there already
  MaxBegun,         \* bound on the begun of one behaviour
  MaxFaults,        \* bound on installations that fail and deaths
  MaxEdits,         \* bound on the user's edits
  MaxBudget         \* MAX_SETUP_BUDGET_BYTES, in units of the default

VARIABLES
  files,            \* the hooks of Claude and of Codex, and the binding
  config, registry, \* of each workspace: Absent, Partway, or the content
  skill,            \* the skill directory: Absent, Whole, or Changed by the user
  views,            \* of each workspace: whether its derived views are fresh
  cold,             \* of each workspace: its COLD_START_COMPLETED events
  post,             \* where each setup stands
  begun, faults, edits,   \* counted against their bounds
  added,            \* history: the hooks the user has put in each file
  overlapped,       \* history: whether two setups ever ran at once
  disturbed,        \* history: the files others wrote under a running setup
  raced             \* history: the files the user edited under a setup

workspaces == <<config, registry, views, cold>>
measures == <<begun, faults, edits>>
history == <<added, overlapped, disturbed, raced>>
setupVars == <<files, workspaces, skill, post, measures, history>>

Absent == "absent"
Partway == "partial"
Whole == "whole"
Changed == "changed"
Workspaces == {"sibling", "other"}
\* A slip: the binding is published before what it stands for.
BindingFirst == <<"binding", "claude", "codex">>
Order == <<"claude", "codex", "binding">>     \* in which the files are replaced
Hooked == {"claude", "codex"}
Files == Hooked \cup {"binding"}

NoFile == [kind |-> "none"]
BadFile == [kind |-> "bad"]         \* a link, or no JSON object
HooksFile(hooks, legacy) == [kind |-> "document", hooks |-> hooks, legacy |-> legacy]
Binding(w) == [kind |-> "binding", ws |-> w]

\* The entries of a hooks file: with hooks of the user's, a managed one, or both.
HooksFiles ==
  [kind : {"document"}, hooks : Seq({"user", "managed", "mixed"}), legacy : Seq({"user", "mixed"})]
CountOf(entries, kinds) == Cardinality({i \in DOMAIN entries : entries[i] \in kinds})
\* The entries with hooks of the user's.
UserHooks(document) ==
  IF document.kind # "document" THEN 0
  ELSE CountOf(document.hooks, {"user", "mixed"}) + Len(document.legacy)

\* No purpose looks like a file that is not written; and no setup has bound the
\* project before.
ASSUME SetupAssumption ==
  /\ Explicit \subseteq Setups
  /\ MaxBudget \in Nat \ {0}
  /\ \A p \in Setups : PurposeOf[p] \notin {Absent, Partway}
  /\ \A start \in StartFiles :
       /\ start = [f \in Files |-> start[f]]
       /\ \A f \in Hooked : start[f] \in {NoFile, BadFile} \cup HooksFiles
       /\ start["binding"] \in {NoFile, BadFile}

Free == [at |-> "idle"]
On(p, label) == post[p].at = label
Assign(p, t) == post' = [post EXCEPT ![p] = t]
Move(p, label) == Assign(p, [post[p] EXCEPT !.at = label])
\* A refusal before any file is replaced.
Refuse(p) == Assign(p, [at |-> "refused"])
Busy(p) == post[p].at \notin {"idle", "refused", "failed", "done"}
\* From the first time it reads a file on, a setup works on what it read.
Holds(p, f) ==
  /\ post[p].at \notin {"idle", "refused"}
  /\ post[p].hooks
  /\ IF f = "binding" THEN post[p].ws # "none" ELSE f \in DOMAIN post[p].read
Disturb(f, others) == disturbed' = disturbed \cup {<<q, f>> : q \in {q \in others : Holds(q, f)}}

SetupInit ==
  /\ files \in StartFiles
  /\ config \in {[w \in Workspaces |-> Absent],
                 [w \in Workspaces |-> IF w = "other" THEN "old" ELSE Absent]}
  /\ registry = [w \in Workspaces |-> IF config[w] = Absent THEN Absent ELSE Whole]
  /\ skill \in {Absent, Changed}
  /\ views = [w \in Workspaces |-> "fresh"]
  /\ cold = [w \in Workspaces |-> 0]
  /\ post = [p \in Setups |-> Free]
  /\ begun = 0 /\ faults = 0 /\ edits = 0
  /\ added = [f \in Hooked |-> UserHooks(files[f])]
  /\ overlapped = FALSE /\ disturbed = {} /\ raced = {}

\* A setup has replaced, restored or removed a file.
SetFile(p, f, content) ==
  /\ files' = [files EXCEPT ![f] = content]
  /\ Disturb(f, Setups \ {p})
  /\ UNCHANGED <<added, overlapped, raced>>

-----------------------------------------------------------------------------
(* The content of the hooks files, for one event.                          *)

\* _preserve_unmanaged_hooks: entries without a managed hook stay as they are,
\* a managed hook goes, and its entry with it when nothing else is in it.
Preserve(entries) == [i \in 1 .. CountOf(entries, {"user", "mixed"}) |-> "user"]
Existing(document) == IF document = NoFile THEN HooksFile(<<>>, <<>>) ELSE document
\* A slip: only the entries of the current layout are carried over.
CodexWithoutLegacy(document) ==
  HooksFile(Append(Preserve(Existing(document).hooks), "managed"), <<>>)
ClaudeSettings(document) ==
  HooksFile(Append(Preserve(Existing(document).hooks), "managed"), Existing(document).legacy)
CodexHooks(document) ==
  HooksFile(Append(Preserve(Existing(document).hooks \o Existing(document).legacy), "managed"), <<>>)

-----------------------------------------------------------------------------
(* Finding and creating the workspace.                                     *)

\* The skill plan comes first: a changed skill is refused.
Begin(p, hooks, explicit) ==
  /\ On(p, "idle")
  /\ begun < MaxBegun /\ begun' = begun + 1
  /\ Assign(p, IF skill = Changed THEN [at |-> "refused"]
               ELSE [at |-> IF hooks THEN "claude" ELSE "resolve", hooks |-> hooks,
                     explicit |-> explicit, skill |-> skill, read |-> [f \in {} |-> NoFile],
                     plan |-> <<>>, budget |-> 1, ws |-> "none", next |-> 1, unrestored |-> FALSE])
  /\ overlapped' = (overlapped \/ \E q \in Setups : Busy(q))
  /\ disturbed' = {d \in disturbed : d[1] # p}
  /\ UNCHANGED <<files, workspaces, skill, faults, edits, added, raced>>
\* The hooks files are read before anything is written.
ReadClaude(p) ==
  /\ On(p, "claude")
  /\ IF files["claude"] = BadFile THEN Refuse(p)
     ELSE Assign(p, [post[p] EXCEPT !.at = "codex", !.read = [claude |-> files["claude"]]])
  /\ UNCHANGED <<files, workspaces, skill, measures, history>>
ReadCodex(p) ==
  /\ On(p, "codex")
  /\ IF files["codex"] = BadFile THEN Refuse(p)
     ELSE Assign(p, [post[p] EXCEPT !.at = "resolve", !.read = [claude |-> @.claude, codex |-> files["codex"]]])
  /\ UNCHANGED <<files, workspaces, skill, measures, history>>

\* Workspace.open: the configuration must decode; the registry is not read.
Opens(w) == config[w] \notin {Absent, Partway}
AfterResolve(p) == IF post[p].hooks THEN "plan" ELSE "skill"
\* _validate_binding_document: exactly the fields of a binding of this project.
ValidBinding(document) == document.kind = "binding"
\* resolve_project_workspace: and its workspace has the configuration it had.
Resolves(document) == ValidBinding(document) /\ Opens(document.ws)
\* _resolve_workspace: the explicit workspace, else the one of the binding,
\* else the sibling; what is not there yet is created, unless a binding names it.
Resolve(p) ==
  LET bound == post[p].explicit = "none" /\ files["binding"] # NoFile
      w == IF post[p].explicit # "none" THEN post[p].explicit
           ELSE IF Resolves(files["binding"]) THEN files["binding"].ws ELSE "sibling"
      Go(label) == Assign(p, [post[p] EXCEPT !.at = label, !.ws = w])
  IN /\ On(p, "resolve")
     /\ IF bound THEN IF Resolves(files["binding"]) THEN Go(AfterResolve(p)) ELSE Refuse(p)
        ELSE IF Opens(w) THEN Go(AfterResolve(p))
        ELSE IF config[w] = Absent THEN Go("config")
        ELSE Refuse(p)
     /\ UNCHANGED <<files, workspaces, skill, measures, history>>

\* Workspace.initialize: a configuration that is there must be this one ...
CheckConfig(p) ==
  LET found == config[post[p].ws]
  IN /\ On(p, "config")
     /\ IF found = Absent THEN Move(p, "create config")
        ELSE IF found = PurposeOf[p] THEN Move(p, "registry")
        ELSE Refuse(p)
     /\ UNCHANGED <<files, workspaces, skill, measures, history>>
\* ... and is created if it was not; _write_new_file says nothing when another
\* has created it meanwhile.
CreateConfig(p) ==
  /\ On(p, "create config")
  /\ IF config[post[p].ws] = Absent
     THEN config' = [config EXCEPT ![post[p].ws] = Partway] /\ Move(p, "fill config")
     ELSE UNCHANGED config /\ Move(p, "registry")
  /\ UNCHANGED <<files, registry, views, cold, skill, measures, history>>
FillConfig(p) ==
  /\ On(p, "fill config")
  /\ config' = [config EXCEPT ![post[p].ws] = PurposeOf[p]]
  /\ Move(p, "registry")
  /\ UNCHANGED <<files, registry, views, cold, skill, measures, history>>
\* The predicate registry, likewise.
CheckRegistry(p) ==
  LET found == registry[post[p].ws]
  IN /\ On(p, "registry")
     /\ IF found = Absent THEN Move(p, "create registry")
        ELSE IF found = Whole THEN Move(p, "open")
        ELSE Refuse(p)
     /\ UNCHANGED <<files, workspaces, skill, measures, history>>
CreateRegistry(p) ==
  /\ On(p, "create registry")
  /\ IF registry[post[p].ws] = Absent
     THEN registry' = [registry EXCEPT ![post[p].ws] = Partway] /\ Move(p, "fill registry")
     ELSE UNCHANGED registry /\ Move(p, "open")
  /\ UNCHANGED <<files, config, views, cold, skill, measures, history>>
FillRegistry(p) ==
  /\ On(p, "fill registry")
  /\ registry' = [registry EXCEPT ![post[p].ws] = Whole]
  /\ Move(p, "open")
  /\ UNCHANGED <<files, config, views, cold, skill, measures, history>>
\* A slip: what another process is writing is taken for written.
OpenUnread(p) ==
  /\ On(p, "open")
  /\ Move(p, AfterResolve(p))
  /\ UNCHANGED <<files, workspaces, skill, measures, history>>
\* The new workspace is opened like any other, with its kernel.
OpenNew(p) ==
  /\ On(p, "open")
  /\ IF Opens(post[p].ws) /\ registry[post[p].ws] = Whole
     THEN Move(p, AfterResolve(p)) ELSE Refuse(p)
  /\ UNCHANGED <<files, workspaces, skill, measures, history>>

-----------------------------------------------------------------------------
(* The integration plan, the skill, the cold start and the context.        *)

NewContent(p, f) ==
  IF f = "claude" THEN ClaudeSettings(post[p].read.claude)
  ELSE IF f = "codex" THEN CodexHooks(post[p].read.codex)
  ELSE Binding(post[p].ws)
\* Each destination is read again, now for the bytes a rollback restores; what
\* will be written was made of the first reading.
PlanFile(p) ==
  LET f == Order[Len(post[p].plan) + 1]
      plan == Append(post[p].plan, [original |-> files[f], content |-> NewContent(p, f)])
  IN /\ On(p, "plan")
     /\ Assign(p, [post[p] EXCEPT !.plan = plan,
                                  !.at = IF Len(plan) = Len(Order) THEN "skill" ELSE "plan"])
     /\ UNCHANGED <<files, workspaces, skill, measures, history>>
\* The skill directory is moved into place; one that has appeared meanwhile
\* must hold the same files.
ApplySkill(p) ==
  /\ On(p, "skill")
  /\ skill' = IF post[p].skill = Absent /\ skill = Absent THEN Whole ELSE skill
  /\ IF post[p].skill = Absent /\ skill = Changed THEN Refuse(p) ELSE Move(p, "service")
  /\ UNCHANGED <<files, workspaces, measures, history>>

\* ProductService opens the kernel, which reads the registry.
OpenService(p) ==
  /\ On(p, "service")
  /\ IF registry[post[p].ws] # Whole THEN Refuse(p)
     ELSE IF cold[post[p].ws] > 0 THEN Move(p, "verify") ELSE Move(p, "cold")
  /\ UNCHANGED <<files, workspaces, skill, measures, history>>
\* _next_setup_budget; 0 stands for the error that is raised again.
NextBudget(current, required) ==
  IF required <= current \/ required > MaxBudget THEN 0 ELSE required
\* One attempt of a call that may find its budget too small.
Attempt(p, required, next) ==
  LET budget == NextBudget(post[p].budget, required)
  IN IF required = 0 THEN Assign(p, [post[p] EXCEPT !.at = next, !.budget = 1])
     ELSE IF budget = 0 THEN Refuse(p)
     ELSE Assign(p, [post[p] EXCEPT !.budget = budget])
\* cold_start runs from its beginning each time and records its end; what it
\* does on the way is the matter of other modules.
ColdStart(p, required) ==
  /\ On(p, "cold")
  /\ Attempt(p, required, "verify")
  /\ cold' = [cold EXCEPT ![post[p].ws] = IF required = 0 THEN @ + 1 ELSE @]
  /\ views' = [views EXCEPT ![post[p].ws] = IF required = 0 THEN "fresh" ELSE @]
  /\ UNCHANGED <<files, config, registry, skill, measures, history>>
\* verify; stale views, and nothing else, are built again and verified again.
Verify(p) ==
  /\ On(p, "verify")
  /\ IF views[post[p].ws] = "fresh" THEN Move(p, "context") ELSE Move(p, "repair")
  /\ UNCHANGED <<files, workspaces, skill, measures, history>>
Repair(p) ==
  /\ On(p, "repair")
  /\ views' = [views EXCEPT ![post[p].ws] = "fresh"]
  /\ Move(p, "verify again")
  /\ UNCHANGED <<files, config, registry, cold, skill, measures, history>>
VerifyAgain(p) ==
  /\ On(p, "verify again")
  /\ IF views[post[p].ws] = "fresh" THEN Move(p, "context") ELSE Refuse(p)
  /\ UNCHANGED <<files, workspaces, skill, measures, history>>
Context(p, required) ==
  /\ On(p, "context")
  /\ Attempt(p, required, IF post[p].hooks THEN "stage" ELSE "done")
  /\ UNCHANGED <<files, workspaces, skill, measures, history>>

-----------------------------------------------------------------------------
(* _apply_project_integration_plan                                         *)

\* Temporary files for everything that changes.
Stage(p) ==
  /\ On(p, "stage")
  /\ Move(p, "replace")
  /\ UNCHANGED <<files, workspaces, skill, measures, history>>
Replace(p) ==
  LET f == Order[post[p].next]
      item == post[p].plan[post[p].next]
  IN /\ On(p, "replace")
     /\ IF item.content = item.original THEN UNCHANGED <<files, history>>
        ELSE SetFile(p, f, item.content)
     /\ Assign(p, [post[p] EXCEPT !.next = @ + 1,
                                  !.at = IF post[p].next = Len(Order) THEN "done" ELSE @])
     /\ UNCHANGED <<workspaces, skill, measures>>
\* An OSError, in staging or in a replace, starts the rollback.
Fault(p) ==
  /\ post[p].at \in {"stage", "replace"}
  /\ faults < MaxFaults /\ faults' = faults + 1
  /\ Assign(p, [post[p] EXCEPT !.at = "rollback", !.next = Len(Order)])
  /\ UNCHANGED <<files, workspaces, skill, begun, edits, history>>
AfterRestore(p) ==
  [post[p] EXCEPT !.next = @ - 1, !.at = IF post[p].next = 1 THEN "failed" ELSE @]
\* A slip: a file that was not there before stays.
RestoreExisting(p) ==
  LET f == Order[post[p].next]
      original == post[p].plan[post[p].next].original
  IN /\ On(p, "rollback")
     /\ IF files[f] = original \/ original = NoFile THEN UNCHANGED <<files, history>>
        ELSE SetFile(p, f, original)
     /\ Assign(p, AfterRestore(p))
     /\ UNCHANGED <<workspaces, skill, measures>>
\* In reverse, every file of the plan gets the content it had, or goes.
Restore(p) ==
  LET f == Order[post[p].next]
      original == post[p].plan[post[p].next].original
  IN /\ On(p, "rollback")
     /\ IF files[f] = original THEN UNCHANGED <<files, history>> ELSE SetFile(p, f, original)
     /\ Assign(p, AfterRestore(p))
     /\ UNCHANGED <<workspaces, skill, measures>>
\* A rollback that fails itself goes on with the next file and tells so.
RestoreFails(p) ==
  /\ On(p, "rollback")
  /\ Assign(p, [AfterRestore(p) EXCEPT !.unrestored = TRUE])
  /\ UNCHANGED <<files, workspaces, skill, measures, history>>

-----------------------------------------------------------------------------
(* Around the setups.                                                      *)

Answer(p) ==
  /\ post[p].at \in {"refused", "failed", "done"}
  /\ Assign(p, Free)
  /\ UNCHANGED <<files, workspaces, skill, measures, history>>
Death(p) ==
  /\ Busy(p)
  /\ faults < MaxFaults /\ faults' = faults + 1
  /\ Assign(p, Free)
  /\ UNCHANGED <<files, workspaces, skill, begun, edits, history>>
\* The user, or the agent, adds a hook of its own to a hooks file.
Edit(f) ==
  LET document == Existing(files[f])
  IN /\ files[f] # BadFile
     /\ edits < MaxEdits /\ edits' = edits + 1
     /\ added' = [added EXCEPT ![f] = @ + 1]
     /\ files' = [files EXCEPT ![f] = HooksFile(<<"user">> \o document.hooks, document.legacy)]
     /\ Disturb(f, Setups)
     /\ raced' = IF \E p \in Setups : Holds(p, f) THEN raced \cup {f} ELSE raced
     /\ UNCHANGED <<workspaces, skill, post, begun, faults, overlapped>>
\* A commit of another program leaves the derived views behind.
OthersCommit(w) ==
  /\ cold[w] > 0
  /\ views[w] = "fresh"
  /\ views' = [views EXCEPT ![w] = "stale"]
  /\ UNCHANGED <<files, config, registry, cold, skill, post, measures, history>>

Step(p) ==
  \/ ReadClaude(p) \/ ReadCodex(p) \/ Resolve(p)
  \/ CheckConfig(p) \/ CreateConfig(p) \/ FillConfig(p)
  \/ CheckRegistry(p) \/ CreateRegistry(p) \/ FillRegistry(p) \/ OpenNew(p)
  \/ PlanFile(p) \/ ApplySkill(p) \/ OpenService(p)
  \/ \E required \in 0 .. MaxBudget + 1 : ColdStart(p, required) \/ Context(p, required)
  \/ Verify(p) \/ Repair(p) \/ VerifyAgain(p)
  \/ Stage(p) \/ Replace(p) \/ Restore(p) \/ Answer(p)

SetupNext ==
  \/ \E p \in Setups :
       \/ \E hooks \in BOOLEAN, w \in IF p \in Explicit THEN Workspaces ELSE {"none"} : Begin(p, hooks, w)
       \/ Step(p)
       \/ Fault(p) \/ RestoreFails(p) \/ Death(p)
  \/ \E f \in Hooked : Edit(f)
  \/ \E w \in Workspaces : OthersCommit(w)

SetupSpec == SetupInit /\ [][SetupNext]_setupVars

-----------------------------------------------------------------------------
(***************************************************************************)
(* Properties.                                                             *)
(***************************************************************************)
Managed(f) == files[f].kind = "document" /\ CountOf(files[f].hooks, {"managed", "mixed"}) = 1

\* bootstrap_session, for a session of the project that starts now.
SessionStatus ==
  IF files["binding"] = NoFile THEN "PROJECT_BINDING_NOT_FOUND"
  ELSE IF ~Resolves(files["binding"]) THEN "PROJECT_BINDING_INVALID"
  ELSE IF registry[files["binding"].ws] # Whole THEN "REGISTRY_READ_FAILED"
  ELSE "READY"

\* A session that finds a binding can open its workspace: whoever created it,
\* raced for it, or died in the middle, no setup binds half a workspace.
BoundSessionOpens == files["binding"].kind = "binding" => SessionStatus = "READY"

\* A setup told that the installation failed, and not that the rollback did,
\* has left every file as its plan found it, except where others wrote too.
RollbackRestores ==
  \A p \in Setups : On(p, "failed") /\ ~post[p].unrestored =>
    \A i \in DOMAIN Order :
      <<p, Order[i]>> \notin disturbed => files[Order[i]] = post[p].plan[i].original

\* The hooks the user put in a file are never lost, by installing, migrating
\* the old layout, rolling back, dying, or all of these in two setups at once:
\* unless the edit fell between a setup's first reading and its end.
UserHooksKept == \A f \in Hooked \ raced : UserHooks(files[f]) = added[f]

\* The binding is published last: where setups follow each other, a project
\* that is bound has both agents' hooks, at every moment of a later setup too.
\* And what a setup reports as installed is there, with one managed hook in each
\* file, in a workspace that was started cold: exactly once, as the README says,
\* where no two setups overlapped.
BoundIsInstalled ==
  /\ ~overlapped /\ files["binding"].kind = "binding" => \A f \in Hooked : Managed(f)
  /\ \A p \in Setups : On(p, "done") =>
       /\ cold[post[p].ws] >= 1 /\ (~overlapped => cold[post[p].ws] = 1)
       /\ post[p].hooks =>
            /\ \A f \in Hooked : <<p, f>> \notin disturbed => Managed(f)
            /\ <<p, "binding">> \notin disturbed => files["binding"] = Binding(post[p].ws)
=============================================================================
