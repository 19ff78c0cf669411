------------------------------- MODULE Ingest -------------------------------
(***************************************************************************)
(* Bulk ingest: source files are registered in the kernel database, kept   *)
(* as blobs beside it, and noted as items of a batch in the product        *)
(* database; extraction then stages drafts from the registered sources.    *)
(*                                                                         *)
(* An ingest that dies is resumed by running it again: the batch has the   *)
(* identity of its manifest.  No transaction spans the two databases and   *)
(* the blob directory, so each write is a step, and other processes run    *)
(* between the steps.                                                      *)
(*                                                                         *)
(* A revision is a source with its content; it stands for revision_id,     *)
(* item_id and the idempotency key of its registration, which are hashes   *)
(* of it.  A draft is named by its digest, which covers its revision and   *)
(* not its batch.                                                          *)
(***************************************************************************)
EXTENDS Naturals, Sequences, SequencesExt

CONSTANTS
  Clients,          \* processes
  Paths, Sources, Contents,
  Manifests,        \* sequences of candidates: [path, source, content]
  Dated,            \* contents that carry the time of their capture
  Candidates,       \* what extraction finds in a revision: a sequence of drafts
  MaxCalls, MaxTime \* bounds on the calls of one behaviour and on its seconds

Revisions == Sources \X Contents
RevisionOf(candidate) == <<candidate.source, candidate.content>>

ASSUME ManifestAssumption ==
  \A m \in Manifests :
    /\ Len(m) \in Nat \ {0} /\ DOMAIN m = 1 .. Len(m)
    /\ \A i \in DOMAIN m : RevisionOf(m[i]) \in Revisions
ASSUME CandidatesAssumption ==
  \A r \in Revisions : Candidates[r] \in Seq(ToSet(Candidates[r]))

VARIABLES
  sources,          \* kernel: the proposal that registered each revision
  blobs,            \* the file of each content: absent, partial or whole
  batches,          \* the status of each batch, by manifest
  items,            \* the items of each batch: status by revision
  drafts,           \* the drafts staged: [batch, status]
  task,             \* where each client stands
  calls, now,       \* calls started; seconds
  raced,            \* history: batches that two calls ingested at once
  extracted         \* history: what complete extractions have covered

product == <<batches, items, drafts>>
vars == <<sources, blobs, product, task, calls, now, raced, extracted>>

Done == {"IMPORTED", "UNCHANGED"}
Empty == [x \in {} |-> x]
Put(f, x, y) == [z \in DOMAIN f \cup {x} |-> IF z = x THEN y ELSE f[z]]
Idle == [at |-> "idle"]

At(c, label) == task[c].at = label
Become(c, t) == task' = [task EXCEPT ![c] = t]
Goto(c, label) == Become(c, [task[c] EXCEPT !.at = label])
Ingesting(c, m) ==
  task[c].at \notin {"idle", "extract", "stage"} /\ ~task[c].adding /\ task[c].batch = m

Init ==
  /\ sources = Empty
  /\ blobs = [x \in Contents |-> "absent"]
  /\ batches = Empty
  /\ items = [m \in Manifests |-> Empty]
  /\ drafts = Empty
  /\ task = [c \in Clients |-> Idle]
  /\ calls = 0 /\ now = 0
  /\ raced = {} /\ extracted = {}

Call(c, t) ==
  /\ At(c, "idle")
  /\ calls < MaxCalls
  /\ calls' = calls + 1
  /\ Become(c, t)
  /\ UNCHANGED <<sources, blobs, product, now, extracted>>

-----------------------------------------------------------------------------
(* ingest.  The candidates are read once; the batch is looked up.          *)

Ingest(c, m) ==
  /\ m \in DOMAIN batches => batches[m] # "COMPLETED"
  /\ Call(c, [at |-> IF m \in DOMAIN batches THEN "list" ELSE "start", adding |-> FALSE,
              batch |-> m, since |-> now, prior |-> Empty, n |-> 1, status |-> "", results |-> <<>>])
  /\ raced' = IF \E b \in Clients : Ingesting(b, m) THEN raced \cup {m} ELSE raced

\* What an earlier run of the batch has done.
ListItems(c) ==
  /\ At(c, "list")
  /\ Become(c, [task[c] EXCEPT !.at = "start", !.prior = items[task[c].batch]])
  /\ UNCHANGED <<sources, blobs, product, calls, now, raced, extracted>>

PutBatch(c, status, label) ==
  /\ batches' = Put(batches, task[c].batch, status)
  /\ Goto(c, label)
  /\ UNCHANGED <<sources, blobs, items, drafts, calls, now, raced, extracted>>

Start(c) == At(c, "start") /\ PutBatch(c, "RUNNING", "item")

Candidate(c) == task[c].batch[task[c].n]
Revision(c) == IF task[c].adding THEN task[c].revision ELSE RevisionOf(Candidate(c))

\* A document without a date of its own is dated when it was read.
Proposal(c) ==
  IF task[c].adding THEN task[c].proposal
  ELSE [path |-> Candidate(c).path, owner |-> "ingest", proposer |-> "ingest",
        stamp |-> IF Candidate(c).content \in Dated THEN 0 ELSE task[c].since]

ToPut(c, status) == Become(c, [task[c] EXCEPT !.at = "put", !.status = status])

\* A slip: an item that failed counts as imported.
WasImportedAnyhow(r) == \E m \in Manifests : r \in DOMAIN items[m]
WasImported(r) == \E m \in Manifests : r \in DOMAIN items[m] /\ items[m][r] \in Done

\* What an earlier run, or another batch, has imported is not registered again.
Consider(c) ==
  LET r == Revision(c)
      prior == task[c].prior
  IN /\ At(c, "item")
     /\ IF r \in DOMAIN prior /\ prior[r] \in Done THEN ToPut(c, prior[r])
        ELSE IF WasImported(r) THEN ToPut(c, "UNCHANGED")
        ELSE Goto(c, "look")
     /\ UNCHANGED <<sources, blobs, product, calls, now, raced, extracted>>

\* _register_source looks for the row before it proposes.
Look(c) ==
  /\ At(c, "look")
  /\ IF Revision(c) \in DOMAIN sources THEN ToPut(c, "UNCHANGED") ELSE Goto(c, "commit")
  /\ UNCHANGED <<sources, blobs, product, calls, now, raced, extracted>>

\* The registry cannot be read, or the kernel refuses the source.
CannotRegister(c) ==
  /\ At(c, "look")
  /\ ToPut(c, "FAILED")
  /\ UNCHANGED <<sources, blobs, product, calls, now, raced, extracted>>

\* The item is noted; of two candidates with one revision the later one stays.
PutItem(c) ==
  /\ At(c, "put")
  /\ items' = [items EXCEPT ![task[c].batch] = Put(@, Revision(c), task[c].status)]
  /\ Become(c, [task[c] EXCEPT !.at = IF task[c].n = Len(task[c].batch) THEN "end" ELSE "item",
                               !.n = @ + 1, !.results = Append(@, task[c].status)])
  /\ UNCHANGED <<sources, blobs, batches, drafts, calls, now, raced, extracted>>

Outcome(results) ==
  IF ToSet(results) = {"FAILED"} THEN "FAILED"
  ELSE IF "FAILED" \in ToSet(results) THEN "PARTIAL" ELSE "COMPLETED"

Finish(c) ==
  /\ At(c, "end")
  /\ batches' = Put(batches, task[c].batch, Outcome(task[c].results))
  /\ Become(c, Idle)
  /\ UNCHANGED <<sources, blobs, items, drafts, calls, now, raced, extracted>>

-----------------------------------------------------------------------------
(* Registration: the kernel's commit and the blob.  ingest commits first,  *)
(* add_source preserves the blob first.                                    *)

\* add_source of one file; a revision that is there is proposed as it is.
AddSource(c, path, r) ==
  LET proposal == IF r \in DOMAIN sources THEN [sources[r] EXCEPT !.proposer = "cli"]
                  ELSE [path |-> path, stamp |-> now, owner |-> "cli", proposer |-> "cli"]
  IN /\ Call(c, [at |-> "blob", adding |-> TRUE, revision |-> r, proposal |-> proposal])
     /\ UNCHANGED raced

\* The kernel accepts a key once, and refuses another proposal under it.
Register(c) ==
  LET r == Revision(c)
  IN /\ At(c, "commit")
     /\ sources' = IF r \in DOMAIN sources THEN sources ELSE Put(sources, r, Proposal(c))
     /\ IF task[c].adding THEN Become(c, Idle)
        ELSE IF sources'[r] = Proposal(c) THEN Goto(c, "blob") ELSE ToPut(c, "FAILED")
     /\ UNCHANGED <<blobs, product, calls, now, raced, extracted>>

Preserved(c) == IF task[c].adding THEN Goto(c, "commit") ELSE ToPut(c, "IMPORTED")
NotPreserved(c) == IF task[c].adding THEN Become(c, Idle) ELSE ToPut(c, "FAILED")

\* A slip: a file of that name is taken for the blob.
CreateBlobUnverified(c) ==
  LET x == Revision(c)[2]
  IN /\ At(c, "blob")
     /\ IF blobs[x] = "absent"
        THEN blobs' = [blobs EXCEPT ![x] = "partial"] /\ Goto(c, "write")
        ELSE blobs' = blobs /\ Preserved(c)
     /\ UNCHANGED <<sources, product, calls, now, raced, extracted>>
\* _preserve_blob creates the file exclusively; one that exists must be whole.
CreateBlob(c) ==
  LET x == Revision(c)[2]
  IN /\ At(c, "blob")
     /\ \/ blobs[x] = "absent" /\ blobs' = [blobs EXCEPT ![x] = "partial"] /\ Goto(c, "write")
        \/ blobs[x] = "whole" /\ blobs' = blobs /\ Preserved(c)
        \/ blobs[x] = "partial" /\ blobs' = blobs /\ NotPreserved(c)
     /\ UNCHANGED <<sources, product, calls, now, raced, extracted>>
WriteBlob(c) ==
  /\ At(c, "write")
  /\ blobs' = [blobs EXCEPT ![Revision(c)[2]] = "whole"]
  /\ Preserved(c)
  /\ UNCHANGED <<sources, product, calls, now, raced, extracted>>

\* The disk refuses, before or after the file was created.
CannotWrite(c) ==
  /\ task[c].at \in {"blob", "write"}
  /\ NotPreserved(c)
  /\ UNCHANGED <<sources, blobs, product, calls, now, raced, extracted>>

-----------------------------------------------------------------------------
(* extract.  The items are listed once and extracted one after another.    *)

Extract(c, m) ==
  /\ m \in DOMAIN batches
  /\ LET listed == {r \in DOMAIN items[m] : items[m][r] \in Done}
     IN Call(c, [at |-> "extract", batch |-> m, listed |-> listed, todo |-> listed,
                 pending |-> <<>>, failed |-> FALSE, refused |-> FALSE])
  /\ UNCHANGED raced

\* The next item is read and the directives in it are collected.
LoadSource(c, r) ==
  /\ At(c, "extract")
  /\ r \in task[c].todo
  /\ r \in DOMAIN sources
  /\ Become(c, [task[c] EXCEPT !.at = "stage", !.todo = @ \ {r}, !.pending = Candidates[r]])
  /\ UNCHANGED <<sources, blobs, product, calls, now, raced, extracted>>

\* The source is missing, too large, or extraction times out: a failure of the
\* item, not of the call.
CannotExtract(c, r) ==
  /\ At(c, "extract")
  /\ r \in task[c].todo
  /\ Become(c, [task[c] EXCEPT !.todo = @ \ {r}, !.failed = TRUE])
  /\ UNCHANGED <<sources, blobs, product, calls, now, raced, extracted>>

\* A slip: a duplicate ends the item.
StageUntilDuplicate(c) ==
  LET d == Head(task[c].pending)
  IN /\ At(c, "stage")
     /\ task[c].pending # <<>>
     /\ \/ /\ d \notin DOMAIN drafts
           /\ drafts' = Put(drafts, d, [batch |-> task[c].batch, status |-> "DRAFT"])
           /\ Become(c, [task[c] EXCEPT !.pending = Tail(@)])
        \/ /\ d \in DOMAIN drafts
           /\ UNCHANGED drafts
           /\ Become(c, [task[c] EXCEPT !.pending = <<>>])
     /\ UNCHANGED <<sources, blobs, batches, items, calls, now, raced, extracted>>

\* put_draft: a duplicate in the batch is counted; a draft of another batch has
\* the same draft_id, so the insert fails and the item with it.
Stage(c) ==
  LET d == Head(task[c].pending)
      m == task[c].batch
  IN /\ At(c, "stage")
     /\ task[c].pending # <<>>
     /\ \/ /\ d \notin DOMAIN drafts
           /\ drafts' = Put(drafts, d, [batch |-> m, status |-> "DRAFT"])
           /\ Become(c, [task[c] EXCEPT !.pending = Tail(@)])
        \/ /\ d \in DOMAIN drafts
           /\ UNCHANGED drafts
           /\ IF drafts[d].batch = m THEN Become(c, [task[c] EXCEPT !.pending = Tail(@)])
              ELSE Become(c, [task[c] EXCEPT !.pending = <<>>, !.failed = TRUE, !.refused = TRUE])
     /\ UNCHANGED <<sources, blobs, batches, items, calls, now, raced, extracted>>

NextItem(c) ==
  /\ At(c, "stage")
  /\ task[c].pending = <<>>
  /\ Goto(c, "extract")
  /\ UNCHANGED <<sources, blobs, product, calls, now, raced, extracted>>

\* The report: COMPLETED unless an item failed.
Report(c) ==
  /\ At(c, "extract")
  /\ task[c].todo = {}
  /\ extracted' = IF task[c].failed THEN extracted
                  ELSE extracted \cup ({task[c].batch} \X task[c].listed)
  /\ Become(c, Idle)
  /\ UNCHANGED <<sources, blobs, product, calls, now, raced>>

-----------------------------------------------------------------------------
(* The surroundings.                                                       *)

\* A reviewer decides on a draft (module Drafts tells how).
Review(d) ==
  /\ drafts[d].status = "DRAFT"
  /\ drafts' = [drafts EXCEPT ![d].status = "REJECTED"]
  /\ UNCHANGED <<sources, blobs, batches, items, task, calls, now, raced, extracted>>

\* A process dies; a busy timeout or another exception ends the call likewise.
Crash(c) ==
  /\ ~At(c, "idle")
  /\ Become(c, Idle)
  /\ UNCHANGED <<sources, blobs, product, calls, now, raced, extracted>>

Tick ==
  /\ now < MaxTime
  /\ now' = now + 1
  /\ UNCHANGED <<sources, blobs, product, task, calls, raced, extracted>>

Next ==
  \/ \E c \in Clients :
       \/ \E m \in Manifests : Ingest(c, m) \/ Extract(c, m)
       \/ \E path \in Paths, r \in Revisions : AddSource(c, path, r)
       \/ ListItems(c) \/ Start(c) \/ Consider(c) \/ Look(c) \/ CannotRegister(c)
       \/ PutItem(c) \/ Finish(c)
       \/ Register(c) \/ CreateBlob(c) \/ WriteBlob(c) \/ CannotWrite(c)
       \/ \E r \in Revisions : LoadSource(c, r) \/ CannotExtract(c, r)
       \/ Stage(c) \/ NextItem(c) \/ Report(c) \/ Crash(c)
  \/ \E d \in DOMAIN drafts : Review(d)
  \/ Tick

Spec == Init /\ [][Next]_vars

-----------------------------------------------------------------------------
(***************************************************************************)
(* Properties.                                                             *)
(***************************************************************************)

\* An item of the product database that says IMPORTED or UNCHANGED names a
\* revision that is in the kernel database, whoever imported it, raced with
\* it, or died on the way.
ItemsRegistered ==
  \A m \in Manifests : \A r \in DOMAIN items[m] :
    items[m][r] \in Done => r \in DOMAIN sources

\* What is imported, and what add_source has registered, has its whole blob,
\* although several processes create one file and any of them may die while it
\* writes.  (An ingest that dies between the commit and the blob leaves a source
\* without one; its item is then never IMPORTED, only UNCHANGED.)
BlobBeforeTold ==
  /\ \A m \in Manifests : \A r \in DOMAIN items[m] :
       items[m][r] = "IMPORTED" => blobs[r[2]] = "whole"
  /\ \A r \in DOMAIN sources : sources[r].proposer = "cli" => blobs[r[2]] = "whole"

\* What a call reports of a batch is so.  A batch is COMPLETED only with every
\* item of its manifest imported, however often it died and was resumed; unless
\* two processes ingested it at once, for then the last to write decides.  And an
\* extraction that reports no failure has staged every candidate of the items it
\* listed under its batch, also when it was interrupted before and resumed, and
\* nobody loses them afterwards.
BatchTellsTruth ==
  /\ \A m \in DOMAIN batches \ raced :
       batches[m] = "COMPLETED" =>
         \A i \in DOMAIN m : LET r == RevisionOf(m[i])
                             IN r \in DOMAIN items[m] /\ items[m][r] \in Done
  /\ \A e \in extracted : \A d \in ToSet(Candidates[e[2]]) :
       d \in DOMAIN drafts /\ drafts[d].batch = e[1]
=============================================================================
