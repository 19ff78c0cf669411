------------------------------- MODULE Backup -------------------------------
(***************************************************************************)
(* Exporting a workspace to a package, and restoring a package.            *)
(*                                                                         *)
(* An export locks nothing: it verifies the workspace statement by         *)
(* statement, then copies the kernel database, the product database and    *)
(* the files, while other programs commit and write.  The copies are of    *)
(* different moments; the manifest has the roots verify found.  A restore  *)
(* stages the package beside its destination, verifies it there, compares  *)
(* it with the manifest, and moves it into place.                          *)
(***************************************************************************)
EXTENDS Naturals, Sequences, FiniteSets

CONSTANTS
  Programs,         \* those that export and restore
  Paths,            \* of packages
  Places,           \* destinations of restores
  MaxWrites,        \* bound on the writes of other programs
  MaxCalls,         \* bound on exports and restores
  MaxCrashes        \* bound on deaths

VARIABLES
  kernel,           \* the kernel database: ledger entries, rejected receipts
  product,          \* the product database: ingest items, drafts, views
  blobs,            \* the blobs of the ingested items
  packages,         \* at each path: none, partial, or a package
  places,           \* at each destination: absent, empty, or a workspace
  task,             \* where each program stands
  writes, calls, crashes,    \* counted against their bounds
  states            \* history: what the ledger and the product tables have been together

source == <<kernel, product, blobs>>
counters == <<writes, calls, crashes>>
vars == <<source, packages, places, task, counters, states>>

None == [kind |-> "none"]
Partial == [kind |-> "partial"]
Empty == [kind |-> "empty"]
Idle == [at |-> "idle"]
At(p, label) == task[p].at = label
Become(p, t) == task' = [task EXCEPT ![p] = t]
Goto(p, label) == Become(p, [task[p] EXCEPT !.at = label])
Fail(p) == Become(p, [at |-> "failed", op |-> task[p].op])

\* The tables the hash of the product state is taken over, one after another.
Tables == <<"items", "drafts", "views">>
NoTables == [items |-> 0, drafts |-> 0, views |-> 0]
\* The statements of verify that read the ledger: its rows, the roots and the
\* receipts beside them, the state root, and the replay.
LedgerReads == <<"rows", "roots", "receipts", "root", "replay">>
NoLedger == [ledger |-> 0, rejected |-> 0]
\* The views are those of the ledger they were built from.
State(k, d) == <<k.ledger, d>>

Init ==
  /\ kernel = [ledger |-> 1, rejected |-> 0]
  /\ product = [NoTables EXCEPT !.views = 1]
  /\ blobs = {}
  /\ packages = [path \in Paths |-> None]
  /\ places \in [Places -> {None, Empty}]
  /\ task = [p \in Programs |-> Idle]
  /\ writes = 0 /\ calls = 0 /\ crashes = 0
  /\ states = {State(kernel, product)}

-----------------------------------------------------------------------------
(* Other programs; their own steps are the matter of other modules.        *)

\* Only a rejected proposal leaves every running export undisturbed.
Disturbed == [p \in Programs |-> IF "quiet" \in DOMAIN task[p] THEN [task[p] EXCEPT !.quiet = FALSE] ELSE task[p]]
Write(k, d, b) ==
  /\ writes < MaxWrites /\ writes' = writes + 1
  /\ kernel' = k /\ product' = d /\ blobs' = b
  /\ states' = states \cup {State(k, d)}
  /\ task' = IF d = product /\ k.ledger = kernel.ledger /\ b = blobs THEN task ELSE Disturbed
  /\ UNCHANGED <<packages, places, calls, crashes>>
Commit == Write([kernel EXCEPT !.ledger = @ + 1], product, blobs)
Reject == Write([kernel EXCEPT !.rejected = @ + 1], product, blobs)
\* Ingest preserves the blob of an item before it tells of the item.
PreserveBlob == Write(kernel, product, blobs \cup {product.items + 1})
PutItem ==
  /\ product.items + 1 \in blobs
  /\ Write(kernel, [product EXCEPT !.items = @ + 1], blobs)
PutDraft == Write(kernel, [product EXCEPT !.drafts = @ + 1], blobs)
Build == Write(kernel, [product EXCEPT !.views = kernel.ledger], blobs)
Others == Commit \/ Reject \/ PreserveBlob \/ PutItem \/ PutDraft \/ Build

-----------------------------------------------------------------------------
(* verify, as an export calls it.                                          *)

BeginExport(p, path) ==
  /\ At(p, "idle")
  /\ calls < MaxCalls /\ calls' = calls + 1
  /\ Become(p, [at |-> "ledger", op |-> "export", path |-> path, quiet |-> TRUE,
                next |-> 1, seen |-> {}, root |-> 0, views |-> 0, valid |-> FALSE, hash |-> <<>>,
                kernel |-> NoLedger, product |-> NoTables, blobs |-> {}])
  /\ UNCHANGED <<source, packages, places, writes, crashes, states>>
\* Every statement sees the ledger as it is by then.
ReadLedger(p) ==
  LET last == task[p].next = Len(LedgerReads)
  IN /\ At(p, "ledger")
     /\ Become(p, [task[p] EXCEPT !.seen = @ \cup {kernel.ledger},
                                  !.next = IF last THEN 1 ELSE @ + 1,
                                  !.at = IF last THEN "state root" ELSE @])
     /\ UNCHANGED <<source, packages, places, counters, states>>
\* The ledger verifies when its statements agree.
Verifies(seen) == Cardinality(seen) = 1
\* A slip: rejected receipts are part of the root.
RootWithReceipts(k) == k.ledger + k.rejected
RootOf(k) == k.ledger
\* The root of the manifest is read after the ledger was verified.
ReadStateRoot(p) ==
  /\ At(p, "state root")
  /\ Become(p, [task[p] EXCEPT !.at = "views", !.root = RootOf(kernel)])
  /\ UNCHANGED <<source, packages, places, counters, states>>
\* The artifacts are listed, and then built again from the ledger.
ListViews(p) ==
  /\ At(p, "views")
  /\ Become(p, [task[p] EXCEPT !.at = "rebuild", !.views = product.views])
  /\ UNCHANGED <<source, packages, places, counters, states>>
RebuildViews(p) ==
  /\ At(p, "rebuild")
  /\ Become(p, [task[p] EXCEPT !.at = "hash",
                               !.valid = Verifies(task[p].seen) /\ task[p].views = kernel.ledger])
  /\ UNCHANGED <<source, packages, places, counters, states>>
HashTable(p) ==
  LET t == Tables[Len(task[p].hash) + 1]
      hash == Append(task[p].hash, product[t])
  IN /\ At(p, "hash")
     /\ Become(p, [task[p] EXCEPT !.hash = hash, !.at = IF Len(hash) = Len(Tables) THEN "check" ELSE @])
     /\ UNCHANGED <<source, packages, places, counters, states>>
HashOf(d) == [i \in DOMAIN Tables |-> d[Tables[i]]]

-----------------------------------------------------------------------------
(* export_backup.                                                          *)

CheckSource(p) ==
  /\ At(p, "check")
  /\ IF task[p].valid THEN Goto(p, "copy") ELSE Fail(p)
  /\ UNCHANGED <<source, packages, places, counters, states>>
\* The kernel database, then the product database, then the files; a database
\* is copied as it is at one moment.
CopyKernel(p) ==
  /\ At(p, "copy")
  /\ Become(p, [task[p] EXCEPT !.at = "copy product", !.kernel = kernel])
  /\ UNCHANGED <<source, packages, places, counters, states>>
CopyProduct(p) ==
  /\ At(p, "copy product")
  /\ Become(p, [task[p] EXCEPT !.at = "copy files", !.product = product])
  /\ UNCHANGED <<source, packages, places, counters, states>>
CopyFiles(p) ==
  /\ At(p, "copy files")
  /\ Become(p, [task[p] EXCEPT !.at = "open", !.blobs = blobs])
  /\ UNCHANGED <<source, packages, places, counters, states>>
\* The package is written where it shall be, over one that is there.
OpenPackage(p) ==
  /\ At(p, "open")
  /\ packages' = [packages EXCEPT ![task[p].path] = Partial]
  /\ Goto(p, "zip")
  /\ UNCHANGED <<source, places, counters, states>>
ClosePackage(p) ==
  LET t == task[p]
  IN /\ At(p, "zip")
     /\ packages' = [packages EXCEPT ![t.path] =
          [kind |-> "package", kernel |-> t.kernel, product |-> t.product, blobs |-> t.blobs,
           root |-> t.root, hash |-> t.hash, quiet |-> t.quiet]]
     /\ Become(p, [at |-> "done", op |-> "export"])
     /\ UNCHANGED <<source, places, counters, states>>

-----------------------------------------------------------------------------
(* restore_backup.                                                         *)

\* A place with anything in it is refused.
BeginRestore(p, path, place) ==
  /\ At(p, "idle")
  /\ calls < MaxCalls /\ calls' = calls + 1
  /\ Become(p, [at |-> IF places[place].kind = "workspace" THEN "failed" ELSE "stage",
                op |-> "restore", path |-> path, place |-> place])
  /\ UNCHANGED <<source, packages, places, writes, crashes, states>>
\* Every entry must be there with its size and hash; a package another export
\* is writing has no directory of entries yet.
Unzip(p) ==
  LET found == packages[task[p].path]
  IN /\ At(p, "stage")
     /\ IF found.kind = "package" THEN Become(p, [at |-> "verify", op |-> "restore", place |-> task[p].place, staged |-> found])
        ELSE Fail(p)
     /\ UNCHANGED <<source, packages, places, counters, states>>
\* A slip: the hash of the product state is not compared.
StagedByRoot(w) ==
  /\ w.product.views = w.kernel.ledger
  /\ RootOf(w.kernel) = w.root
\* The staged workspace verifies, and is the one the manifest tells of.
StagedIsRight(w) ==
  /\ w.product.views = w.kernel.ledger
  /\ RootOf(w.kernel) = w.root
  /\ HashOf(w.product) = w.hash
VerifyStaged(p) ==
  /\ At(p, "verify")
  /\ IF StagedIsRight(task[p].staged) THEN Goto(p, "rmdir") ELSE Fail(p)
  /\ UNCHANGED <<source, packages, places, counters, states>>
\* An empty destination is removed; one that is no longer empty ends the restore.
RemovePlace(p) ==
  /\ At(p, "rmdir")
  /\ IF places[task[p].place].kind = "workspace" THEN Fail(p) /\ UNCHANGED places
     ELSE places' = [places EXCEPT ![task[p].place] = None] /\ Goto(p, "move")
  /\ UNCHANGED <<source, packages, counters, states>>
Workspace(w) == [kind |-> "workspace", kernel |-> w.kernel, product |-> w.product, blobs |-> w.blobs]
\* os.replace moves a directory only where nothing, or an empty one, is.
MovePlace(p) ==
  /\ At(p, "move")
  /\ IF places[task[p].place].kind = "workspace" THEN Fail(p) /\ UNCHANGED places
     ELSE /\ places' = [places EXCEPT ![task[p].place] = Workspace(task[p].staged)]
          /\ Become(p, [at |-> "done", op |-> "restore"])
  /\ UNCHANGED <<source, packages, counters, states>>

-----------------------------------------------------------------------------
Return(p) ==
  /\ task[p].at \in {"failed", "done"}
  /\ Become(p, Idle)
  /\ UNCHANGED <<source, packages, places, counters, states>>
\* What was staged, or copied, is left behind beside the destination.
Crash(p) ==
  /\ task[p].at \notin {"idle", "failed", "done"}
  /\ crashes < MaxCrashes /\ crashes' = crashes + 1
  /\ Become(p, Idle)
  /\ UNCHANGED <<source, packages, places, writes, calls, states>>

Next ==
  \/ Others
  \/ \E p \in Programs :
       \/ \E path \in Paths : BeginExport(p, path) \/ (\E place \in Places : BeginRestore(p, path, place))
       \/ ReadLedger(p) \/ ReadStateRoot(p) \/ ListViews(p) \/ RebuildViews(p) \/ HashTable(p)
       \/ CheckSource(p) \/ CopyKernel(p) \/ CopyProduct(p) \/ CopyFiles(p) \/ OpenPackage(p) \/ ClosePackage(p)
       \/ Unzip(p) \/ VerifyStaged(p) \/ RemovePlace(p) \/ MovePlace(p)
       \/ Return(p) \/ Crash(p)

Spec == Init /\ [][Next]_vars

-----------------------------------------------------------------------------
(***************************************************************************)
(* Properties.                                                             *)
(***************************************************************************)
Restored == {place \in Places : places[place].kind = "workspace"}

\* The databases of a package are copied at different moments of a workspace
\* that is written meanwhile; what is restored from it is nevertheless a state
\* the workspace was in at one moment, with views that are those of its ledger.
\* Every item of it has its blob, which verify does not look for: the files are
\* copied after the databases that name them.  And restores that race for one
\* destination, or die in it, never replace a workspace.
IsWhole(w) ==
  /\ State(w.kernel, w.product) \in states /\ w.product.views = w.kernel.ledger
  /\ \A i \in 1 .. w.product.items : i \in w.blobs
RestoredIsWhole ==
  [][/\ \A place \in Restored : places'[place] = places[place]
     /\ (\A place \in Restored : IsWhole(places[place]))']_vars

\* While nobody wrote to the workspace, but for rejected proposals, an export of
\* current views does not fail, and what it makes can be restored: statements
\* of verify and copies may only disagree over what was committed between them.
QuietExportRestores ==
  /\ \A p \in Programs :
       At(p, "check") /\ task[p].quiet /\ product.views = kernel.ledger => task[p].valid
  /\ \A path \in Paths :
       packages[path].kind = "package" /\ packages[path].quiet => StagedIsRight(packages[path])
=============================================================================
