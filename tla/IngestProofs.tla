---------------------------- MODULE IngestProofs ----------------------------
(***************************************************************************)
(* What Ingest guarantees for any number of processes, batches and files:  *)
(* an item that says IMPORTED or UNCHANGED has its source in the kernel,   *)
(* and what is told to be imported, or was registered by add_source, has   *)
(* its whole blob; and what a batch and an extraction report is so.        *)
(***************************************************************************)
EXTENDS Ingest, TLAPS

\* What an item's status claims, with the registered revisions S and blobs B.
Backed(r, status, S, B) ==
  /\ r \in Revisions
  /\ status \in Done => r \in S
  /\ status = "IMPORTED" => B[r[2]] = "whole"

\* The fields of each kind of call.
IsIngest(t) == {"at", "adding", "batch", "prior", "n", "status", "results"} \subseteq DOMAIN t
IsAdd(t) == {"at", "adding", "revision"} \subseteq DOMAIN t
IsExtract(t) == "at" \in DOMAIN t

\* The revision an ingest is at.
Current(t) == RevisionOf(t.batch[t.n])

\* What a call knows where it stands.
GoodIngest(t, S, B) ==
  /\ IsIngest(t) /\ t.adding = FALSE
  /\ t.at \in {"list", "start", "item", "look", "commit", "blob", "write", "put", "end"}
  /\ t.batch \in Manifests
  /\ t.n \in Nat
  /\ t.at # "end" => t.n \in DOMAIN t.batch
  /\ \A r \in DOMAIN t.prior : Backed(r, t.prior[r], S, B)
  /\ t.at \in {"blob", "write"} => Current(t) \in S
  /\ t.at = "put" => Backed(Current(t), t.status, S, B)
GoodAdd(t, B) ==
  /\ IsAdd(t) /\ t.adding = TRUE
  /\ t.at \in {"blob", "write", "commit"}
  /\ t.revision \in Revisions
  /\ t.at = "commit" => B[t.revision[2]] = "whole"
GoodExtract(t) == IsExtract(t) /\ t.at \in {"extract", "stage"}
Good(t, S, B) == t = Idle \/ GoodIngest(t, S, B) \/ GoodAdd(t, B) \/ GoodExtract(t)

\* The inductive invariant, in three parts.
TaskInv ==
  /\ task = [c \in Clients |-> task[c]]
  /\ \A c \in Clients : Good(task[c], DOMAIN sources, blobs)
ItemInv ==
  /\ items = [m \in Manifests |-> items[m]]
  /\ \A m \in Manifests : \A r \in DOMAIN items[m] : Backed(r, items[m][r], DOMAIN sources, blobs)
SourceInv ==
  /\ blobs = [x \in Contents |-> blobs[x]]
  /\ DOMAIN sources \subseteq Revisions
  /\ \A r \in DOMAIN sources : sources[r].proposer = "cli" => blobs[r[2]] = "whole"
Inv == TaskInv /\ ItemInv /\ SourceInv

\* Registered revisions stay registered and whole blobs stay whole.
Grows(S, B, T, C) ==
  /\ S \subseteq T
  /\ \A x \in Contents : B[x] = "whole" => C[x] = "whole"
Grow == Grows(DOMAIN sources, blobs, DOMAIN sources', blobs')

-----------------------------------------------------------------------------
(* What holds goes on to hold.                                             *)

LEMMA BackedGrows ==
  ASSUME NEW r, NEW status, NEW S, NEW B, NEW T, NEW C,
         Backed(r, status, S, B), Grows(S, B, T, C)
  PROVE  Backed(r, status, T, C)
<1>1. r[2] \in Contents
  BY DEF Backed, Revisions
<1> QED
  BY <1>1 DEF Backed, Grows

LEMMA GoodGrows ==
  ASSUME NEW t, NEW S, NEW B, NEW T, NEW C, Good(t, S, B), Grows(S, B, T, C)
  PROVE  Good(t, T, C)
<1>1. CASE GoodIngest(t, S, B)
  <2>1. \A r \in DOMAIN t.prior : Backed(r, t.prior[r], T, C)
    BY <1>1, BackedGrows DEF GoodIngest
  <2>2. t.at = "put" => Backed(Current(t), t.status, T, C)
    BY <1>1, BackedGrows DEF GoodIngest
  <2> QED
    BY <1>1, <2>1, <2>2 DEF GoodIngest, Good, Grows
<1>2. CASE GoodAdd(t, B)
  <2>1. t.revision[2] \in Contents
    BY <1>2 DEF GoodAdd, Revisions
  <2> QED
    BY <1>2, <2>1 DEF GoodAdd, Good, Grows
<1> QED
  BY <1>1, <1>2 DEF Good

\* A step of one client to a good task keeps the tasks good.
LEMMA BecomeGood ==
  ASSUME TaskInv, Grow, NEW c \in Clients, NEW t, Become(c, t), Good(t, DOMAIN sources', blobs')
  PROVE  TaskInv'
<1>1. /\ task' = [b \in Clients |-> task'[b]]
      /\ task'[c] = t
      /\ \A b \in Clients \ {c} : task'[b] = task[b]
  BY DEF TaskInv, Become
<1>2. ASSUME NEW b \in Clients \ {c} PROVE Good(task'[b], DOMAIN sources', blobs')
  <2>1. Good(task[b], DOMAIN sources, blobs)
    BY DEF TaskInv
  <2> QED
    BY <1>1, <2>1, GoodGrows DEF Grow
<1> QED
  BY <1>1, <1>2 DEF TaskInv

\* Where the items do not change, they stay backed.
LEMMA ItemsStay ==
  ASSUME ItemInv, Grow, UNCHANGED items
  PROVE  ItemInv'
BY BackedGrows DEF ItemInv, Grow

\* Where kernel and blobs do not change, all they hold goes on.
LEMMA NothingNew ==
  ASSUME UNCHANGED <<sources, blobs>>
  PROVE  Grow
BY DEF Grow, Grows

\* A step that only moves a client.
LEMMA MoveKeeps ==
  ASSUME Inv, NEW c \in Clients, NEW t, Become(c, t), Good(t, DOMAIN sources, blobs),
         UNCHANGED <<sources, blobs, items>>
  PROVE  Inv'
<1>1. Grow
  BY NothingNew
<1>2. TaskInv'
  BY <1>1, BecomeGood DEF Inv
<1>3. ItemInv'
  BY <1>1, ItemsStay DEF Inv
<1> QED
  BY <1>2, <1>3 DEF Inv, SourceInv

-----------------------------------------------------------------------------
(* The steps that stay inside one kind of call.                            *)

\* A task at a label of ingest that is not adding is an ingest.
AtIngest(t) ==
  \/ t.at \in {"list", "start", "item", "look", "put", "end"}
  \/ t.at \in {"commit", "blob", "write"} /\ ~t.adding
LEMMA IngestAt ==
  ASSUME Inv, NEW c \in Clients, AtIngest(task[c])
  PROVE  GoodIngest(task[c], DOMAIN sources, blobs)
<1>1. Good(task[c], DOMAIN sources, blobs)
  BY DEF Inv, TaskInv
<1> QED
  BY <1>1 DEF Good, AtIngest, GoodAdd, GoodExtract, IsAdd, IsIngest, GoodIngest, Idle

LEMMA AddAt ==
  ASSUME Inv, NEW c \in Clients, task[c].at \in {"commit", "blob", "write"}, task[c].adding
  PROVE  GoodAdd(task[c], blobs)
<1>1. Good(task[c], DOMAIN sources, blobs)
  BY DEF Inv, TaskInv
<1> QED
  BY <1>1 DEF Good, GoodAdd, GoodExtract, GoodIngest, IsIngest, Idle

\* It may change its label and status and otherwise stay as it is:
Moved(u, t, label, status) ==
  /\ IsIngest(u)
  /\ u.at = label /\ u.status = status
  /\ u.adding = t.adding /\ u.batch = t.batch /\ u.prior = t.prior /\ u.n = t.n
LEMMA Relabel ==
  ASSUME NEW t, IsIngest(t), NEW label, NEW status
  PROVE  /\ Moved([t EXCEPT !.at = label], t, label, t.status)
         /\ Moved([t EXCEPT !.at = label, !.status = status], t, label, status)
BY DEF IsIngest, Moved

\* It may go to put with a status that is backed,
LEMMA ToPutGood ==
  ASSUME NEW t, NEW S, NEW B, GoodIngest(t, S, B), t.at # "end",
         NEW status, Backed(Current(t), status, S, B)
  PROVE  Good([t EXCEPT !.at = "put", !.status = status], S, B)
<1>1. PICK u : u = [t EXCEPT !.at = "put", !.status = status] /\ Moved(u, t, "put", status)
  BY Relabel, Zenon DEF GoodIngest
<1>2. GoodIngest(u, S, B)
  BY <1>1 DEF GoodIngest, Moved, Current
<1> QED
  BY <1>1, <1>2 DEF Good

\* and to another label unless that claims more than is so.
LEMMA GotoGood ==
  ASSUME NEW t, NEW S, NEW B, GoodIngest(t, S, B), t.at # "end",
         NEW label \in {"start", "item", "look", "commit", "blob", "write"},
         label \in {"blob", "write"} => Current(t) \in S
  PROVE  Good([t EXCEPT !.at = label], S, B)
<1>1. PICK u : u = [t EXCEPT !.at = label] /\ Moved(u, t, label, t.status)
  BY Relabel, Zenon DEF GoodIngest
<1>2. GoodIngest(u, S, B)
  BY <1>1 DEF GoodIngest, Moved, Current
<1> QED
  BY <1>1, <1>2 DEF Good

\* add_source goes on likewise.
LEMMA AddGoes ==
  ASSUME NEW t, NEW S, NEW B, IsAdd(t), t.adding = TRUE, t.revision \in Revisions,
         NEW label \in {"write", "commit"},
         label = "commit" => B[t.revision[2]] = "whole"
  PROVE  Good([t EXCEPT !.at = label], S, B)
BY DEF Good, GoodAdd, IsAdd

-----------------------------------------------------------------------------
(* The actions.                                                            *)

\* The calls that begin know nothing yet.
LEMMA CallsKeep ==
  ASSUME Inv, NEW c \in Clients,
         \/ \E m \in Manifests : Ingest(c, m) \/ Extract(c, m)
         \/ \E path \in Paths, r \in Revisions : AddSource(c, path, r)
  PROVE  Inv'
<1>1. ASSUME NEW m \in Manifests, Ingest(c, m)
      PROVE  Inv'
  <2> DEFINE t(label) == [at |-> label, adding |-> FALSE, batch |-> m, since |-> now,
                          prior |-> Empty, n |-> 1, status |-> "", results |-> <<>>]
  <2>1. /\ \E label \in {"list", "start"} : Become(c, t(label))
        /\ UNCHANGED <<sources, blobs, items>>
    BY <1>1 DEF Ingest, Call, product
  <2>2. 1 \in DOMAIN m
    BY ManifestAssumption
  <2>3. ASSUME NEW label \in {"list", "start"} PROVE Good(t(label), DOMAIN sources, blobs)
    BY <2>2 DEF Good, GoodIngest, IsIngest, Empty
  <2> QED
    BY <2>1, <2>3, MoveKeeps
<1>2. ASSUME NEW m \in Manifests, Extract(c, m)
      PROVE  Inv'
  <2>1. PICK listed : Become(c, [at |-> "extract", batch |-> m, listed |-> listed, todo |-> listed,
                                 pending |-> <<>>, failed |-> FALSE, refused |-> FALSE])
    BY <1>2 DEF Extract, Call
  <2>2. Good([at |-> "extract", batch |-> m, listed |-> listed, todo |-> listed,
              pending |-> <<>>, failed |-> FALSE, refused |-> FALSE], DOMAIN sources, blobs)
    BY DEF Good, GoodExtract, IsExtract
  <2>3. UNCHANGED <<sources, blobs, items>>
    BY <1>2 DEF Extract, Call, product
  <2> QED
    BY <2>1, <2>2, <2>3, MoveKeeps
<1>3. ASSUME NEW path \in Paths, NEW r \in Revisions, AddSource(c, path, r)
      PROVE  Inv'
  <2>1. PICK p : Become(c, [at |-> "blob", adding |-> TRUE, revision |-> r, proposal |-> p])
    BY <1>3 DEF AddSource, Call
  <2>2. Good([at |-> "blob", adding |-> TRUE, revision |-> r, proposal |-> p],
             DOMAIN sources, blobs)
    BY DEF Good, GoodAdd, IsAdd
  <2>3. UNCHANGED <<sources, blobs, items>>
    BY <1>3 DEF AddSource, Call, product
  <2> QED
    BY <2>1, <2>2, <2>3, MoveKeeps
<1> QED
  BY <1>1, <1>2, <1>3

\* Until it registers, an ingest learns from the items and from the kernel.
LEMMA LookingKeeps ==
  ASSUME Inv, NEW c \in Clients,
         ListItems(c) \/ Start(c) \/ Consider(c) \/ Look(c) \/ CannotRegister(c)
  PROVE  Inv'
<1> DEFINE t == task[c]
           S == DOMAIN sources
<1>0. AtIngest(task[c]) /\ task[c].at # "end"
  BY DEF AtIngest, ListItems, Start, Consider, Look, CannotRegister, At
<1>1. GoodIngest(t, S, blobs) /\ t.at # "end"
  BY <1>0, IngestAt
<1>2. UNCHANGED <<sources, blobs, items>>
  BY DEF ListItems, Start, PutBatch, Consider, Look, CannotRegister, product
<1>3. Current(t) \in Revisions /\ t.adding = FALSE /\ Revision(c) = Current(t)
  BY <1>1, ManifestAssumption DEF GoodIngest, Current, Revision, Candidate
<1>4. ASSUME NEW status, Backed(Current(t), status, S, blobs), ToPut(c, status)
      PROVE  Inv'
  BY <1>1, <1>2, <1>4, ToPutGood, MoveKeeps DEF ToPut
<1>5. ASSUME NEW label \in {"item", "look", "commit"}, Goto(c, label)
      PROVE  Inv'
  BY <1>1, <1>2, <1>5, GotoGood, MoveKeeps DEF Goto
<1>6. CASE ListItems(c)
  <2>1. PICK u : u = [t EXCEPT !.at = "start", !.prior = items[t.batch]] /\ Become(c, u)
    BY <1>6 DEF ListItems
  <2>2. /\ IsIngest(u) /\ u.at = "start" /\ u.prior = items[t.batch]
        /\ u.adding = t.adding /\ u.batch = t.batch /\ u.n = t.n /\ u.status = t.status
    BY <1>1, <2>1 DEF GoodIngest, IsIngest
  <2>3. \A r \in DOMAIN u.prior : Backed(r, u.prior[r], S, blobs)
    BY <1>1, <2>2 DEF Inv, ItemInv, GoodIngest
  <2>4. Good(u, S, blobs)
    BY <1>1, <2>2, <2>3 DEF Good, GoodIngest
  <2> QED
    BY <1>2, <2>1, <2>4, MoveKeeps
<1>7. CASE Start(c)
  BY <1>5, <1>7 DEF Start, PutBatch
<1>8. CASE Consider(c)
  <2>1. CASE Current(t) \in DOMAIN t.prior /\ t.prior[Current(t)] \in Done
    <3>1. Backed(Current(t), t.prior[Current(t)], S, blobs)
      BY <1>1, <2>1 DEF GoodIngest
    <3> QED
      BY <1>3, <1>4, <1>8, <2>1, <3>1 DEF Consider
  <2>2. CASE WasImported(Current(t))
    <3>1. Backed(Current(t), "UNCHANGED", S, blobs)
      BY <1>3, <2>2 DEF WasImported, Inv, ItemInv, Backed
    <3> QED
      BY <1>3, <1>4, <1>8, <2>1, <2>2, <3>1 DEF Consider
  <2> QED
    BY <1>3, <1>5, <1>8, <2>1, <2>2 DEF Consider
<1>9. CASE Look(c)
  <2>1. Current(t) \in S => Backed(Current(t), "UNCHANGED", S, blobs)
    BY <1>3 DEF Backed
  <2> QED
    BY <1>3, <1>4, <1>5, <1>9, <2>1 DEF Look
<1>10. CASE CannotRegister(c)
  <2>1. Backed(Current(t), "FAILED", S, blobs)
    BY <1>3 DEF Backed, Done
  <2> QED
    BY <1>4, <1>10, <2>1 DEF CannotRegister
<1> QED
  BY <1>6, <1>7, <1>8, <1>9, <1>10

\* The item that is noted is backed.
LEMMA PutItemKeeps ==
  ASSUME Inv, NEW c \in Clients, PutItem(c)
  PROVE  Inv'
<1> DEFINE t == task[c]
           S == DOMAIN sources
           label == IF t.n = Len(t.batch) THEN "end" ELSE "item"
<1>0. task[c].at = "put" /\ AtIngest(task[c])
  BY DEF PutItem, At, AtIngest
<1>1. GoodIngest(t, S, blobs)
  BY <1>0, IngestAt
<1>2. Revision(c) = Current(t) /\ Backed(Current(t), t.status, S, blobs)
  BY <1>0, <1>1 DEF GoodIngest, Current, Revision, Candidate
<1>3. UNCHANGED <<sources, blobs>>
  BY DEF PutItem
<1>4. Grow
  BY <1>3, NothingNew
<1>5. PICK u : /\ u = [t EXCEPT !.at = label, !.n = @ + 1, !.results = Append(@, t.status)]
               /\ Become(c, u)
  BY DEF PutItem
<1>6. /\ IsIngest(u) /\ u.at = label /\ u.n = t.n + 1
      /\ u.adding = t.adding /\ u.batch = t.batch /\ u.prior = t.prior
  BY <1>1, <1>5 DEF GoodIngest, IsIngest
<1>7. u.at # "end" => u.n \in DOMAIN u.batch
  BY <1>0, <1>1, <1>6, ManifestAssumption DEF GoodIngest
<1>8. Good(u, S, blobs)
  BY <1>1, <1>6, <1>7 DEF Good, GoodIngest
<1>9. TaskInv'
  BY <1>3, <1>4, <1>5, <1>8, BecomeGood DEF Inv
<1>10. ItemInv'
  <2>1. items' = [items EXCEPT ![t.batch] = Put(items[t.batch], Current(t), t.status)]
    BY <1>2 DEF PutItem
  <2>2. ASSUME NEW m \in Manifests, NEW r \in DOMAIN items'[m]
        PROVE  Backed(r, items'[m][r], S, blobs)
    <3>1. CASE m = t.batch
      <4>1. items'[m] = Put(items[m], Current(t), t.status)
        BY <2>1, <3>1 DEF Inv, ItemInv
      <4> QED
        BY <1>2, <2>2, <4>1 DEF Put, Inv, ItemInv
    <3>2. CASE m # t.batch
      BY <2>1, <2>2, <3>2 DEF Inv, ItemInv
    <3> QED
      BY <3>1, <3>2
  <2>3. items' = [m \in Manifests |-> items'[m]]
    BY <2>1 DEF Inv, ItemInv
  <2> QED
    BY <1>3, <2>2, <2>3 DEF ItemInv
<1> QED
  BY <1>3, <1>9, <1>10 DEF Inv, SourceInv

\* The last step of an ingest, and death, leave nothing behind.
LEMMA EndKeeps ==
  ASSUME Inv, NEW c \in Clients, Finish(c) \/ Report(c) \/ Crash(c)
  PROVE  Inv'
<1>1. Become(c, Idle) /\ UNCHANGED <<sources, blobs, items>>
  BY DEF Finish, Report, Crash, product
<1> QED
  BY <1>1, MoveKeeps DEF Good

\* What extraction does to its task.
LEMMA ExtractKeeps ==
  ASSUME Inv, NEW c \in Clients,
         \/ \E r \in Revisions : LoadSource(c, r) \/ CannotExtract(c, r)
         \/ Stage(c) \/ NextItem(c)
  PROVE  Inv'
<1>1. task[c].at \in {"extract", "stage"}
  BY DEF LoadSource, CannotExtract, Stage, NextItem, At
<1>2. "at" \in DOMAIN task[c]
  <2>1. Good(task[c], DOMAIN sources, blobs)
    BY DEF Inv, TaskInv
  <2> QED
    BY <1>1, <2>1 DEF Good, GoodIngest, GoodAdd, GoodExtract, IsIngest, IsAdd, IsExtract, Idle
<1>3. UNCHANGED <<sources, blobs, items>>
  BY DEF LoadSource, CannotExtract, Stage, NextItem, product
<1>4. \E u : Become(c, u) /\ "at" \in DOMAIN u /\ u.at \in {"extract", "stage"}
  <2>1. CASE \E r \in Revisions : LoadSource(c, r)
    <3>1. PICK r \in Revisions : LoadSource(c, r)
      BY <2>1
    <3>2. PICK todo, u : /\ u = [task[c] EXCEPT !.at = "stage", !.todo = todo, !.pending = Candidates[r]]
                         /\ Become(c, u)
      BY <3>1 DEF LoadSource
    <3>3. "at" \in DOMAIN u /\ u.at = "stage"
      BY <1>2, <3>2
    <3> QED
      BY <3>2, <3>3
  <2>2. CASE \E r \in Revisions : CannotExtract(c, r)
    <3>1. PICK r \in Revisions : CannotExtract(c, r)
      BY <2>2
    <3>2. PICK todo, u : u = [task[c] EXCEPT !.todo = todo, !.failed = TRUE] /\ Become(c, u)
      BY <3>1 DEF CannotExtract
    <3>3. "at" \in DOMAIN u /\ u.at = task[c].at
      BY <1>2, <3>2
    <3> QED
      BY <1>1, <3>2, <3>3
  <2>3. CASE Stage(c)
    <3>1. PICK u : /\ \/ u = [task[c] EXCEPT !.pending = Tail(@)]
                      \/ u = [task[c] EXCEPT !.pending = <<>>, !.failed = TRUE, !.refused = TRUE]
                   /\ Become(c, u)
      BY <2>3 DEF Stage
    <3> QED
      BY <1>1, <1>2, <3>1
  <2>4. CASE NextItem(c)
    BY <1>2, <2>4 DEF NextItem, Goto
  <2> QED
    BY <2>1, <2>2, <2>3, <2>4
<1>5. PICK u : Become(c, u) /\ Good(u, DOMAIN sources, blobs)
  BY <1>4 DEF Good, GoodExtract, IsExtract
<1> QED
  BY <1>3, <1>5, MoveKeeps

\* The kernel takes a revision: from an ingest that has yet to write the blob,
\* or from add_source, which has written it.
LEMMA RegisterKeeps ==
  ASSUME Inv, NEW c \in Clients, Register(c)
  PROVE  Inv'
<1> DEFINE t == task[c]
           r == Revision(c)
<1>1. task[c].at = "commit" /\ UNCHANGED <<blobs, items>>
  BY DEF Register, At, product
<1>2. sources' = IF r \in DOMAIN sources THEN sources ELSE Put(sources, r, Proposal(c))
  BY DEF Register
<1>3. r \in DOMAIN sources' /\ DOMAIN sources' = DOMAIN sources \cup {r}
  BY <1>2 DEF Put
<1>4. Grow
  BY <1>1, <1>3 DEF Grow, Grows
<1>5. ItemInv'
  BY <1>1, <1>4, ItemsStay DEF Inv
<1>6. CASE t.adding
  <2>1. GoodAdd(t, blobs)
    BY <1>1, <1>6, AddAt
  <2>2. r \in Revisions /\ blobs[r[2]] = "whole"
    BY <1>1, <1>6, <2>1 DEF GoodAdd, Revision
  <2>3. Become(c, Idle)
    BY <1>6 DEF Register
  <2>4. TaskInv'
    BY <1>4, <2>3, BecomeGood DEF Inv, Good
  <2>5. SourceInv'
    BY <1>1, <1>2, <1>3, <2>2 DEF Inv, SourceInv, Put
  <2> QED
    BY <1>5, <2>4, <2>5 DEF Inv
<1>7. CASE ~t.adding
  <2>1. GoodIngest(t, DOMAIN sources, blobs)
    <3>1. AtIngest(task[c])
      BY <1>1, <1>7 DEF AtIngest
    <3> QED
      BY <3>1, IngestAt
  <2>2. GoodIngest(t, DOMAIN sources', blobs') /\ t.at # "end"
    <3>1. Good(t, DOMAIN sources', blobs')
      BY <1>4, <2>1, GoodGrows DEF Grow, Good
    <3> QED
      BY <1>1, <1>7, <3>1 DEF Good, GoodAdd, GoodExtract, Idle
  <2>3. Current(t) \in Revisions /\ r = Current(t)
    BY <1>1, <1>7, <2>1, ManifestAssumption DEF GoodIngest, Current, Revision, Candidate
  <2>4. ASSUME Goto(c, "blob") PROVE TaskInv'
    <3>1. Good([t EXCEPT !.at = "blob"], DOMAIN sources', blobs')
      BY <1>3, <2>2, <2>3, GotoGood
    <3> QED
      BY <1>4, <2>4, <3>1, BecomeGood DEF Inv, Goto
  <2>5. ASSUME ToPut(c, "FAILED") PROVE TaskInv'
    <3>1. Backed(Current(t), "FAILED", DOMAIN sources', blobs')
      BY <2>3 DEF Backed, Done
    <3>2. Good([t EXCEPT !.at = "put", !.status = "FAILED"], DOMAIN sources', blobs')
      BY <2>2, <3>1, ToPutGood
    <3> QED
      BY <1>4, <2>5, <3>2, BecomeGood DEF Inv, ToPut
  <2>6. TaskInv'
    BY <1>7, <2>4, <2>5 DEF Register
  <2>7. Proposal(c).proposer = "ingest"
    BY <1>7 DEF Proposal
  <2>8. SourceInv'
    BY <1>1, <1>2, <1>3, <2>3, <2>7 DEF Inv, SourceInv, Put
  <2> QED
    BY <1>5, <2>6, <2>8 DEF Inv
<1> QED
  BY <1>6, <1>7

\* What happens to an ingest or an add_source once the blob is there.
LEMMA PreservedKeeps ==
  ASSUME Inv, NEW c \in Clients, task[c].at \in {"blob", "write"}, Grow, UNCHANGED <<sources, items>>,
         blobs' = [x \in Contents |-> blobs'[x]],
         \/ Preserved(c) /\ (Revision(c) \in Revisions => blobs'[Revision(c)[2]] = "whole")
         \/ NotPreserved(c)
         \/ Goto(c, "write")
  PROVE  Inv'
<1> DEFINE t == task[c]
           S == DOMAIN sources'
<1>1. ItemInv'
  BY ItemsStay DEF Inv
<1>2. SourceInv'
  <2>1. \A r \in DOMAIN sources : r[2] \in Contents
    BY DEF Inv, SourceInv, Revisions
  <2> QED
    BY <2>1 DEF Inv, SourceInv, Grow, Grows
<1>3. CASE t.adding
  <2>1. GoodAdd(t, blobs)
    BY <1>3, AddAt
  <2>2. IsAdd(t) /\ t.adding = TRUE /\ t.revision \in Revisions /\ Revision(c) = t.revision
    BY <1>3, <2>1 DEF GoodAdd, Revision
  <2>3. ASSUME NEW label \in {"write", "commit"}, Goto(c, label),
               label = "commit" => blobs'[t.revision[2]] = "whole"
        PROVE  TaskInv'
    <3>1. Good([t EXCEPT !.at = label], S, blobs')
      BY <2>2, <2>3, AddGoes
    <3> QED
      BY <2>3, <3>1, BecomeGood DEF Inv, Goto
  <2>4. ASSUME Become(c, Idle) PROVE TaskInv'
    BY <2>4, BecomeGood DEF Inv, Good
  <2>5. TaskInv'
    BY <1>3, <2>2, <2>3, <2>4 DEF Preserved, NotPreserved
  <2> QED
    BY <1>1, <1>2, <2>5 DEF Inv
<1>4. CASE ~t.adding
  <2>1. GoodIngest(t, DOMAIN sources, blobs)
    <3>1. AtIngest(t)
      BY <1>4 DEF AtIngest
    <3> QED
      BY <3>1, IngestAt
  <2>2. GoodIngest(t, S, blobs') /\ t.at # "end" /\ Current(t) \in S
    <3>1. Good(t, S, blobs')
      BY <2>1, GoodGrows DEF Grow, Good
    <3>2. GoodIngest(t, S, blobs')
      BY <1>4, <3>1 DEF Good, GoodAdd, GoodExtract, Idle
    <3> QED
      BY <3>2 DEF GoodIngest
  <2>3. Current(t) \in Revisions /\ Revision(c) = Current(t)
    BY <1>4, <2>2, ManifestAssumption DEF GoodIngest, Current, Revision, Candidate
  <2>4. ASSUME NEW status \in {"IMPORTED", "FAILED"}, ToPut(c, status),
               status = "IMPORTED" => blobs'[Current(t)[2]] = "whole"
        PROVE  TaskInv'
    <3>1. Backed(Current(t), status, S, blobs')
      BY <2>2, <2>3, <2>4 DEF Backed
    <3>2. Good([t EXCEPT !.at = "put", !.status = status], S, blobs')
      BY <2>2, <3>1, ToPutGood
    <3> QED
      BY <2>4, <3>2, BecomeGood DEF Inv, ToPut
  <2>5. ASSUME Goto(c, "write") PROVE TaskInv'
    <3>1. Good([t EXCEPT !.at = "write"], S, blobs')
      BY <2>2, GotoGood
    <3> QED
      BY <2>5, <3>1, BecomeGood DEF Inv, Goto
  <2>6. TaskInv'
    BY <1>4, <2>3, <2>4, <2>5 DEF Preserved, NotPreserved
  <2> QED
    BY <1>1, <1>2, <2>6 DEF Inv
<1> QED
  BY <1>3, <1>4

\* The blob is created, found or written.
LEMMA BlobKeeps ==
  ASSUME Inv, NEW c \in Clients, CreateBlob(c) \/ WriteBlob(c) \/ CannotWrite(c)
  PROVE  Inv'
<1> DEFINE x == Revision(c)[2]
<1>1. task[c].at \in {"blob", "write"} /\ UNCHANGED <<sources, items>>
  BY DEF CreateBlob, WriteBlob, CannotWrite, At, product
<1>2. x \in Contents
  <2>1. Good(task[c], DOMAIN sources, blobs)
    BY DEF Inv, TaskInv
  <2>2. Revision(c) \in Revisions
    BY <1>1, <2>1, ManifestAssumption
       DEF Good, GoodIngest, GoodAdd, GoodExtract, Idle, Revision, Candidate
  <2> QED
    BY <2>2 DEF Revisions
<1>3. CASE WriteBlob(c)
  <2>1. blobs' = [blobs EXCEPT ![x] = "whole"]
    BY <1>3 DEF WriteBlob
  <2>2. blobs' = [y \in Contents |-> blobs'[y]] /\ blobs'[x] = "whole" /\ Grow
    BY <1>1, <1>2, <2>1 DEF Inv, SourceInv, Grow, Grows
  <2>3. Preserved(c)
    BY <1>3 DEF WriteBlob
  <2> QED
    BY <1>1, <2>2, <2>3, PreservedKeeps
<1>4. CASE CreateBlob(c)
  <2>1. CASE blobs[x] = "absent"
    <3>1. blobs' = [blobs EXCEPT ![x] = "partial"] /\ Goto(c, "write")
      BY <1>4, <2>1 DEF CreateBlob
    <3>2. blobs' = [y \in Contents |-> blobs'[y]] /\ Grow
      BY <1>1, <1>2, <2>1, <3>1 DEF Inv, SourceInv, Grow, Grows
    <3> QED
      BY <1>1, <3>1, <3>2, PreservedKeeps
  <2>2. CASE blobs[x] = "whole"
    <3>1. blobs' = blobs /\ Preserved(c)
      BY <1>4, <2>2 DEF CreateBlob
    <3>2. blobs' = [y \in Contents |-> blobs'[y]] /\ blobs'[x] = "whole" /\ Grow
      BY <1>1, <2>2, <3>1 DEF Inv, SourceInv, Grow, Grows
    <3> QED
      BY <1>1, <3>1, <3>2, PreservedKeeps
  <2>3. CASE blobs[x] = "partial"
    <3>1. blobs' = blobs /\ NotPreserved(c)
      BY <1>4, <2>3 DEF CreateBlob
    <3>2. blobs' = [y \in Contents |-> blobs'[y]] /\ Grow
      BY <1>1, <3>1 DEF Inv, SourceInv, Grow, Grows
    <3> QED
      BY <1>1, <3>1, <3>2, PreservedKeeps
  <2> QED
    BY <1>4, <2>1, <2>2, <2>3 DEF CreateBlob
<1>5. CASE CannotWrite(c)
  <2>1. blobs' = [y \in Contents |-> blobs'[y]] /\ Grow
    BY <1>1, <1>5 DEF CannotWrite, Inv, SourceInv, Grow, Grows
  <2>2. NotPreserved(c)
    BY <1>5 DEF CannotWrite
  <2> QED
    BY <1>1, <2>1, <2>2, PreservedKeeps
<1> QED
  BY <1>3, <1>4, <1>5

-----------------------------------------------------------------------------
(* The invariant.                                                          *)

LEMMA InitInv == Init => Inv
<1> SUFFICES ASSUME Init PROVE Inv
  OBVIOUS
<1>1. TaskInv
  BY DEF Init, TaskInv, Good
<1>2. ItemInv
  BY DEF Init, ItemInv, Empty
<1>3. SourceInv
  BY DEF Init, SourceInv, Empty
<1> QED
  BY <1>1, <1>2, <1>3 DEF Inv

\* Steps that touch neither tasks, items, sources nor blobs.
LEMMA StutterKeeps ==
  ASSUME Inv, UNCHANGED <<sources, blobs, items, task>>
  PROVE  Inv'
BY DEF Inv, TaskInv, ItemInv, SourceInv

LEMMA NextInv == Inv /\ [Next]_vars => Inv'
<1> SUFFICES ASSUME Inv, [Next]_vars PROVE Inv'
  OBVIOUS
<1>1. ASSUME NEW c \in Clients,
             \/ \E m \in Manifests : Ingest(c, m) \/ Extract(c, m)
             \/ \E path \in Paths, r \in Revisions : AddSource(c, path, r)
      PROVE  Inv'
  BY <1>1, CallsKeep
<1>2. ASSUME NEW c \in Clients,
             ListItems(c) \/ Start(c) \/ Consider(c) \/ Look(c) \/ CannotRegister(c)
      PROVE  Inv'
  BY <1>2, LookingKeeps
<1>3. ASSUME NEW c \in Clients, PutItem(c)
      PROVE  Inv'
  BY <1>3, PutItemKeeps
<1>4. ASSUME NEW c \in Clients, Finish(c) \/ Report(c) \/ Crash(c)
      PROVE  Inv'
  BY <1>4, EndKeeps
<1>5. ASSUME NEW c \in Clients, Register(c)
      PROVE  Inv'
  BY <1>5, RegisterKeeps
<1>6. ASSUME NEW c \in Clients, CreateBlob(c) \/ WriteBlob(c) \/ CannotWrite(c)
      PROVE  Inv'
  BY <1>6, BlobKeeps
<1>7. ASSUME NEW c \in Clients,
             \/ \E r \in Revisions : LoadSource(c, r) \/ CannotExtract(c, r)
             \/ Stage(c) \/ NextItem(c)
      PROVE  Inv'
  BY <1>7, ExtractKeeps
<1>8. CASE \E d \in DOMAIN drafts : Review(d)
  BY <1>8, StutterKeeps DEF Review
<1>9. CASE Tick \/ UNCHANGED vars
  BY <1>9, StutterKeeps DEF Tick, vars, product
<1> QED
  BY <1>1, <1>2, <1>3, <1>4, <1>5, <1>6, <1>7, <1>8, <1>9, Zenon DEF Next

LEMMA Invariance == Spec => []Inv
BY InitInv, NextInv, PTL DEF Spec

\* An item that the product database says is IMPORTED or UNCHANGED is in the
\* kernel database, although ingest writes the two without a common transaction
\* and may die, or run beside another ingest of the same files, between them.
THEOREM ItemsAreRegistered == Spec => []ItemsRegistered
<1>1. Inv => ItemsRegistered
  BY DEF Inv, ItemInv, Backed, ItemsRegistered
<1> QED
  BY <1>1, Invariance, PTL

\* What an ingest has told to be imported, and what add_source has registered,
\* has its whole blob, although _preserve_blob writes the file under its final
\* name and may die, or meet another writer, while it does.
THEOREM BlobsAreWhole == Spec => []BlobBeforeTold
<1>1. Inv => BlobBeforeTold
  BY DEF Inv, ItemInv, SourceInv, Backed, BlobBeforeTold
<1> QED
  BY <1>1, Invariance, PTL

-----------------------------------------------------------------------------
(* What a batch tells of its items.                                        *)

Status == Done \cup {"FAILED"}
Imported(m, r) == r \in DOMAIN items[m] /\ items[m][r] \in Done
Uploads(t) ==
  /\ IsIngest(t) /\ t.adding = FALSE
  /\ t.at \in {"list", "start", "item", "look", "commit", "blob", "write", "put", "end"}
  /\ t.batch \in Manifests /\ t.n \in Nat
\* What an ingest that met no failure has imported so far.
Noted(t) ==
  /\ t.results \in Seq(Status)
  /\ t.at = "put" => t.status \in Status
  /\ t.at = "end" => t.n = Len(t.batch) + 1
  /\ t.batch \notin raced =>
       /\ t.batch \in DOMAIN batches => batches[t.batch] # "COMPLETED"
       /\ "FAILED" \notin ToSet(t.results) =>
            \A i \in 1 .. t.n - 1 : Imported(t.batch, RevisionOf(t.batch[i]))
\* One ingest of a batch at a time, unless it was raced: then nothing is said.
BatchInv ==
  /\ DOMAIN batches \subseteq Manifests
  /\ \A c \in Clients : Uploads(task[c]) => Noted(task[c])
  /\ \A b, c \in Clients :
       /\ Uploads(task[b]) /\ Uploads(task[c])
       /\ task[b].batch = task[c].batch /\ task[b].batch \notin raced
       => b = c
  /\ \A m \in DOMAIN batches \ raced :
       batches[m] = "COMPLETED" => \A i \in DOMAIN m : Imported(m, RevisionOf(m[i]))

LEMMA UploadsAt ==
  ASSUME NEW t, NEW S, NEW B, Good(t, S, B)
  PROVE  Uploads(t) <=> GoodIngest(t, S, B)
<1>1. GoodIngest(t, S, B) => Uploads(t)
  BY DEF GoodIngest, Uploads
<1>2. Uploads(t) => ~GoodAdd(t, B) /\ ~GoodExtract(t) /\ t # Idle
  BY DEF Uploads, GoodAdd, GoodExtract, Idle
<1> QED
  BY <1>1, <1>2 DEF Good

LEMMA IngestingIs ==
  ASSUME Inv, NEW c \in Clients, NEW m
  PROVE  Ingesting(c, m) <=> Uploads(task[c]) /\ task[c].batch = m
<1>1. Good(task[c], DOMAIN sources, blobs)
  BY DEF Inv, TaskInv
<1>2. PICK t : t = task[c]
  OBVIOUS
<1>3. CASE t = Idle
  BY <1>2, <1>3 DEF Ingesting, Uploads, Idle
<1>4. CASE GoodIngest(t, DOMAIN sources, blobs)
  BY <1>2, <1>4 DEF GoodIngest, Ingesting, Uploads
<1>5. CASE GoodAdd(t, blobs)
  BY <1>2, <1>5 DEF GoodAdd, Ingesting, Uploads
<1>6. CASE GoodExtract(t)
  BY <1>2, <1>6 DEF GoodExtract, Ingesting, Uploads
<1> QED
  BY <1>1, <1>2, <1>3, <1>4, <1>5, <1>6 DEF Good

\* One client moves; the others are where they were.
LEMMA BecomeIs ==
  ASSUME Inv, NEW c \in Clients, NEW u, Become(c, u)
  PROVE  task'[c] = u /\ \A b \in Clients \ {c} : task'[b] = task[b]
BY DEF Inv, TaskInv, Become

\* A step that is no concern of the batches: an ingest ends or moves on.
LEMMA ElsewhereTells ==
  ASSUME Inv, BatchInv, NEW c \in Clients, NEW u, Become(c, u), UNCHANGED <<items, batches, raced>>,
         Uploads(u) =>
           /\ Uploads(task[c]) /\ u.batch = task[c].batch /\ u.n = task[c].n
           /\ u.results = task[c].results /\ u.at # "end" /\ (u.at = "put" => u.status \in Status)
  PROVE  BatchInv'
<1>1. task'[c] = u /\ \A b \in Clients \ {c} : task'[b] = task[b]
  BY BecomeIs
<1>2. ASSUME Uploads(u) PROVE Noted(u)'
  <2>1. Noted(task[c])
    BY <1>2 DEF BatchInv
  <2> QED
    BY <1>2, <2>1 DEF Noted, Imported
<1>3. ASSUME NEW b \in Clients, Uploads(task'[b]) PROVE Noted(task[b])'
  <2>1. CASE b = c
    BY <1>1, <1>2, <1>3, <2>1 DEF Noted
  <2>2. CASE b # c
    <3>1. PICK y : y = task[b]
      OBVIOUS
    <3>2. y = task'[b] /\ Noted(y)
      BY <1>1, <1>3, <2>2, <3>1 DEF BatchInv
    <3>3. Noted(y)'
      BY <3>2 DEF Noted, Imported
    <3> QED
      BY <3>2, <3>3
  <2> QED
    BY <2>1, <2>2
<1>4. ASSUME NEW a \in Clients, NEW b \in Clients, Uploads(task'[a]), Uploads(task'[b]),
             task'[a].batch = task'[b].batch, task'[a].batch \notin raced'
      PROVE  a = b
  <2>1. \A e \in Clients : Uploads(task'[e]) => Uploads(task[e]) /\ task'[e].batch = task[e].batch
    BY <1>1
  <2> QED
    BY <1>4, <2>1 DEF BatchInv
<1>5. \A m \in DOMAIN batches' \ raced' :
        batches'[m] = "COMPLETED" => \A i \in DOMAIN m : Imported(m, RevisionOf(m[i]))'
  BY DEF BatchInv, Imported
<1> QED
  BY <1>3, <1>4, <1>5 DEF BatchInv, Uploads

\* How an ingest moves on.
LEMMA GotoFields ==
  ASSUME NEW t, Uploads(t), NEW label, NEW u, u = [t EXCEPT !.at = label]
  PROVE  u.batch = t.batch /\ u.n = t.n /\ u.results = t.results /\ u.at = label
<1>1. {"at", "adding", "batch", "prior", "n", "status", "results"} \subseteq DOMAIN t
  BY DEF Uploads, IsIngest
<1> QED
  BY <1>1

LEMMA MoveTells ==
  ASSUME Inv, BatchInv, NEW c \in Clients, Uploads(task[c]), UNCHANGED <<items, batches, raced>>,
         \/ \E status \in Status : ToPut(c, status)
         \/ \E label \in {"start", "item", "look", "commit", "blob", "write"} : Goto(c, label)
  PROVE  BatchInv'
<1>1. PICK t : t = task[c] /\ Uploads(t)
  OBVIOUS
<1>2. CASE \E status \in Status : ToPut(c, status)
  <2>1. PICK told : told \in Status /\ ToPut(c, told)
    BY <1>2
  <2>2. PICK u : u = [t EXCEPT !.at = "put", !.status = told]
    OBVIOUS
  <2>3. {"at", "adding", "batch", "prior", "n", "status", "results"} \subseteq DOMAIN t
    BY <1>1 DEF Uploads, IsIngest
  <2>4. u.batch = t.batch /\ u.n = t.n /\ u.results = t.results /\ u.at = "put" /\ u.status = told
    BY <2>2, <2>3
  <2>5. Become(c, u)
    BY <1>1, <2>1, <2>2 DEF ToPut
  <2> QED
    BY <1>1, <2>1, <2>4, <2>5, ElsewhereTells
<1>3. CASE \E label \in {"start", "item", "look", "commit", "blob", "write"} : Goto(c, label)
  <2>1. PICK label \in {"start", "item", "look", "commit", "blob", "write"} :
          Become(c, [t EXCEPT !.at = label])
    BY <1>1, <1>3 DEF Goto
  <2>2. PICK u : u = [t EXCEPT !.at = label]
    OBVIOUS
  <2>3. u.batch = t.batch /\ u.n = t.n /\ u.results = t.results /\ u.at = label
    BY <1>1, <2>2, GotoFields
  <2>4. Become(c, u)
    BY <2>1, <2>2
  <2> QED
    BY <1>1, <2>3, <2>4, ElsewhereTells
<1> QED
  BY <1>2, <1>3

LEMMA LookingTells ==
  ASSUME Inv, BatchInv, NEW c \in Clients,
         ListItems(c) \/ Consider(c) \/ Look(c) \/ CannotRegister(c)
  PROVE  BatchInv'
<1>1. UNCHANGED <<items, batches, raced>>
  BY DEF ListItems, Consider, Look, CannotRegister, product
<1>2. Uploads(task[c])
  <2>1. AtIngest(task[c])
    BY DEF AtIngest, ListItems, Consider, Look, CannotRegister, At
  <2>2. GoodIngest(task[c], DOMAIN sources, blobs)
    BY <2>1, IngestAt
  <2> QED
    BY <2>2 DEF GoodIngest, Uploads
<1>3. CASE ListItems(c)
  <2>1. PICK t : t = task[c] /\ {"at", "adding", "batch", "prior", "n", "status", "results"} \subseteq DOMAIN t
    BY <1>2 DEF Uploads, IsIngest
  <2>2. PICK prior, u : u = [t EXCEPT !.at = "start", !.prior = prior] /\ Become(c, u)
    BY <1>3, <2>1 DEF ListItems
  <2>3. u.batch = t.batch /\ u.n = t.n /\ u.results = t.results /\ u.at = "start"
    BY <2>1, <2>2
  <2> QED
    BY <1>1, <1>2, <2>1, <2>2, <2>3, ElsewhereTells
<1>4. CASE Consider(c) \/ Look(c) \/ CannotRegister(c)
  <2>1. \/ \E status \in Status : ToPut(c, status)
        \/ \E label \in {"look", "commit"} : Goto(c, label)
    <3>1. "UNCHANGED" \in Status /\ "FAILED" \in Status /\ \A status \in Done : status \in Status
      BY DEF Status, Done
    <3> QED
      BY <1>4, <3>1 DEF Consider, Look, CannotRegister
  <2> QED
    BY <1>1, <1>2, <2>1, MoveTells
<1> QED
  BY <1>3, <1>4

LEMMA StartTells ==
  ASSUME Inv, BatchInv, NEW c \in Clients, Start(c)
  PROVE  BatchInv'
<1>1. PICK t : t = task[c] /\ Uploads(t) /\ Noted(t)
  <2>1. AtIngest(task[c])
    BY DEF AtIngest, Start, At
  <2>2. GoodIngest(task[c], DOMAIN sources, blobs)
    BY <2>1, IngestAt
  <2> QED
    BY <2>2 DEF GoodIngest, Uploads, BatchInv
<1>2. UNCHANGED <<items, raced>> /\ batches' = Put(batches, t.batch, "RUNNING")
      /\ Become(c, [t EXCEPT !.at = "item"])
  BY <1>1 DEF Start, PutBatch, Goto
<1>3. PICK u : u = [t EXCEPT !.at = "item"] /\ u.batch = t.batch /\ u.n = t.n /\ u.results = t.results
               /\ u.at = "item"
  <2>1. PICK u : u = [t EXCEPT !.at = "item"]
    OBVIOUS
  <2>2. u.batch = t.batch /\ u.n = t.n /\ u.results = t.results /\ u.at = "item"
    BY <1>1, <2>1, GotoFields
  <2> QED
    BY <2>1, <2>2
<1>4. task'[c] = u /\ \A b \in Clients \ {c} : task'[b] = task[b]
  BY <1>2, <1>3, BecomeIs
<1>5. /\ DOMAIN batches' = DOMAIN batches \cup {t.batch}
      /\ batches'[t.batch] = "RUNNING"
      /\ \A m \in DOMAIN batches \ {t.batch} : batches'[m] = batches[m]
  BY <1>2 DEF Put
<1>6. ASSUME NEW b \in Clients, Uploads(task'[b]) PROVE Noted(task[b])'
  <2>1. PICK y, z : y = task'[b] /\ z = task[b]
    OBVIOUS
  <2>2. /\ Noted(z) /\ y.results = z.results /\ y.batch = z.batch /\ y.n = z.n
        /\ y.at = "item" \/ y = z
    BY <1>1, <1>3, <1>4, <1>6, <2>1 DEF BatchInv
  <2>3. y.batch \in DOMAIN batches' /\ y.batch \notin raced => batches'[y.batch] # "COMPLETED"
    BY <1>5, <2>2 DEF Noted
  <2>4. Noted(y)'
    BY <1>2, <2>2, <2>3 DEF Noted, Imported
  <2> QED
    BY <2>1, <2>4
<1>7. \A e \in Clients : Uploads(task'[e]) => Uploads(task[e]) /\ task'[e].batch = task[e].batch
  BY <1>1, <1>3, <1>4
<1>8. \A m \in DOMAIN batches' \ raced' :
        batches'[m] = "COMPLETED" => \A i \in DOMAIN m : Imported(m, RevisionOf(m[i]))'
  <2>1. \A m \in DOMAIN batches' \ raced' : batches'[m] = "COMPLETED" => m # t.batch /\ m \in DOMAIN batches
    BY <1>5
  <2> QED
    BY <1>2, <1>5, <2>1 DEF BatchInv, Imported
<1> QED
  <2>1. DOMAIN batches' \subseteq Manifests
    BY <1>1, <1>5 DEF BatchInv, Uploads
  <2> QED
    BY <1>2, <1>6, <1>7, <1>8, <2>1 DEF BatchInv, Uploads

LEMMA FinishTells ==
  ASSUME Inv, BatchInv, NEW c \in Clients, Finish(c)
  PROVE  BatchInv'
<1>1. PICK t : t = task[c] /\ Uploads(t) /\ Noted(t) /\ t.at = "end"
  <2>1. AtIngest(task[c]) /\ task[c].at = "end"
    BY DEF AtIngest, Finish, At
  <2>2. GoodIngest(task[c], DOMAIN sources, blobs)
    BY <2>1, IngestAt
  <2> QED
    BY <2>1, <2>2 DEF GoodIngest, Uploads, BatchInv
<1>2. /\ UNCHANGED <<items, raced>> /\ batches' = Put(batches, t.batch, Outcome(t.results))
      /\ Become(c, Idle)
  BY <1>1 DEF Finish
<1>3. task'[c] = Idle /\ \A b \in Clients \ {c} : task'[b] = task[b]
  BY <1>2, BecomeIs
<1>4. /\ DOMAIN batches' = DOMAIN batches \cup {t.batch}
      /\ batches'[t.batch] = Outcome(t.results)
      /\ \A m \in DOMAIN batches \ {t.batch} : batches'[m] = batches[m]
  BY <1>2 DEF Put
<1>5. \A b \in Clients : Uploads(task'[b]) => b # c /\ task'[b] = task[b]
  BY <1>3 DEF Uploads, Idle
<1>6. ASSUME NEW b \in Clients, Uploads(task'[b]) PROVE Noted(task[b])'
  <2>1. PICK z : z = task[b]
    OBVIOUS
  <2>2. b # c /\ z = task'[b] /\ Uploads(z) /\ Noted(z)
    BY <1>5, <1>6, <2>1 DEF BatchInv
  <2>3. z.batch \notin raced => z.batch # t.batch
    BY <1>1, <2>1, <2>2 DEF BatchInv
  <2>4. z.batch \in DOMAIN batches' /\ z.batch \notin raced => batches'[z.batch] # "COMPLETED"
    BY <1>4, <2>2, <2>3 DEF Noted
  <2>5. Noted(z)'
    BY <1>2, <2>2, <2>4 DEF Noted, Imported
  <2> QED
    BY <2>2, <2>5
<1>7. \A m \in DOMAIN batches' \ raced' :
        batches'[m] = "COMPLETED" => \A i \in DOMAIN m : Imported(m, RevisionOf(m[i]))'
  <2> SUFFICES ASSUME NEW m \in DOMAIN batches' \ raced, batches'[m] = "COMPLETED", NEW i \in DOMAIN m
               PROVE  Imported(m, RevisionOf(m[i]))
    BY <1>2 DEF Imported
  <2>1. CASE m = t.batch
    <3>1. "FAILED" \notin ToSet(t.results)
      BY <1>4, <2>1 DEF Outcome
    <3>2. i \in 1 .. t.n - 1
      BY <1>1, <2>1, ManifestAssumption DEF Noted, Uploads
    <3> QED
      BY <1>1, <2>1, <3>1, <3>2 DEF Noted
  <2>2. CASE m # t.batch
    BY <1>4, <2>2 DEF BatchInv
  <2> QED
    BY <2>1, <2>2
<1> QED
  <2>1. DOMAIN batches' \subseteq Manifests
    BY <1>1, <1>4 DEF BatchInv, Uploads
  <2> QED
    BY <1>2, <1>5, <1>6, <1>7, <2>1 DEF BatchInv, Uploads

LEMMA ToSetAppend ==
  ASSUME NEW S, NEW s \in Seq(S), NEW x \in S
  PROVE  Append(s, x) \in Seq(S) /\ ToSet(Append(s, x)) = ToSet(s) \cup {x}
<1>1. PICK z : z = Append(s, x)
  OBVIOUS
<1>2. /\ z \in Seq(S) /\ Len(s) \in Nat /\ DOMAIN s = 1 .. Len(s) /\ DOMAIN z = 1 .. Len(s) + 1
      /\ z[Len(s) + 1] = x /\ \A i \in DOMAIN s : z[i] = s[i]
  BY <1>1
<1>3. ToSet(z) = ToSet(s) \cup {x}
  <2>1. ASSUME NEW y \in ToSet(z) PROVE y \in ToSet(s) \cup {x}
    <3>1. PICK i \in DOMAIN z : y = z[i]
      BY DEF ToSet
    <3>2. i \in DOMAIN s \/ i = Len(s) + 1
      BY <1>2
    <3> QED
      BY <1>2, <3>1, <3>2 DEF ToSet
  <2>2. ASSUME NEW y \in ToSet(s) PROVE y \in ToSet(z)
    <3>1. PICK i \in DOMAIN s : y = s[i]
      BY DEF ToSet
    <3>2. i \in DOMAIN z /\ z[i] = y
      BY <1>2, <3>1
    <3> QED
      BY <3>2 DEF ToSet
  <2>3. x \in ToSet(z)
    <3>1. Len(s) + 1 \in DOMAIN z /\ z[Len(s) + 1] = x
      BY <1>2
    <3> QED
      BY <3>1 DEF ToSet
  <2> QED
    BY <2>1, <2>2, <2>3
<1> QED
  BY <1>1, <1>2, <1>3

LEMMA PutItemTells ==
  ASSUME Inv, BatchInv, NEW c \in Clients, PutItem(c)
  PROVE  BatchInv'
<1>1. PICK t : t = task[c] /\ Uploads(t) /\ Noted(t) /\ t.at = "put" /\ t.n \in DOMAIN t.batch
  <2>1. AtIngest(task[c]) /\ task[c].at = "put"
    BY DEF AtIngest, PutItem, At
  <2>2. GoodIngest(task[c], DOMAIN sources, blobs)
    BY <2>1, IngestAt
  <2> QED
    BY <2>1, <2>2 DEF GoodIngest, Uploads, BatchInv
<1>2. Revision(c) = RevisionOf(t.batch[t.n])
  BY <1>1 DEF Revision, Candidate, Uploads
<1> DEFINE r == RevisionOf(t.batch[t.n])
<1>a. PICK label : label = IF t.n = Len(t.batch) THEN "end" ELSE "item"
  OBVIOUS
<1>3. /\ UNCHANGED <<batches, raced>> /\ items' = [items EXCEPT ![t.batch] = Put(items[t.batch], r, t.status)]
      /\ Become(c, [t EXCEPT !.at = label, !.n = t.n + 1, !.results = Append(t.results, t.status)])
  BY <1>1, <1>2, <1>a DEF PutItem
<1>4. PICK u : /\ u = [t EXCEPT !.at = label, !.n = t.n + 1, !.results = Append(t.results, t.status)]
               /\ u.at = label /\ u.n = t.n + 1 /\ u.results = Append(t.results, t.status)
               /\ u.batch = t.batch
  <2>1. {"at", "adding", "batch", "prior", "n", "status", "results"} \subseteq DOMAIN t
    BY <1>1 DEF Uploads, IsIngest
  <2>2. PICK u : u = [t EXCEPT !.at = label, !.n = t.n + 1, !.results = Append(t.results, t.status)]
    OBVIOUS
  <2>3. u.at = label /\ u.n = t.n + 1 /\ u.results = Append(t.results, t.status) /\ u.batch = t.batch
    BY <2>1, <2>2
  <2> QED
    BY <2>2, <2>3
<1>5. task'[c] = u /\ \A b \in Clients \ {c} : task'[b] = task[b]
  BY <1>3, <1>4, BecomeIs
<1>6. t.batch \in Manifests /\ t.status \in Status /\ t.results \in Seq(Status) /\ t.n \in Nat
  BY <1>1 DEF Noted, Uploads
<1>7. /\ \A m \in Manifests \ {t.batch} : items'[m] = items[m]
      /\ items'[t.batch] = Put(items[t.batch], r, t.status)
  BY <1>3, <1>6 DEF Inv, ItemInv
<1>8. \A m \in Manifests \ {t.batch} : \A x : Imported(m, x)' = Imported(m, x)
  BY <1>7 DEF Imported
<1>9. t.status # "FAILED" => Imported(t.batch, r)'
  BY <1>6, <1>7 DEF Put, Imported, Status
<1>10. \A x : x # r /\ Imported(t.batch, x) => Imported(t.batch, x)'
  BY <1>7 DEF Put, Imported
<1>11. Noted(u)'
  <2>1. u.results \in Seq(Status) /\ ToSet(u.results) = ToSet(t.results) \cup {t.status}
    BY <1>4, <1>6, ToSetAppend
  <2>2. u.at # "put" /\ (u.at = "end" => u.n = Len(u.batch) + 1)
    BY <1>4, <1>a
  <2>3. ASSUME u.batch \notin raced
        PROVE  /\ u.batch \in DOMAIN batches => batches[u.batch] # "COMPLETED"
               /\ "FAILED" \notin ToSet(u.results) =>
                    \A i \in 1 .. u.n - 1 : Imported(u.batch, RevisionOf(u.batch[i]))'
    <3>1. u.batch \in DOMAIN batches => batches[u.batch] # "COMPLETED"
      BY <1>1, <1>4, <2>3 DEF Noted
    <3>2. ASSUME "FAILED" \notin ToSet(u.results), NEW i \in 1 .. u.n - 1
          PROVE  Imported(t.batch, RevisionOf(t.batch[i]))'
      <4>1. t.status # "FAILED" /\ "FAILED" \notin ToSet(t.results)
        BY <2>1, <3>2
      <4>2. i \in 1 .. t.n - 1 \/ i = t.n
        BY <1>4, <1>6
      <4>3. CASE RevisionOf(t.batch[i]) = r
        BY <1>9, <4>1, <4>3
      <4>4. CASE RevisionOf(t.batch[i]) # r
        <5>1. Imported(t.batch, RevisionOf(t.batch[i]))
          BY <1>1, <1>4, <2>3, <4>1, <4>2, <4>4 DEF Noted
        <5> QED
          BY <1>10, <4>4, <5>1
      <4> QED
        BY <4>3, <4>4
    <3> QED
      BY <1>4, <3>1, <3>2
  <2> QED
    BY <1>3, <2>1, <2>2, <2>3 DEF Noted
<1>12. ASSUME NEW b \in Clients, Uploads(task'[b]) PROVE Noted(task[b])'
  <2>1. CASE b = c
    <3>1. PICK y : y = task'[b] /\ y = u
      BY <1>5, <2>1
    <3> QED
      BY <1>11, <3>1
  <2>2. CASE b # c
    <3>1. PICK z : z = task[b]
      OBVIOUS
    <3>2. z = task'[b] /\ Uploads(z) /\ Noted(z)
      BY <1>5, <1>12, <2>2, <3>1 DEF BatchInv, Uploads
    <3>3. z.batch \notin raced => z.batch # t.batch
      BY <1>1, <2>2, <3>1, <3>2 DEF BatchInv
    <3>4. z.batch \notin raced => \A x : Imported(z.batch, x)' = Imported(z.batch, x)
      BY <1>8, <3>2, <3>3 DEF Uploads
    <3>5. Noted(z)'
      BY <1>3, <3>2, <3>4 DEF Noted
    <3> QED
      BY <3>2, <3>5
  <2> QED
    BY <2>1, <2>2
<1>13. \A e \in Clients : Uploads(task'[e]) => Uploads(task[e]) /\ task'[e].batch = task[e].batch
  BY <1>1, <1>4, <1>5
<1>14. \A m \in DOMAIN batches' \ raced' :
         batches'[m] = "COMPLETED" => \A i \in DOMAIN m : Imported(m, RevisionOf(m[i]))'
  <2>1. \A m \in DOMAIN batches \ raced : batches[m] = "COMPLETED" => m # t.batch
    BY <1>1 DEF Noted
  <2>2. \A m \in DOMAIN batches \ raced : batches[m] = "COMPLETED" => m \in Manifests
    BY DEF BatchInv
  <2> QED
    BY <1>3, <1>8, <2>1, <2>2 DEF BatchInv
<1> QED
  BY <1>3, <1>12, <1>13, <1>14 DEF BatchInv, Uploads

\* A new ingest: if another one is at the batch, it is raced from now on.
LEMMA IngestTells ==
  ASSUME Inv, BatchInv, NEW c \in Clients, NEW m \in Manifests, Ingest(c, m)
  PROVE  BatchInv'
<1>a. PICK label \in {"list", "start"} : \E since, u :
        /\ u = [at |-> label, adding |-> FALSE, batch |-> m, since |-> since, prior |-> Empty, n |-> 1,
                status |-> "", results |-> <<>>]
        /\ Become(c, u)
  BY DEF Ingest, Call
<1>1. PICK since, u :
        /\ u = [at |-> label, adding |-> FALSE, batch |-> m, since |-> since, prior |-> Empty, n |-> 1,
                status |-> "", results |-> <<>>]
        /\ Become(c, u)
  BY <1>a
<1>2. /\ UNCHANGED <<items, batches>> /\ raced \subseteq raced'
      /\ m \in DOMAIN batches => batches[m] # "COMPLETED"
      /\ \A b \in Clients : Ingesting(b, m) => m \in raced'
  BY DEF Ingest, Call, product
<1>3. task'[c] = u /\ \A b \in Clients \ {c} : task'[b] = task[b]
  BY <1>1, BecomeIs
<1>4. Noted(u)'
  <2>1. u.results = <<>> /\ u.n = 1 /\ u.at \in {"list", "start"} /\ u.batch = m
    BY <1>1
  <2> QED
    BY <1>2, <2>1 DEF Noted
<1>5. ASSUME NEW b \in Clients, Uploads(task'[b]) PROVE Noted(task[b])'
  <2>1. PICK y, z : y = task'[b] /\ z = task[b]
    OBVIOUS
  <2>2. CASE b = c
    BY <1>3, <1>4, <2>1, <2>2
  <2>3. CASE b # c
    <3>1. y = z /\ Noted(z)
      BY <1>3, <1>5, <2>1, <2>3 DEF BatchInv
    <3>2. Noted(z)'
      BY <1>2, <3>1 DEF Noted, Imported
    <3> QED
      BY <2>1, <3>1, <3>2
  <2> QED
    BY <2>2, <2>3
<1>6. ASSUME NEW a \in Clients, NEW b \in Clients, Uploads(task'[a]), Uploads(task'[b]),
             task'[a].batch = task'[b].batch, task'[a].batch \notin raced'
      PROVE  a = b
  <2>1. ASSUME NEW e \in Clients \ {c}, Uploads(task'[e]), task'[e].batch = m PROVE m \in raced'
    BY <1>2, <1>3, <2>1, IngestingIs
  <2>2. task'[c].batch = m
    <3>1. u.batch = m
      BY <1>1
    <3> QED
      BY <1>3, <3>1
  <2>3. CASE a = c \/ b = c
    BY <1>6, <2>1, <2>2, <2>3
  <2>4. CASE a # c /\ b # c
    BY <1>2, <1>3, <1>6, <2>4 DEF BatchInv
  <2> QED
    BY <2>3, <2>4
<1>7. \A x \in DOMAIN batches' \ raced' :
        batches'[x] = "COMPLETED" => \A i \in DOMAIN x : Imported(x, RevisionOf(x[i]))'
  BY <1>2 DEF BatchInv, Imported
<1> QED
  BY <1>2, <1>5, <1>6, <1>7 DEF BatchInv, Uploads

\* The registration and the blob of an ingest, and of an add_source.
LEMMA RegisterTells ==
  ASSUME Inv, BatchInv, NEW c \in Clients,
         Register(c) \/ CreateBlob(c) \/ WriteBlob(c) \/ CannotWrite(c)
  PROVE  BatchInv'
<1>1. UNCHANGED <<items, batches, raced>> /\ task[c].at \in {"commit", "blob", "write"}
  BY DEF Register, CreateBlob, WriteBlob, CannotWrite, product, At
<1>2. PICK t : t = task[c]
  OBVIOUS
<1>3. GoodIngest(t, DOMAIN sources, blobs) \/ GoodAdd(t, blobs)
  BY <1>1, <1>2 DEF Inv, TaskInv, Good, GoodExtract, Idle
<1>4. CASE GoodIngest(t, DOMAIN sources, blobs)
  <2>1. Uploads(task[c]) /\ task[c].adding = FALSE
    BY <1>2, <1>4 DEF GoodIngest, Uploads
  <2>2. \/ \E status \in Status : ToPut(c, status)
        \/ \E label \in {"blob", "write"} : Goto(c, label)
    <3>1. "IMPORTED" \in Status /\ "FAILED" \in Status
      BY DEF Status, Done
    <3> QED
      BY <2>1, <3>1 DEF Register, CreateBlob, WriteBlob, CannotWrite, Preserved, NotPreserved
  <2> QED
    BY <1>1, <2>1, <2>2, MoveTells
<1>5. CASE GoodAdd(t, blobs)
  <2>1. Become(c, Idle) \/ \E label \in {"commit", "write"} : Become(c, [t EXCEPT !.at = label])
    BY <1>2, <1>5 DEF GoodAdd, Register, CreateBlob, WriteBlob, CannotWrite, Preserved, NotPreserved, Goto
  <2>2. CASE Become(c, Idle)
    <3>1. ~Uploads(Idle)
      BY DEF Uploads, Idle
    <3> QED
      BY <1>1, <2>2, <3>1, ElsewhereTells
  <2>3. CASE \E label \in {"commit", "write"} : Become(c, [t EXCEPT !.at = label])
    <3>1. PICK label, u : u = [t EXCEPT !.at = label] /\ Become(c, u)
      BY <2>3
    <3>2. u.adding = TRUE
      BY <1>5, <3>1 DEF GoodAdd, IsAdd
    <3>3. ~Uploads(u)
      BY <3>2 DEF Uploads
    <3> QED
      BY <1>1, <3>1, <3>3, ElsewhereTells
  <2> QED
    BY <2>1, <2>2, <2>3
<1> QED
  BY <1>3, <1>4, <1>5

\* Calls that are no ingest.
LEMMA OthersTell ==
  ASSUME Inv, BatchInv, NEW c \in Clients,
         \/ \E m \in Manifests : Extract(c, m)
         \/ \E path \in Paths, r \in Revisions : AddSource(c, path, r)
         \/ \E r \in Revisions : LoadSource(c, r) \/ CannotExtract(c, r)
         \/ Stage(c) \/ NextItem(c) \/ Report(c) \/ Crash(c)
  PROVE  BatchInv'
<1>1. UNCHANGED <<items, batches, raced>>
  BY DEF Extract, AddSource, LoadSource, CannotExtract, Stage, NextItem, Report, Crash, Call, product
<1>2. ASSUME NEW u, Become(c, u), ~Uploads(u) PROVE BatchInv'
  BY <1>1, <1>2, ElsewhereTells
<1>3. CASE Report(c) \/ Crash(c)
  <2>1. ~Uploads(Idle)
    BY DEF Uploads, Idle
  <2> QED
    BY <1>2, <1>3, <2>1 DEF Report, Crash
<1>4. CASE \E m \in Manifests : Extract(c, m)
  <2>1. PICK m, listed, u : /\ u = [at |-> "extract", batch |-> m, listed |-> listed, todo |-> listed,
                                    pending |-> <<>>, failed |-> FALSE, refused |-> FALSE]
                            /\ Become(c, u)
    BY <1>4 DEF Extract, Call
  <2>2. ~Uploads(u)
    BY <2>1 DEF Uploads
  <2> QED
    BY <1>2, <2>1, <2>2
<1>5. CASE \E path \in Paths, r \in Revisions : AddSource(c, path, r)
  <2>1. PICK r, proposal, u : /\ u = [at |-> "blob", adding |-> TRUE, revision |-> r, proposal |-> proposal]
                              /\ Become(c, u)
    BY <1>5 DEF AddSource, Call
  <2>2. ~Uploads(u)
    BY <2>1 DEF Uploads
  <2> QED
    BY <1>2, <2>1, <2>2
<1>6. CASE \/ \E r \in Revisions : LoadSource(c, r) \/ CannotExtract(c, r)
           \/ Stage(c) \/ NextItem(c)
  <2>1. PICK t : t = task[c] /\ t.at \in {"extract", "stage"} /\ "at" \in DOMAIN t
    <3>1. PICK t : t = task[c] /\ t.at \in {"extract", "stage"}
      BY <1>6 DEF LoadSource, CannotExtract, Stage, NextItem, At
    <3>2. Good(t, DOMAIN sources, blobs)
      BY <3>1 DEF Inv, TaskInv
    <3>3. GoodExtract(t)
      BY <3>1, <3>2 DEF Good, GoodIngest, GoodAdd, Idle
    <3> QED
      BY <3>1, <3>3 DEF GoodExtract, IsExtract
  <2>2. PICK u : Become(c, u) /\ u.at \in {"extract", "stage"}
    <3>1. CASE \E r \in Revisions : LoadSource(c, r)
      <4>1. PICK left, found, u : /\ u = [t EXCEPT !.at = "stage", !.todo = left, !.pending = found]
                                  /\ Become(c, u)
        BY <2>1, <3>1 DEF LoadSource
      <4>2. u.at = "stage"
        BY <2>1, <4>1
      <4> QED
        BY <4>1, <4>2
    <3>2. CASE \E r \in Revisions : CannotExtract(c, r)
      <4>1. PICK left, u : u = [t EXCEPT !.todo = left, !.failed = TRUE] /\ Become(c, u)
        BY <2>1, <3>2 DEF CannotExtract
      <4>2. u.at = t.at
        BY <2>1, <4>1
      <4> QED
        BY <2>1, <4>1, <4>2
    <3>3. CASE Stage(c)
      <4>1. PICK u : /\ \/ \E left : u = [t EXCEPT !.pending = left]
                        \/ u = [t EXCEPT !.pending = <<>>, !.failed = TRUE, !.refused = TRUE]
                     /\ Become(c, u)
        BY <2>1, <3>3 DEF Stage
      <4>2. u.at = t.at
        BY <2>1, <4>1
      <4> QED
        BY <2>1, <4>1, <4>2
    <3>4. CASE NextItem(c)
      <4>1. Become(c, [t EXCEPT !.at = "extract"])
        BY <2>1, <3>4 DEF NextItem, Goto
      <4> QED
        BY <2>1, <4>1
    <3> QED
      BY <1>6, <3>1, <3>2, <3>3, <3>4
  <2>3. ~Uploads(u)
    BY <2>2 DEF Uploads
  <2> QED
    BY <1>2, <2>2, <2>3
<1> QED
  BY <1>3, <1>4, <1>5, <1>6

LEMMA StillTells ==
  ASSUME BatchInv, UNCHANGED <<items, batches, raced, task>>
  PROVE  BatchInv'
BY DEF BatchInv, Noted, Imported, Uploads

LEMMA BatchNext ==
  ASSUME Inv, BatchInv, [Next]_vars
  PROVE  BatchInv'
<1>1. CASE \/ \E d \in DOMAIN drafts : Review(d)
           \/ Tick
           \/ UNCHANGED vars
  BY <1>1, StillTells DEF Review, Tick, vars, product
<1>2. CASE \E c \in Clients :
             \/ \E m \in Manifests : Ingest(c, m) \/ Extract(c, m)
             \/ \E path \in Paths, r \in Revisions : AddSource(c, path, r)
             \/ ListItems(c) \/ Start(c) \/ Consider(c) \/ Look(c) \/ CannotRegister(c)
             \/ PutItem(c) \/ Finish(c)
             \/ Register(c) \/ CreateBlob(c) \/ WriteBlob(c) \/ CannotWrite(c)
             \/ \E r \in Revisions : LoadSource(c, r) \/ CannotExtract(c, r)
             \/ Stage(c) \/ NextItem(c) \/ Report(c) \/ Crash(c)
  BY <1>2, IngestTells, OthersTell, LookingTells, StartTells, PutItemTells, FinishTells, RegisterTells
<1> QED
  BY <1>1, <1>2 DEF Next

LEMMA BatchInit == Init => BatchInv
BY DEF Init, BatchInv, Empty, Uploads, Idle

-----------------------------------------------------------------------------
(* What an extraction tells of its items.                                  *)

Extracts(t) == t.at \in {"extract", "stage"}
Kept(d, m) == d \in DOMAIN drafts /\ drafts[d].batch = m
\* An extraction without a failure has staged, or holds pending, every candidate
\* of the items it has been at.
Promised(t) ==
  /\ {"at", "batch", "listed", "todo", "pending", "failed", "refused"} \subseteq DOMAIN t
  /\ t.pending \in Seq(ToSet(t.pending))
  /\ t.at = "extract" => t.pending = <<>>
  /\ t.failed \in BOOLEAN
  /\ t.failed = FALSE =>
       \A r \in t.listed \ t.todo : \A d \in ToSet(Candidates[r]) :
         Kept(d, t.batch) \/ d \in ToSet(t.pending)
ExtractInv ==
  /\ \A c \in Clients : Extracts(task[c]) => Promised(task[c])
  /\ \A e \in extracted : \A d \in ToSet(Candidates[e[2]]) : Kept(d, e[1])

\* The drafts are as they were, or there are more of them.
KeepsDrafts == \A d \in DOMAIN drafts : d \in DOMAIN drafts' /\ drafts'[d].batch = drafts[d].batch

LEMMA PromisedStays ==
  ASSUME KeepsDrafts, NEW t, Promised(t)
  PROVE  Promised(t)'
<1>1. \A d, m : Kept(d, m) => Kept(d, m)'
  BY DEF KeepsDrafts, Kept
<1> QED
  BY <1>1 DEF Promised

LEMMA OneExtracts ==
  ASSUME Inv, ExtractInv, KeepsDrafts, NEW c \in Clients, NEW u, Become(c, u),
         Extracts(u) => Promised(u)', UNCHANGED extracted
  PROVE  ExtractInv'
<1>1. task'[c] = u /\ \A b \in Clients \ {c} : task'[b] = task[b]
  BY BecomeIs
<1>2. ASSUME NEW b \in Clients, Extracts(task'[b]) PROVE Promised(task[b])'
  <2>1. PICK y, z : y = task'[b] /\ z = task[b]
    OBVIOUS
  <2>2. CASE b = c
    BY <1>1, <1>2, <2>1, <2>2
  <2>3. CASE b # c
    <3>1. y = z /\ Promised(z)
      BY <1>1, <1>2, <2>1, <2>3 DEF ExtractInv
    <3>2. Promised(z)'
      BY <3>1, PromisedStays
    <3> QED
      BY <2>1, <3>1, <3>2
  <2> QED
    BY <2>2, <2>3
<1>3. \A e \in extracted' : \A d \in ToSet(Candidates[e[2]]) : Kept(d, e[1])'
  BY DEF ExtractInv, KeepsDrafts, Kept
<1> QED
  BY <1>2, <1>3 DEF ExtractInv, Extracts

LEMMA ExtractTells ==
  ASSUME Inv, ExtractInv, NEW c \in Clients, NEW m, Extract(c, m)
  PROVE  ExtractInv'
<1>1. PICK listed, u : /\ u = [at |-> "extract", batch |-> m, listed |-> listed, todo |-> listed,
                               pending |-> <<>>, failed |-> FALSE, refused |-> FALSE]
                       /\ Become(c, u)
  BY DEF Extract, Call
<1>2. UNCHANGED <<drafts, extracted>>
  BY DEF Extract, Call, product
<1>3. KeepsDrafts
  BY <1>2 DEF KeepsDrafts
<1>4. Promised(u)'
  <2>1. /\ DOMAIN u = {"at", "batch", "listed", "todo", "pending", "failed", "refused"}
        /\ u.pending = <<>> /\ u.failed = FALSE /\ u.listed = listed /\ u.todo = listed
    BY <1>1
  <2>2. u.pending \in Seq(ToSet(u.pending))
    BY <2>1
  <2> QED
    BY <2>1, <2>2 DEF Promised
<1> QED
  BY <1>1, <1>2, <1>3, <1>4, OneExtracts

LEMMA LoadTells ==
  ASSUME Inv, ExtractInv, NEW c \in Clients, NEW r \in Revisions, LoadSource(c, r)
  PROVE  ExtractInv'
<1>1. PICK t : t = task[c] /\ Promised(t) /\ t.at = "extract"
  BY DEF LoadSource, At, ExtractInv, Extracts
<1>2. PICK u : u = [t EXCEPT !.at = "stage", !.todo = t.todo \ {r}, !.pending = Candidates[r]] /\ Become(c, u)
  BY <1>1 DEF LoadSource
<1>3. /\ u.at = "stage" /\ u.todo = t.todo \ {r} /\ u.pending = Candidates[r] /\ DOMAIN u = DOMAIN t
      /\ u.batch = t.batch /\ u.listed = t.listed /\ u.failed = t.failed
  BY <1>1, <1>2 DEF Promised
<1>4. UNCHANGED <<drafts, extracted>>
  BY DEF LoadSource, product
<1>5. KeepsDrafts
  BY <1>4 DEF KeepsDrafts
<1>6. Promised(u)'
  <2>1. ASSUME u.failed = FALSE, NEW x \in u.listed \ u.todo, NEW d \in ToSet(Candidates[x])
        PROVE  Kept(d, u.batch) \/ d \in ToSet(u.pending)
    <3>1. CASE x = r
      BY <1>3, <2>1, <3>1
    <3>2. CASE x # r
      <4>1. Kept(d, t.batch) \/ d \in ToSet(t.pending)
        BY <1>1, <1>3, <2>1, <3>2 DEF Promised
      <4>2. ToSet(t.pending) = {}
        BY <1>1 DEF Promised, ToSet
      <4> QED
        BY <1>3, <4>1, <4>2
    <3> QED
      BY <3>1, <3>2
  <2>2. Promised(u)
    BY <1>1, <1>3, <2>1, CandidatesAssumption DEF Promised
  <2> QED
    BY <1>5, <2>2, PromisedStays
<1> QED
  BY <1>2, <1>4, <1>5, <1>6, OneExtracts

LEMMA CannotTells ==
  ASSUME Inv, ExtractInv, NEW c \in Clients, NEW r, CannotExtract(c, r)
  PROVE  ExtractInv'
<1>1. PICK t : t = task[c] /\ Promised(t) /\ t.at = "extract"
  BY DEF CannotExtract, At, ExtractInv, Extracts
<1>2. PICK u : u = [t EXCEPT !.todo = t.todo \ {r}, !.failed = TRUE] /\ Become(c, u)
  BY <1>1 DEF CannotExtract
<1>3. /\ u.at = "extract" /\ u.pending = t.pending /\ DOMAIN u = DOMAIN t /\ u.failed = TRUE
  BY <1>1, <1>2 DEF Promised
<1>4. UNCHANGED <<drafts, extracted>>
  BY DEF CannotExtract, product
<1>5. KeepsDrafts
  BY <1>4 DEF KeepsDrafts
<1>6. Promised(u)
  BY <1>1, <1>3 DEF Promised
<1> QED
  BY <1>2, <1>4, <1>5, <1>6, PromisedStays, OneExtracts

LEMMA HeadTail ==
  ASSUME NEW S, NEW s \in Seq(S), s # <<>>
  PROVE  /\ Tail(s) \in Seq(S) /\ Tail(s) \in Seq(ToSet(Tail(s)))
         /\ ToSet(s) \subseteq {Head(s)} \cup ToSet(Tail(s))
<1>1. PICK z : z = Tail(s)
  OBVIOUS
<1>2. /\ z \in Seq(S) /\ Len(s) \in Nat \ {0} /\ DOMAIN s = 1 .. Len(s) /\ DOMAIN z = 1 .. Len(s) - 1
      /\ Len(z) = Len(s) - 1 /\ Head(s) = s[1] /\ \A i \in DOMAIN z : z[i] = s[i + 1]
  BY <1>1
<1>3. ASSUME NEW y \in ToSet(s) PROVE y \in {Head(s)} \cup ToSet(z)
  <2>1. PICK i \in DOMAIN s : y = s[i]
    BY DEF ToSet
  <2>2. CASE i = 1
    BY <1>2, <2>1, <2>2
  <2>3. CASE i # 1
    <3>1. i - 1 \in DOMAIN z /\ z[i - 1] = y
      BY <1>2, <2>1, <2>3
    <3> QED
      BY <3>1 DEF ToSet
  <2> QED
    BY <2>2, <2>3
<1>4. z \in Seq(ToSet(z))
  <2>1. \A i \in 1 .. Len(z) : z[i] \in ToSet(z)
    BY <1>2 DEF ToSet
  <2>2. z = [i \in 1 .. Len(z) |-> z[i]] /\ Len(z) \in Nat
    BY <1>2
  <2>3. z \in [1 .. Len(z) -> ToSet(z)]
    BY <2>1, <2>2
  <2> QED
    BY <2>2, <2>3
<1> QED
  BY <1>1, <1>2, <1>3, <1>4

LEMMA StageTells ==
  ASSUME Inv, ExtractInv, NEW c \in Clients, Stage(c)
  PROVE  ExtractInv'
<1>1. PICK t : t = task[c] /\ Promised(t) /\ t.at = "stage" /\ t.pending # <<>>
  BY DEF Stage, At, ExtractInv, Extracts
<1>2. UNCHANGED extracted
  BY DEF Stage
<1> DEFINE d == Head(t.pending)
<1>3. /\ Tail(t.pending) \in Seq(ToSet(Tail(t.pending)))
      /\ ToSet(t.pending) \subseteq {d} \cup ToSet(Tail(t.pending))
  BY <1>1, HeadTail DEF Promised
<1> HIDE DEF d
<1>4. ASSUME KeepsDrafts, Kept(d, t.batch)', Become(c, [t EXCEPT !.pending = Tail(t.pending)])
      PROVE  ExtractInv'
  <2>1. PICK u : u = [t EXCEPT !.pending = Tail(t.pending)] /\ Become(c, u)
    BY <1>4
  <2>2. /\ u.at = "stage" /\ u.pending = Tail(t.pending) /\ DOMAIN u = DOMAIN t /\ u.batch = t.batch
        /\ u.listed = t.listed /\ u.todo = t.todo /\ u.failed = t.failed
    BY <1>1, <2>1 DEF Promised
  <2>3. Promised(t)'
    BY <1>1, <1>4, PromisedStays
  <2>4. Promised(u)'
    BY <1>3, <1>4, <2>2, <2>3 DEF Promised
  <2> QED
    BY <1>2, <1>4, <2>1, <2>4, OneExtracts
<1>5. CASE d \notin DOMAIN drafts /\ drafts' = Put(drafts, d, [batch |-> t.batch, status |-> "DRAFT"])
           /\ Become(c, [t EXCEPT !.pending = Tail(t.pending)])
  <2>1. KeepsDrafts /\ Kept(d, t.batch)'
    BY <1>5 DEF KeepsDrafts, Kept, Put
  <2> QED
    BY <1>4, <1>5, <2>1
<1>6. CASE d \in DOMAIN drafts /\ UNCHANGED drafts /\ drafts[d].batch = t.batch
           /\ Become(c, [t EXCEPT !.pending = Tail(t.pending)])
  <2>1. KeepsDrafts /\ Kept(d, t.batch)'
    BY <1>6 DEF KeepsDrafts, Kept
  <2> QED
    BY <1>4, <1>6, <2>1
<1>7. CASE UNCHANGED drafts /\ Become(c, [t EXCEPT !.pending = <<>>, !.failed = TRUE, !.refused = TRUE])
  <2>1. PICK u : u = [t EXCEPT !.pending = <<>>, !.failed = TRUE, !.refused = TRUE] /\ Become(c, u)
    BY <1>7
  <2>2. u.pending = <<>> /\ DOMAIN u = DOMAIN t /\ u.failed = TRUE
    BY <1>1, <2>1 DEF Promised
  <2>3. u.pending \in Seq(ToSet(u.pending))
    BY <2>2
  <2>4. Promised(u)
    BY <1>1, <2>2, <2>3 DEF Promised
  <2>5. KeepsDrafts
    BY <1>7 DEF KeepsDrafts
  <2> QED
    BY <1>2, <2>1, <2>4, <2>5, PromisedStays, OneExtracts
<1> QED
  BY <1>1, <1>5, <1>6, <1>7 DEF Stage, d

LEMMA NextItemTells ==
  ASSUME Inv, ExtractInv, NEW c \in Clients, NextItem(c)
  PROVE  ExtractInv'
<1>1. PICK t : t = task[c] /\ Promised(t) /\ t.pending = <<>>
  BY DEF NextItem, At, ExtractInv, Extracts
<1>2. PICK u : u = [t EXCEPT !.at = "extract"] /\ Become(c, u)
  BY <1>1 DEF NextItem, Goto
<1>3. /\ u.at = "extract" /\ u.pending = <<>> /\ DOMAIN u = DOMAIN t /\ u.batch = t.batch
      /\ u.listed = t.listed /\ u.todo = t.todo /\ u.failed = t.failed
  BY <1>1, <1>2 DEF Promised
<1>4. Promised(u)
  BY <1>1, <1>3 DEF Promised
<1>5. UNCHANGED <<drafts, extracted>>
  BY DEF NextItem, product
<1>6. KeepsDrafts
  BY <1>5 DEF KeepsDrafts
<1> QED
  BY <1>2, <1>4, <1>5, <1>6, PromisedStays, OneExtracts

LEMMA ReportTells ==
  ASSUME Inv, ExtractInv, NEW c \in Clients, Report(c)
  PROVE  ExtractInv'
<1>1. PICK t : t = task[c] /\ Promised(t) /\ t.at = "extract" /\ t.todo = {}
  BY DEF Report, At, ExtractInv, Extracts
<1>2. /\ extracted' = IF t.failed THEN extracted ELSE extracted \cup ({t.batch} \X t.listed)
      /\ Become(c, Idle) /\ UNCHANGED drafts
  BY <1>1 DEF Report, product
<1>3. task'[c] = Idle /\ \A b \in Clients \ {c} : task'[b] = task[b]
  BY <1>2, BecomeIs
<1>4. ASSUME NEW b \in Clients, Extracts(task'[b]) PROVE Promised(task[b])'
  <2>1. PICK z : z = task[b]
    OBVIOUS
  <2>2. b # c
    BY <1>3, <1>4 DEF Extracts, Idle
  <2>3. z = task'[b] /\ Promised(z)
    BY <1>3, <1>4, <2>1, <2>2 DEF ExtractInv
  <2>4. Promised(z)'
    BY <1>2, <2>3 DEF Promised, Kept
  <2> QED
    BY <2>3, <2>4
<1>5. ASSUME NEW e \in extracted', NEW d \in ToSet(Candidates[e[2]]) PROVE Kept(d, e[1])
  <2>1. CASE e \in extracted
    BY <1>5, <2>1 DEF ExtractInv
  <2>2. CASE e \notin extracted
    <3>1. t.failed = FALSE /\ e[1] = t.batch /\ e[2] \in t.listed
      BY <1>1, <1>2, <2>2 DEF Promised
    <3>2. ToSet(t.pending) = {}
      BY <1>1 DEF Promised, ToSet
    <3> QED
      BY <1>1, <3>1, <3>2, <1>5 DEF Promised
  <2> QED
    BY <2>1, <2>2
<1>6. \A e \in extracted' : \A d \in ToSet(Candidates[e[2]]) : Kept(d, e[1])'
  BY <1>2, <1>5 DEF Kept
<1> QED
  BY <1>4, <1>6 DEF ExtractInv, Extracts

\* A call that is no extraction is none afterwards.
LEMMA IngestsTell ==
  ASSUME Inv, ExtractInv, NEW c \in Clients,
         \/ \E m \in Manifests : Ingest(c, m)
         \/ \E path \in Paths, r \in Revisions : AddSource(c, path, r)
         \/ ListItems(c) \/ Start(c) \/ Consider(c) \/ Look(c) \/ CannotRegister(c)
         \/ PutItem(c) \/ Finish(c)
         \/ Register(c) \/ CreateBlob(c) \/ WriteBlob(c) \/ CannotWrite(c) \/ Crash(c)
  PROVE  ExtractInv'
<1>1. UNCHANGED <<drafts, extracted>>
  BY DEF Ingest, AddSource, ListItems, Start, Consider, Look, CannotRegister, PutItem, Finish,
         Register, CreateBlob, WriteBlob, CannotWrite, Crash, Call, PutBatch, product
<1>2. KeepsDrafts
  BY <1>1 DEF KeepsDrafts
<1>3. ASSUME NEW u, Become(c, u), ~Extracts(u) PROVE ExtractInv'
  BY <1>1, <1>2, <1>3, OneExtracts
<1>4. CASE Finish(c) \/ Crash(c)
  <2>1. ~Extracts(Idle)
    BY DEF Extracts, Idle
  <2> QED
    BY <1>3, <1>4, <2>1 DEF Finish, Crash
<1>5. CASE \E m \in Manifests : Ingest(c, m)
  <2>1. PICK m \in Manifests : Ingest(c, m)
    BY <1>5
  <2>a. PICK label \in {"list", "start"} : \E since, u :
          /\ u = [at |-> label, adding |-> FALSE, batch |-> m, since |-> since, prior |-> Empty, n |-> 1,
                  status |-> "", results |-> <<>>]
          /\ Become(c, u)
    BY <2>1 DEF Ingest, Call
  <2>2. PICK since, u :
          /\ u = [at |-> label, adding |-> FALSE, batch |-> m, since |-> since, prior |-> Empty, n |-> 1,
                  status |-> "", results |-> <<>>]
          /\ Become(c, u)
    BY <2>a
  <2>3. u.at = label
    BY <2>2
  <2> QED
    BY <1>3, <2>2, <2>3 DEF Extracts
<1>6. CASE \E path \in Paths, r \in Revisions : AddSource(c, path, r)
  <2>1. PICK r, proposal, u : /\ u = [at |-> "blob", adding |-> TRUE, revision |-> r, proposal |-> proposal]
                              /\ Become(c, u)
    BY <1>6 DEF AddSource, Call
  <2>2. u.at = "blob"
    BY <2>1
  <2> QED
    BY <1>3, <2>1, <2>2 DEF Extracts
<1>7. CASE \/ ListItems(c) \/ Start(c) \/ Consider(c) \/ Look(c) \/ CannotRegister(c) \/ PutItem(c)
           \/ Register(c) \/ CreateBlob(c) \/ WriteBlob(c) \/ CannotWrite(c)
  <2>1. PICK t : t = task[c]
    OBVIOUS
  <2>2. t.at \in {"list", "start", "item", "look", "put", "commit", "blob", "write"}
    BY <1>7, <2>1 DEF ListItems, Start, Consider, Look, CannotRegister, PutItem,
                      Register, CreateBlob, WriteBlob, CannotWrite, At
  <2>3. Good(t, DOMAIN sources, blobs)
    BY <2>1 DEF Inv, TaskInv
  <2>4. "at" \in DOMAIN t
    BY <2>2, <2>3 DEF Good, GoodIngest, GoodAdd, GoodExtract, IsIngest, IsAdd, Idle
  <2>5. ASSUME NEW label, ~Extracts([at |-> label]), Goto(c, label) PROVE ExtractInv'
    <3>1. PICK u : u = [t EXCEPT !.at = label] /\ Become(c, u)
      BY <2>1, <2>5 DEF Goto
    <3>2. u.at = label
      BY <2>4, <3>1
    <3> QED
      BY <1>3, <2>5, <3>1, <3>2 DEF Extracts
  <2>6. ASSUME NEW told, ToPut(c, told) PROVE ExtractInv'
    <3>1. PICK u : u = [t EXCEPT !.at = "put", !.status = told] /\ Become(c, u)
      BY <2>1, <2>6 DEF ToPut
    <3>2. u.at = "put"
      BY <2>4, <3>1
    <3> QED
      BY <1>3, <3>1, <3>2 DEF Extracts
  <2>7. CASE ListItems(c)
    <3>1. PICK known, u : u = [t EXCEPT !.at = "start", !.prior = known] /\ Become(c, u)
      BY <2>1, <2>7 DEF ListItems
    <3>2. u.at = "start"
      BY <2>4, <3>1
    <3> QED
      BY <1>3, <3>1, <3>2 DEF Extracts
  <2>8. CASE PutItem(c)
    <3>1. PICK label, k, told, u :
            label \in {"end", "item"} /\ u = [t EXCEPT !.at = label, !.n = k, !.results = told] /\ Become(c, u)
      <4>1. PICK label : label \in {"end", "item"} /\ label = IF t.n = Len(t.batch) THEN "end" ELSE "item"
        OBVIOUS
      <4>2. Become(c, [t EXCEPT !.at = label, !.n = t.n + 1, !.results = Append(t.results, t.status)])
        BY <2>1, <2>8, <4>1 DEF PutItem
      <4> QED
        BY <4>1, <4>2
    <3>2. u.at = label
      BY <2>4, <3>1
    <3> QED
      BY <1>3, <3>1, <3>2 DEF Extracts
  <2>9. CASE \/ Start(c) \/ Consider(c) \/ Look(c) \/ CannotRegister(c)
             \/ Register(c) \/ CreateBlob(c) \/ WriteBlob(c) \/ CannotWrite(c)
    <3>1. \/ \E label \in {"item", "look", "commit", "blob", "write"} : Goto(c, label)
          \/ \E told : ToPut(c, told)
          \/ Become(c, Idle)
      BY <2>9 DEF Start, PutBatch, Consider, Look, CannotRegister, Register, CreateBlob, WriteBlob,
                  CannotWrite, Preserved, NotPreserved
    <3>2. ~Extracts(Idle) /\ \A label \in {"item", "look", "commit", "blob", "write"} : ~Extracts([at |-> label])
      BY DEF Extracts, Idle
    <3> QED
      BY <1>3, <2>5, <2>6, <3>1, <3>2
  <2> QED
    BY <1>7, <2>7, <2>8, <2>9
<1> QED
  BY <1>4, <1>5, <1>6, <1>7

LEMMA ReviewTells ==
  ASSUME ExtractInv, KeepsDrafts, UNCHANGED <<task, extracted>>
  PROVE  ExtractInv'
<1>1. \A d, m : Kept(d, m) => Kept(d, m)'
  BY DEF KeepsDrafts, Kept
<1> QED
  BY <1>1 DEF ExtractInv, Extracts, Promised

LEMMA ExtractNext ==
  ASSUME Inv, ExtractInv, [Next]_vars
  PROVE  ExtractInv'
<1>1. CASE \/ \E d \in DOMAIN drafts : Review(d)
           \/ Tick
           \/ UNCHANGED vars
  <2>1. KeepsDrafts
    <3>1. CASE \E d \in DOMAIN drafts : Review(d)
      <4>1. PICK d \in DOMAIN drafts : Review(d)
        BY <3>1
      <4>2. PICK f, g : f = drafts /\ g = drafts' /\ g = [f EXCEPT ![d].status = "REJECTED"]
        BY <4>1 DEF Review
      <4>3. ASSUME NEW x \in DOMAIN f PROVE x \in DOMAIN g /\ g[x].batch = f[x].batch
        BY <4>2
      <4> QED
        BY <4>2, <4>3 DEF KeepsDrafts
    <3>2. CASE Tick \/ UNCHANGED vars
      BY <3>2 DEF KeepsDrafts, Tick, vars, product
    <3> QED
      BY <1>1, <3>1, <3>2
  <2>2. UNCHANGED <<task, extracted>>
    BY <1>1 DEF Review, Tick, vars
  <2> QED
    BY <2>1, <2>2, ReviewTells
<1>2. CASE \E c \in Clients :
             \/ \E m \in Manifests : Ingest(c, m) \/ Extract(c, m)
             \/ \E path \in Paths, r \in Revisions : AddSource(c, path, r)
             \/ ListItems(c) \/ Start(c) \/ Consider(c) \/ Look(c) \/ CannotRegister(c)
             \/ PutItem(c) \/ Finish(c)
             \/ Register(c) \/ CreateBlob(c) \/ WriteBlob(c) \/ CannotWrite(c)
             \/ \E r \in Revisions : LoadSource(c, r) \/ CannotExtract(c, r)
             \/ Stage(c) \/ NextItem(c) \/ Report(c) \/ Crash(c)
  BY <1>2, IngestsTell, ExtractTells, LoadTells, CannotTells, StageTells, NextItemTells, ReportTells
<1> QED
  BY <1>1, <1>2 DEF Next

LEMMA ExtractInit == Init => ExtractInv
BY DEF Init, ExtractInv, Extracts, Idle

\* ingest and extract, as they report to their caller: a COMPLETED batch has
\* every item imported unless two processes ingested it at once, and an
\* extraction that reports no failure has its candidates staged for good.
THEOREM BatchesTellTruth == Spec => []BatchTellsTruth
<1>1. Init => Inv /\ BatchInv /\ ExtractInv
  BY InitInv, BatchInit, ExtractInit
<1>2. Inv /\ BatchInv /\ ExtractInv /\ [Next]_vars => (Inv /\ BatchInv /\ ExtractInv)'
  BY NextInv, BatchNext, ExtractNext
<1>3. BatchInv /\ ExtractInv => BatchTellsTruth
  BY DEF BatchInv, ExtractInv, BatchTellsTruth, Imported, Kept
<1> QED
  BY <1>1, <1>2, <1>3, PTL DEF Spec
=============================================================================
