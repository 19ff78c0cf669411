------------------------------- MODULE Kernel -------------------------------
(***************************************************************************)
(* What an accepted proposal does to the workspace, and what replaying the *)
(* ledger does.                                                            *)
(*                                                                         *)
(* KernelCommit shows that commits are atomic and follow one another; here *)
(* a commit is one step, and the store, the operations and the events are  *)
(* spelled out.  A proposal names its proposer, the versions and active    *)
(* sets its author read (any earlier state of the store may have been      *)
(* read), its guards, and its operations, applied in order or not at all.  *)
(***************************************************************************)
EXTENDS Claims, Continuity

CONSTANTS
  Offered(_, _), \* the proposals callers may submit, given the head and the store
  MaxEntries     \* bound on the length of the ledger

VARIABLES
  store,         \* the materialized tables
  ledger         \* accepted entries: [proposal, outcome, events]

vars == <<store, ledger>>

EmptyTable == [k \in {} |-> NONE]
EmptyStore ==
  [t \in {"sources", "claims", "evidence", "conflicts", "decisions", "questions", "work"}
     |-> EmptyTable]

-----------------------------------------------------------------------------
(* Validation.                                                             *)

OperationKinds ==
  {"REGISTER_SOURCE_REVISION", "ASSERT_CLAIM", "ATTACH_EVIDENCE", "SUPERSEDE_CLAIM",
   "RETRACT_CLAIM", "RESOLVE_CONFLICT", "RECORD_DECISION", "SUPERSEDE_DECISION",
   "OPEN_QUESTION", "ANSWER_QUESTION", "DROP_QUESTION", "CREATE_WORK_ITEM",
   "UPDATE_WORK_ITEM_STATUS"}

\* What the schema of proposals asks of the operations: a list of known kinds.
WellFormed(p) ==
  /\ Len(p.ops) \in Nat /\ DOMAIN p.ops = 1 .. Len(p.ops)
  /\ \A i \in DOMAIN p.ops : p.ops[i].op \in OperationKinds

\* The aggregates an operation must have read; the others commute.
RequiredReads(op) ==
  CASE op.op \in {"SUPERSEDE_CLAIM", "RETRACT_CLAIM"} -> {<<"claims", op.target>>}
    [] op.op = "RESOLVE_CONFLICT" -> {<<"conflicts", op.conflict>>}
    [] op.op = "SUPERSEDE_DECISION" -> {<<"decisions", op.target>>}
    [] op.op \in {"ANSWER_QUESTION", "DROP_QUESTION"} -> {<<"questions", op.target>>}
    [] op.op = "UPDATE_WORK_ITEM_STATUS" -> {<<"work", op.target>>}
    [] OTHER -> {}

ReadsRequired(p) ==
  \A i \in DOMAIN p.ops : RequiredReads(p.ops[i]) \subseteq DOMAIN p.reads

\* What the author saw is still so: the version of a row, the registration of a
\* source (version 1, or 0 while it is unknown), the active set of a family.
RowIs(s, table, id, field, value) == id \in DOMAIN s[table] /\ s[table][id][field] = value

ReadHolds(s, r, version) ==
  IF r[1] = "sources" THEN version = (IF r[2] \in DOMAIN s.sources THEN 1 ELSE 0)
  ELSE RowIs(s, r[1], r[2], "version", version)
\* A slip: the active sets are not compared.
ReadsHoldOfRows(s, p) == \A r \in DOMAIN p.reads : ReadHolds(s, r, p.reads[r])
ReadsHold(s, p) ==
  /\ \A r \in DOMAIN p.reads : ReadHolds(s, r, p.reads[r])
  /\ \A f \in DOMAIN p.sets : ActiveSetDigest(s, f) = p.sets[f]

GuardHolds(s, g) ==
  CASE g.op = "STATUS_EQ" -> RowIs(s, g.table, g.id, "status", g.expected)
    [] g.op = "VERSION_EQ" -> RowIs(s, g.table, g.id, "version", g.expected)
    [] g.op = "CONFLICT_MEMBER_DIGEST_EQ" -> RowIs(s, "conflicts", g.id, "members", g.expected)
    [] g.op = "ACTIVE_SET_DIGEST_EQ" -> ActiveSetDigest(s, g.family) = g.expected
    [] g.op = "SOURCE_HASH_EQ" -> g.id \in DOMAIN s.sources /\ s.sources[g.id] = g.expected
    [] g.op = "NO_ACTIVE_CLAIM" -> ActiveFamily(s, g.family) = {}

\* What the operations of a proposal add to the ids its links may name.
NewIds(op) ==
  CASE op.op = "REGISTER_SOURCE_REVISION" -> {<<"sources", op.source>>}
    [] op.op \in {"ASSERT_CLAIM", "SUPERSEDE_CLAIM"} -> {<<"claims", op.claim>>}
    [] op.op \in {"RECORD_DECISION", "SUPERSEDE_DECISION"} -> {<<"decisions", op.decision>>}
    [] op.op = "OPEN_QUESTION" -> {<<"questions", op.question>>}
    [] op.op = "CREATE_WORK_ITEM" -> {<<"work", op.item>>}
    [] OTHER -> {}

\* The claim an operation takes out of the active set (the slip: a retracted one
\* stays).
LeavingBySupersession(op) == IF op.op = "SUPERSEDE_CLAIM" THEN {op.target} ELSE {}
Leaving(op) ==
  IF op.op \in {"SUPERSEDE_CLAIM", "RETRACT_CLAIM"} THEN {op.target} ELSE {}

\* The conflicts the operations will open, foreseen before any of them runs:
\* a forecast tracks the active claims and the episode of each family.
Predict(forecast, op) ==
  LET claim == Claim[op.claim]
      rivals(kind) ==
        {c \in forecast.active \ Leaving(op) :
           Claim[c].family = claim.family /\ ConflictKind(claim, Claim[c]) = kind}
      opened == {kind \in {"EXCLUSIVE_VALUE_CONFLICT", "POLARITY_CONFLICT"} : rivals(kind) # {}}
      known == DOMAIN forecast.episodes
      episodes == [key \in known \cup {<<claim.family, kind>> : kind \in opened} |->
                     IF key \in known THEN forecast.episodes[key]
                     ELSE rivals(key[2]) \cup {op.claim}]
  IN IF op.op \notin {"ASSERT_CLAIM", "SUPERSEDE_CLAIM"}
     THEN [forecast EXCEPT !.active = @ \ Leaving(op)]
     ELSE [active |-> (forecast.active \cup {op.claim}) \ Leaving(op),
           episodes |-> episodes,
           ids |-> forecast.ids \cup {episodes[<<claim.family, kind>>] : kind \in opened}]

Unforeseen(s) ==
  LET keys == {<<s.conflicts[k].family, s.conflicts[k].kind>> : k \in DOMAIN s.conflicts}
  IN [active |-> Active(s),
      episodes |-> [key \in keys |->
                      CHOOSE k \in DOMAIN s.conflicts :
                        <<s.conflicts[k].family, s.conflicts[k].kind>> = key],
      ids |-> {}]
\* The forecast after each operation of a proposal.
Forecasts(s, ops) ==
  LET after[i \in 0 .. Len(ops)] ==
        IF i = 0 THEN Unforeseen(s) ELSE Predict(after[i - 1], ops[i])
  IN after
PredictedConflicts(s, ops) == Forecasts(s, ops)[Len(ops)].ids

Referable == {"sources", "claims", "conflicts", "decisions", "questions", "work"}
Namespace(s, ops) ==
  (UNION {{<<t, id>> : id \in DOMAIN s[t]} : t \in Referable})
    \cup {<<"conflicts", k>> : k \in PredictedConflicts(s, ops)}
    \cup (UNION {NewIds(ops[i]) : i \in DOMAIN ops})

References(op) ==
  CASE op.op \in {"RECORD_DECISION", "SUPERSEDE_DECISION", "OPEN_QUESTION",
                  "CREATE_WORK_ITEM"} -> op.refs
    [] op.op = "ANSWER_QUESTION" -> {op.answer}
    [] OTHER -> {}

ReferencesResolve(s, ops) ==
  \A i \in DOMAIN ops : References(ops[i]) \subseteq Namespace(s, ops)

-----------------------------------------------------------------------------
(* Commit.                                                                 *)

ApplyOperation(txn, op, proposer, seq) ==
  IF txn.error # NONE THEN txn
  ELSE CASE op.op = "REGISTER_SOURCE_REVISION" -> RegisterSource(txn, op)
         [] op.op = "ASSERT_CLAIM" -> AssertClaim(txn, op.claim, op.links, {}, seq)
         [] op.op = "ATTACH_EVIDENCE" -> AttachEvidence(txn, op)
         [] op.op = "SUPERSEDE_CLAIM" -> SupersedeClaim(txn, op, seq)
         [] op.op = "RETRACT_CLAIM" -> RetractClaim(txn, op, proposer)
         [] op.op = "RESOLVE_CONFLICT" -> ResolveConflict(txn, op, proposer)
         [] op.op = "RECORD_DECISION" -> RecordDecision(txn, op)
         [] op.op = "SUPERSEDE_DECISION" -> SupersedeDecision(txn, op)
         [] op.op = "OPEN_QUESTION" -> OpenQuestion(txn, op)
         [] op.op = "ANSWER_QUESTION" -> AnswerQuestion(txn, op)
         [] op.op = "DROP_QUESTION" -> DropQuestion(txn, op)
         [] op.op = "CREATE_WORK_ITEM" -> CreateWorkItem(txn, op)
         [] op.op = "UPDATE_WORK_ITEM_STATUS" -> UpdateWorkItemStatus(txn, op)

Start(s) == [store |-> s, events |-> <<>>, opened |-> {}, error |-> NONE]

\* The transaction after each operation of a proposal.
Transactions(p, s, seq) ==
  LET after[i \in 0 .. Len(p.ops)] ==
        IF i = 0 THEN Start(s) ELSE ApplyOperation(after[i - 1], p.ops[i], p.proposer, seq)
  IN after

\* The transaction of a proposal against a store: the checks in their order,
\* then the operations.
Evaluate(p, s, seq) ==
  IF ~WellFormed(p) \/ ~ReadsRequired(p) THEN Fail(Start(s), INVALID)
  ELSE IF ~ReadsHold(s, p) \/ \E g \in p.guards : ~GuardHolds(s, g)
  THEN Fail(Start(s), CONFLICT)
  ELSE IF ~ReferencesResolve(s, p.ops) THEN Fail(Start(s), INVALID)
  ELSE Transactions(p, s, seq)[Len(p.ops)]

Init ==
  /\ store = EmptyStore
  /\ ledger = <<>>

Commit(p) ==
  LET txn == Evaluate(p, store, Len(ledger) + 1)
  IN /\ txn.error = NONE
     /\ store' = txn.store
     /\ ledger' = Append(ledger,
                    [proposal |-> p, events |-> txn.events, opened |-> txn.opened,
                     outcome |-> IF txn.opened = {} THEN "COMMITTED" ELSE "FACT_CONFLICT"])

Next ==
  /\ Len(ledger) < MaxEntries
  /\ \E p \in Offered(Len(ledger), store) : Commit(p)

Spec == Init /\ [][Next]_vars

-----------------------------------------------------------------------------
(* Replay: the events of the ledger, applied to an empty workspace.        *)

\* A slip: a replayed conflict always starts over.
ReplayOpenConflictAnew(txn, e) ==
  [txn EXCEPT !.store.conflicts =
     Put(@, e.id, [f \in DOMAIN e.conflict \cup {"version"} |->
                     IF f = "version" THEN 1 ELSE e.conflict[f]])]

\* The recorded document replaces the row, whatever the row was; the members
\* must exist and belong to the family it names.
ReplayOpenConflict(txn, e) ==
  LET old == txn.store.conflicts
      doc == e.conflict
      row == [f \in DOMAIN doc \cup {"version"} |->
                IF f # "version" THEN doc[f]
                ELSE IF e.id \in DOMAIN old THEN old[e.id].version + 1 ELSE 1]
  IN IF \/ ~(doc.members \subseteq DOMAIN txn.store.claims)
        \/ {Claim[c].family : c \in doc.members} # {doc.family}
     THEN Fail(txn, INVALID)
     ELSE [txn EXCEPT !.store.conflicts = Put(@, e.id, row)]

ReplayClose(txn, e, status, by) ==
  IF ~IsActive(txn.store, e.target) THEN Fail(txn, INVALID)
  ELSE [txn EXCEPT !.store = Close(@, e.target, status, by)]

ReplayResolve(txn, e) ==
  LET row == txn.store.conflicts[e.id]
      resolved == [row EXCEPT !.status = "RESOLVED", !.version = @ + 1,
                              !.resolution = e.resolution]
  IN IF e.id \notin DOMAIN txn.store.conflicts \/ row.status # "OPEN" THEN Fail(txn, INVALID)
     ELSE [txn EXCEPT !.store.conflicts[e.id] = resolved]

\* A continuity event is regenerated and compared with the recorded one.
ReplayContinuity(txn, e) ==
  LET again ==
        CASE e.type = "DECISION_RECORDED" -> RecordDecision(txn, e)
          [] e.type = "DECISION_SUPERSEDED" -> SupersedeDecision(txn, e)
          [] e.type = "QUESTION_OPENED" -> OpenQuestion(txn, e)
          [] e.type \in {"QUESTION_ANSWERED", "QUESTION_DROPPED"} ->
               CloseQuestion(txn, e.target,
                             IF e.type = "QUESTION_ANSWERED" THEN "ANSWERED" ELSE "DROPPED",
                             e.answer)
          [] e.type = "WORK_ITEM_CREATED" -> CreateWorkItem(txn, e)
          [] e.type = "WORK_ITEM_STATUS_UPDATED" -> UpdateWorkItemStatus(txn, e)
  IN IF again.error # NONE \/ Last(again.events) # e THEN Fail(txn, INVALID) ELSE again

ReplayEvent(txn, e) ==
  IF txn.error # NONE THEN txn
  ELSE CASE e.type = "SOURCE_REVISION_REGISTERED" -> RegisterSource(txn, e)
         [] e.type = "CLAIM_ASSERTED" -> InsertClaim(txn, e.claim, e.evidence)
         [] e.type = "EVIDENCE_ATTACHED" -> AttachEvidence(txn, e)
         [] e.type = "CLAIM_SUPERSEDED" -> ReplayClose(txn, e, "SUPERSEDED", e.by)
         [] e.type = "CLAIM_RETRACTED" -> ReplayClose(txn, e, "RETRACTED", NONE)
         [] e.type = "CONFLICT_OPENED" -> ReplayOpenConflict(txn, e)
         [] e.type = "CONFLICT_RESOLVED" -> ReplayResolve(txn, e)
         [] OTHER -> ReplayContinuity(txn, e)

\* The transaction after each of some events.
Replayed(txn, events) ==
  LET after[i \in 0 .. Len(events)] ==
        IF i = 0 THEN txn ELSE ReplayEvent(after[i - 1], events[i])
  IN after

\* Every entry checks its references again before its events.
ReplayEntry(txn, entry) ==
  IF txn.error # NONE \/ ~ReferencesResolve(txn.store, entry.proposal.ops)
  THEN Fail(txn, INVALID)
  ELSE Replayed(txn, entry.events)[Len(entry.events)]

\* The transaction after each entry of a ledger.
ReplayedEntries(entries) ==
  LET after[n \in 0 .. Len(entries)] ==
        IF n = 0 THEN Start(EmptyStore) ELSE ReplayEntry(after[n - 1], entries[n])
  IN after
Replay == ReplayedEntries(ledger)[Len(ledger)]

-----------------------------------------------------------------------------
(***************************************************************************)
(* Properties.                                                             *)
(***************************************************************************)
\* Where the events of the ledger stand, and what they say.
Positions == UNION {{n} \X DOMAIN ledger[n].events : n \in DOMAIN ledger}
EventAt(at) == ledger[at[1]].events[at[2]]
EventsOf(types) == {at \in Positions : EventAt(at).type \in types}
Precedes(x, y) == x[1] < y[1] \/ (x[1] = y[1] /\ x[2] < y[2])

\* Replaying the events of the ledger into an empty workspace succeeds and
\* rebuilds the very tables the operations produced, although the replay
\* reducers are other code than the operations.
ReplayParity ==
  LET replayed == Replay
  IN replayed.error = NONE /\ replayed.store = store

\* README: contradictory claims remain visible.  Two active claims that
\* contradict each other are together in an open conflict, or in one that
\* somebody has resolved.
NoSilentContradiction ==
  \A x, y \in Active(store) :
    /\ x # y
    /\ Claim[x].family = Claim[y].family
    /\ ConflictKind(Claim[x], Claim[y]) # NONE
    => \/ \E k \in DOMAIN store.conflicts :
            store.conflicts[k].status = "OPEN" /\ {x, y} \subseteq store.conflicts[k].members
       \/ \E at \in EventsOf({"CONFLICT_RESOLVED"}) :
            \E r \in EventAt(at).resolution : {x, y} \subseteq r.selected \cup r.rejected

\* FR-025: the row of a conflict tells its history.  Each family and kind has
\* one row; its version counts the events about it, its episode the times it
\* was opened, and opened_seq names the entry that began the last episode.  And
\* a resolution decides exactly the members the conflict had at that moment:
\* none that joined since the resolver looked is swept along or forgotten.
EpisodeHistory ==
  /\ \A k \in DOMAIN store.conflicts :
       LET row == store.conflicts[k]
           opened == {at \in EventsOf({"CONFLICT_OPENED"}) : EventAt(at).id = k}
           resolved == {at \in EventsOf({"CONFLICT_RESOLVED"}) : EventAt(at).id = k}
           lastEpisode == {o \in opened :
                             Cardinality({r \in resolved : Precedes(r, o)}) = row.episode - 1}
       IN /\ Episodes(store, row.family, row.kind) = {k}
          /\ row.version = Cardinality(opened) + Cardinality(resolved)
          /\ row.episode = Cardinality(resolved) + (IF row.status = "OPEN" THEN 1 ELSE 0)
          /\ row.opened \in {o[1] : o \in lastEpisode}
          /\ \A o \in lastEpisode : row.opened <= o[1]
  /\ \A at \in EventsOf({"CONFLICT_RESOLVED"}) :
       LET k == EventAt(at).id
           before == {o \in EventsOf({"CONFLICT_OPENED"}) : EventAt(o).id = k /\ Precedes(o, at)}
       IN \E o \in before :
            /\ \A other \in before : other = o \/ Precedes(other, o)
            /\ \A r \in EventAt(at).resolution :
                 r.selected \cup r.rejected = EventAt(o).conflict.members

\* An author who read the active set of a family, or demanded that it be empty,
\* and whose claims contradict neither it nor each other, opens no conflict
\* there: no claim slips in between the read and the commit.
NoPhantom ==
  \A n \in DOMAIN ledger :
    LET p == ledger[n].proposal
        asserted == {EventAt(at).claim : at \in {x \in EventsOf({"CLAIM_ASSERTED"}) : x[1] = n}}
        demanded == {g.family : g \in {h \in p.guards : h.op = "NO_ACTIVE_CLAIM"}}
        seen(f) == IF f \in DOMAIN p.sets THEN {entry[1] : entry \in p.sets[f]} ELSE {}
    IN \A f \in DOMAIN p.sets \cup demanded :
         LET own == {x \in asserted : Claim[x].family = f}
         IN (\A x \in own, y \in seen(f) \cup own :
               x = y \/ ConflictKind(Claim[x], Claim[y]) = NONE)
            => \A k \in ledger[n].opened : store.conflicts[k].family # f

\* The versions of aggregates entry n acts upon because it had to read them.
Consumed(n) ==
  LET p == ledger[n].proposal
  IN {<<r, p.reads[r]>> : r \in UNION {RequiredReads(p.ops[i]) : i \in DOMAIN p.ops}}

\* What an accepted proposal read still held when it was decided.  No phantom;
\* and no lost update: a version of an aggregate that an operation had to read
\* is acted upon by one entry of the ledger at most.
ReadsAreCurrent ==
  /\ NoPhantom
  /\ \A m, n \in DOMAIN ledger : m # n => Consumed(m) \cap Consumed(n) = {}

\* Links are checked before the batch that creates their targets runs, against
\* what it is foreseen to create.  Whatever a caller offers and the operations
\* accept, the conflicts foreseen are the conflicts the operations open, by the
\* same ids; and whatever a record points at exists.
LinksResolve ==
  /\ \A p \in Offered(Len(ledger), store) :
       LET txn == Evaluate(p, store, Len(ledger) + 1)
       IN txn.error = NONE => txn.opened = PredictedConflicts(store, p.ops)
  /\ LET refs == (UNION {store.decisions[d].refs : d \in DOMAIN store.decisions})
                 \cup (UNION {store.questions[q].refs \cup store.questions[q].answer :
                                q \in DOMAIN store.questions})
                 \cup (UNION {store.work[w].refs : w \in DOMAIN store.work})
     IN /\ \A r \in refs : r[2] \in DOMAIN store[r[1]]
        /\ \A d \in DOMAIN store.decisions :
             store.decisions[d].by \in DOMAIN store.decisions \cup {NONE}
=============================================================================
