----------------------------- MODULE MemoryViews -----------------------------
(***************************************************************************)
(* What readers are shown of a workspace, as functions of its tables and   *)
(* of its ledger: the projection of the rows with their history, the       *)
(* records and the scenarios the memory views are made of, and the context *)
(* pack that a session starts with, packed into a budget.                  *)
(*                                                                         *)
(* A record is named by its table and its id.  Texts count by their number *)
(* only: every record a pack shows weighs one, and so does every note that *)
(* something was left out.                                                 *)
(***************************************************************************)
EXTENDS Kernel

CONSTANTS
  Before(_, _, _),  \* the order of the ids of a table
  MaxRefs,          \* history references a pack shows of one record
  Budgets           \* the budgets a pack is asked for

\* Rows are read in the order of their ids, the primary key.
ASSUME MemoryViewsAssumption ==
  /\ MaxRefs \in Nat /\ Budgets \subseteq Nat
  /\ \A x, y \in DOMAIN Claim : x # y => Before("claims", x, y) \/ Before("claims", y, x)
  /\ \A x, y, z \in DOMAIN Claim :
       Before("claims", x, y) /\ Before("claims", y, z) => Before("claims", x, z)
  /\ \A x \in DOMAIN Claim : ~Before("claims", x, x)

-----------------------------------------------------------------------------
(* The projection.                                                         *)

Evidence(links) ==
  UNION {{<<"evidence", l>>, <<"claims", Link[l].claim>>, <<"sources", Link[l].source>>} : l \in links}
\* The ids in a document count where they stand under a name of their own;
\* those in lists, like the members of a conflict or the links of a decision,
\* do not.
NamedInOperation(op) ==
  CASE op.op = "REGISTER_SOURCE_REVISION" -> {<<"sources", op.source>>}
    [] op.op = "ASSERT_CLAIM" -> {<<"claims", op.claim>>} \cup Evidence(op.links)
    [] op.op = "ATTACH_EVIDENCE" -> Evidence({op.link})
    [] op.op = "SUPERSEDE_CLAIM" ->
         {<<"claims", op.target>>, <<"claims", op.claim>>} \cup Evidence(op.links)
    [] op.op = "RETRACT_CLAIM" -> {<<"claims", op.target>>}
    [] op.op = "RESOLVE_CONFLICT" -> {<<"conflicts", op.conflict>>}
    [] op.op = "RECORD_DECISION" -> {<<"decisions", op.decision>>}
    [] op.op = "SUPERSEDE_DECISION" -> {<<"decisions", op.target>>, <<"decisions", op.decision>>}
    [] op.op = "OPEN_QUESTION" -> {<<"questions", op.question>>} \cup op.refs
    [] op.op = "ANSWER_QUESTION" -> {<<"questions", op.target>>, op.answer}
    [] op.op = "DROP_QUESTION" -> {<<"questions", op.target>>}
    [] op.op = "CREATE_WORK_ITEM" -> {<<"work", op.item>>} \cup op.refs
    [] op.op = "UPDATE_WORK_ITEM_STATUS" -> {<<"work", op.target>>}
\* The events repeat the operations, but for the conflicts they open.
NamedInEvents(events) ==
  {<<"conflicts", events[i].id>> : i \in {i \in DOMAIN events : events[i].type = "CONFLICT_OPENED"}}
NamedInProposal(p) ==
  (UNION {NamedInOperation(p.ops[i]) : i \in DOMAIN p.ops})
    \cup DOMAIN p.reads
    \cup {<<g.table, g.id>> : g \in {g \in p.guards : g.op \in {"STATUS_EQ", "VERSION_EQ"}}}
    \cup {<<"conflicts", g.id>> : g \in {g \in p.guards : g.op = "CONFLICT_MEMBER_DIGEST_EQ"}}
    \cup {<<"sources", g.id>> : g \in {g \in p.guards : g.op = "SOURCE_HASH_EQ"}}
\* A slip: the ids are looked for in the proposals alone.
NamedByProposal(entry) == NamedInProposal(entry.proposal)
Named(entry) == NamedInProposal(entry.proposal) \cup NamedInEvents(entry.events)

\* The entries that name a record.
History(r) == {n \in DOMAIN ledger : r \in Named(ledger[n])}
\* Where a record stands in its section of the projection.
Position(r) == Cardinality({id \in DOMAIN store[r[1]] : Before(r[1], id, r[2])})

RecordsOf(t) == {<<t, id>> : id \in DOMAIN store[t]}
RowOf(r) == store[r[1]][r[2]]

-----------------------------------------------------------------------------
(* The records of the memory views.                                        *)

SourcesOf(r) ==
  CASE r[1] = "sources" -> {r}
    [] r[1] = "claims" -> {<<"sources", Link[l].source>> :
                             l \in {l \in DOMAIN store.evidence : store.evidence[l].claim = r[2]}}
    [] r[1] = "conflicts" -> {}
    [] OTHER -> {ref \in RowOf(r).refs : ref[1] = "sources"}
\* A claim is related to every conflict it ever was a member of at its last
\* episode, open or not.
Related(r) ==
  CASE r[1] = "sources" -> {}
    [] r[1] = "claims" ->
         {<<"evidence", l>> : l \in {l \in DOMAIN store.evidence : store.evidence[l].claim = r[2]}}
           \cup {<<"conflicts", k>> : k \in {k \in DOMAIN store.conflicts : r[2] \in store.conflicts[k].members}}
    [] r[1] = "conflicts" -> {<<"claims", c>> : c \in RowOf(r).members}
    [] r[1] = "decisions" ->
         RowOf(r).refs \cup (IF RowOf(r).by = NONE THEN {} ELSE {<<"decisions", RowOf(r).by>>})
    [] OTHER -> RowOf(r).refs
\* What a record says of its row; a claim without its version.
Content(r) ==
  CASE r[1] = "sources" -> [content |-> RowOf(r)]
    [] r[1] = "claims" -> [status |-> RowOf(r).status]
    [] OTHER -> RowOf(r)
AtomicRecord(r) ==
  [record |-> r, content |-> Content(r), sources |-> SourcesOf(r), related |-> Related(r),
   history |-> History(r), position |-> Position(r)]

Viewed == UNION {RecordsOf(t) : t \in {"sources", "claims", "conflicts", "decisions", "questions", "work"}}
Open(r) == RowOf(r).status = "OPEN"

-----------------------------------------------------------------------------
(* The scenarios.                                                          *)

Ended == {"SUPERSEDED", "REVERSED", "ANSWERED", "DROPPED", "DONE", "DEPRECATED"}
OpenConflictsOf(c) ==
  {k \in RecordsOf("conflicts") : Open(k) /\ c[2] \in RowOf(k).members}

Project == {r \in Viewed : r[1] # "sources" /\ RowOf(r).status \notin Ended}
\* All that is known about a subject; here each family has its own.
Subject(f) ==
  LET claims == {c \in RecordsOf("claims") : Claim[c[2]].family = f}
  IN claims \cup UNION {OpenConflictsOf(c) : c \in claims}
DecisionThread(d) ==
  {d} \cup Related(d) \cup {other \in RecordsOf("decisions") : RowOf(other).by = d[2]}
\* Both sides of a contradiction, and the sources that support them.
Incident(k) == {k} \cup Related(k) \cup UNION {SourcesOf(c) : c \in Related(k)}
Workstream(w) == {w} \cup Related(w)

Scenarios ==
  {<<"project", "project">>}
    \cup {<<"subject", Claim[c].family>> : c \in DOMAIN store.claims}
    \cup {<<"thread", d>> : d \in RecordsOf("decisions")}
    \cup {<<"incident", k>> : k \in {k \in RecordsOf("conflicts") : Open(k)}}
    \cup {<<"work", w>> : w \in {w \in RecordsOf("work") : RowOf(w).status \notin {"DONE", "DROPPED"}}}
Members(scenario) ==
  CASE scenario[1] = "project" -> Project
    [] scenario[1] = "subject" -> Subject(scenario[2])
    [] scenario[1] = "thread" -> DecisionThread(scenario[2])
    [] scenario[1] = "incident" -> Incident(scenario[2])
    [] scenario[1] = "work" -> Workstream(scenario[2])
\* What the digest of a scenario is taken over: the digests of its members.
Digest(scenario) == {AtomicRecord(r) : r \in Members(scenario) \cap Viewed}

-----------------------------------------------------------------------------
(* The context pack.                                                       *)

\* Of each record a pack shows the last references, and tells when there are
\* more.
Truncated(records) ==
  LET named == [n \in DOMAIN ledger |-> Named(ledger[n])]
  IN {r \in records : Cardinality({n \in DOMAIN named : r \in named[n]}) > MaxRefs}

ShownConflicts == {k \in RecordsOf("conflicts") : Open(k)}
\* A slip: a claim that is a member of a resolved conflict is not current.
ConflictedEver == {<<"claims", c>> : c \in UNION {RowOf(k).members : k \in RecordsOf("conflicts")}}
Conflicted == {<<"claims", c>> : c \in UNION {RowOf(k).members : k \in ShownConflicts}}
Current == {<<"claims", c>> : c \in Active(store)} \ Conflicted
ActiveRecords ==
  {r \in RecordsOf("decisions") : RowOf(r).status = "ACTIVE"}
    \cup {r \in RecordsOf("questions") : Open(r)}
    \cup {r \in RecordsOf("work") : RowOf(r).status \in {"TODO", "DOING", "BLOCKED"}}
\* What no budget may leave out.
Mandatory == ShownConflicts \cup Conflicted \cup ActiveRecords

FirstClaims(k) == {c \in Current : Cardinality({x \in Current : Before("claims", x[2], c[2])}) < k}
\* Claim after claim, as long as each pack so far fits; the weight of a pack is
\* what it shows, a note for each history cut short, and one for the claims
\* left out.  There is no pack when not even the mandatory part fits.
Packs(budget) ==
  LET always == Mandatory
      current == Current
      cut == Truncated(always \cup current)
      weight == [k \in 0 .. Cardinality(current) |->
                   LET shown == always \cup FirstClaims(k)
                   IN Cardinality(shown) + Cardinality(cut \cap shown)
                        + (IF k < Cardinality(current) THEN 1 ELSE 0)]
      fitting == {k \in DOMAIN weight : \A j \in 0 .. k : weight[j] <= budget}
  IN {[claims |-> FirstClaims(k),
       omitted |-> Cardinality(current) - k,
       notes |-> cut \cap (always \cup FirstClaims(k)),
       weight |-> weight[k]] : k \in {k \in fitting : \A j \in fitting : j <= k}}

-----------------------------------------------------------------------------
(***************************************************************************)
(* Properties.                                                             *)
(***************************************************************************)
Decided(x, y) ==
  \E at \in EventsOf({"CONFLICT_RESOLVED"}) :
    \E r \in EventAt(at).resolution : {x, y} \subseteq r.selected \cup r.rejected

\* FR-045: what is in conflict is never shown as a settled fact, and never
\* dropped for want of room.  Under every budget a pack shows each active claim
\* as a fact, or in its open conflict with all the other members, or counts it
\* as left out; and of two active claims that contradict each other both are
\* facts only if somebody has decided between them.
PackHidesNothing(budget, pack) ==
  LET contested == UNION {store.conflicts[k].members :
                            k \in {k \in DOMAIN store.conflicts : store.conflicts[k].status = "OPEN"}}
      omitted == {c \in Active(store) \ contested : <<"claims", c>> \notin pack.claims}
  IN /\ pack.weight <= budget
     /\ pack.omitted = Cardinality(omitted)
     /\ \A x, y \in Active(store) :
          /\ {<<"claims", x>>, <<"claims", y>>} \subseteq pack.claims
          /\ x # y /\ Claim[x].family = Claim[y].family
          /\ ConflictKind(Claim[x], Claim[y]) # NONE
          => Decided(x, y)
     /\ \A x \in contested : <<"claims", x>> \notin pack.claims

\* An incident never presents only one side of a contradiction: it has every
\* member of the open conflict and, for each, a source that is in the workspace,
\* also of a member that has been superseded or retracted since.
SourcedInIncident(k, c) ==
  LET shown == Incident(<<"conflicts", k>>)
  IN /\ <<"claims", c>> \in shown
     /\ \E l \in DOMAIN store.evidence :
          /\ store.evidence[l].claim = c
          /\ <<"sources", store.evidence[l].source>> \in shown
          /\ store.evidence[l].source \in DOMAIN store.sources

\* A reader sees both sides of every contradiction nobody has decided: in the
\* context pack, whatever its budget, and in the incident of the conflict.
BothSidesShown ==
  /\ \A budget \in Budgets : \A pack \in Packs(budget) : PackHidesNothing(budget, pack)
  /\ \A k \in DOMAIN store.conflicts : store.conflicts[k].status = "OPEN" =>
       \A c \in store.conflicts[k].members : SourcedInIncident(k, c)

ChangedRows(t) ==
  {id \in DOMAIN store'[t] : id \notin DOMAIN store[t] \/ store'[t][id] # store[t][id]}

\* FR-043: a projection links each record to its history.  Whatever an entry
\* changes in the tables, a conflict that gains a member included, the history
\* of that record has the entry.
HistoryTells ==
  LET named == Named(Last(ledger'))
  IN \A t \in {"sources", "claims", "evidence", "conflicts", "decisions", "questions", "work"} :
       \A id \in ChangedRows(t) : <<t, id>> \in named

\* The store keeps a view whose digest is that of the new build as it is.  So
\* whenever an entry changes the row of a member of a scenario, gives it evidence
\* or opens a conflict about it, the digest of the scenario changes: also that of
\* a decision's thread when a claim the decision rests on is contradicted.
DigestFollows ==
  LET changed == (UNION {{<<t, id>> : id \in ChangedRows(t)} : t \in Referable})
                   \cup {<<"claims", Link[l].claim>> : l \in ChangedRows("evidence")}
                   \cup {<<"claims", c>> : c \in UNION {store'.conflicts[k].members :
                               k \in DOMAIN store'.conflicts \ DOMAIN store.conflicts}}
  IN \A s \in Scenarios \cap Scenarios' :
       Members(s) \cap changed # {} => Digest(s) # Digest(s)'

\* No change of the ledger is kept from the readers of histories and of views.
ChangesAreTold == [][HistoryTells /\ DigestFollows]_vars
=============================================================================
