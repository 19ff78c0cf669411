------------------------------- MODULE Rebase -------------------------------
(***************************************************************************)
(* The advice a caller gets with a proposal that was refused as stale: of  *)
(* the aggregate that moved, the values its preconditions would have to    *)
(* name now.  The advice changes nothing, and nobody applies it unasked.   *)
(*                                                                         *)
(* A precondition is named by its place in the proposal.  The kernel's     *)
(* reason names the first check that failed; here reads and guards have no *)
(* order, so the advice may be about any that fails.                       *)
(***************************************************************************)
EXTENDS Kernel

\* The checks that are read back; those of sources, and the demand that a
\* family be empty, are not.
GuardsRead == {"STATUS_EQ", "VERSION_EQ", "CONFLICT_MEMBER_DIGEST_EQ", "ACTIVE_SET_DIGEST_EQ"}
Resolving(p) == {i \in DOMAIN p.ops : p.ops[i].op = "RESOLVE_CONFLICT"}
\* A slip: the epoch of a resolution is not a precondition.
PreconditionsWithoutEpoch(p) ==
  {<<"read", r>> : r \in {r \in DOMAIN p.reads : r[1] # "sources"}}
    \cup {<<"set", f>> : f \in DOMAIN p.sets}
    \cup {<<"guard", g>> : g \in {g \in p.guards : g.op \in GuardsRead}}
    \cup {<<"digest", i>> : i \in Resolving(p)}
Preconditions(p) ==
  {<<"read", r>> : r \in {r \in DOMAIN p.reads : r[1] # "sources"}}
    \cup {<<"set", f>> : f \in DOMAIN p.sets}
    \cup {<<"guard", g>> : g \in {g \in p.guards : g.op \in GuardsRead}}
    \cup ({"digest", "epoch"} \X Resolving(p))

Aggregate(p, at) ==
  CASE at[1] = "read" -> at[2]
    [] at[1] = "set" -> <<"family", at[2]>>
    [] at[1] = "guard" /\ at[2].op \in {"STATUS_EQ", "VERSION_EQ"} -> <<at[2].table, at[2].id>>
    [] at[1] = "guard" /\ at[2].op = "CONFLICT_MEMBER_DIGEST_EQ" -> <<"conflicts", at[2].id>>
    [] at[1] = "guard" /\ at[2].op = "ACTIVE_SET_DIGEST_EQ" -> <<"family", at[2].family>>
    [] at[1] \in {"digest", "epoch"} -> <<"conflicts", p.ops[at[2]].conflict>>

Field(at) ==
  CASE at[1] = "read" \/ (at[1] = "guard" /\ at[2].op = "VERSION_EQ") -> "version"
    [] at[1] = "guard" /\ at[2].op = "STATUS_EQ" -> "status"
    [] at[1] = "epoch" -> "episode"
    [] OTHER -> "members"

Expected(p, at) ==
  CASE at[1] = "read" -> p.reads[at[2]]
    [] at[1] = "set" -> p.sets[at[2]]
    [] at[1] = "guard" -> at[2].expected
    [] at[1] = "digest" -> p.ops[at[2]].digest
    [] at[1] = "epoch" -> p.ops[at[2]].epoch

Known(s, aggregate) == aggregate[1] = "family" \/ aggregate[2] \in DOMAIN s[aggregate[1]]
Actual(s, aggregate, field) ==
  IF aggregate[1] = "family" THEN ActiveSetDigest(s, aggregate[2])
  ELSE s[aggregate[1]][aggregate[2]][field]

Failing(p, s) ==
  {at \in Preconditions(p) :
     ~Known(s, Aggregate(p, at)) \/ Expected(p, at) # Actual(s, Aggregate(p, at), Field(at))}

\* What the replacements for an aggregate make of a proposal.
Rebased(p, s, aggregate) ==
  LET about == {at \in Preconditions(p) : Aggregate(p, at) = aggregate}
      now(at, was) == IF at \in about THEN Actual(s, aggregate, Field(at)) ELSE was
  IN IF ~Known(s, aggregate) THEN p
     ELSE [p EXCEPT
            !.reads = [r \in DOMAIN p.reads |-> now(<<"read", r>>, p.reads[r])],
            !.sets = [f \in DOMAIN p.sets |-> now(<<"set", f>>, p.sets[f])],
            !.guards = {IF <<"guard", g>> \in about
                        THEN [g EXCEPT !.expected = now(<<"guard", g>>, g.expected)]
                        ELSE g : g \in p.guards},
            !.ops = [i \in DOMAIN p.ops |->
                       IF i \notin Resolving(p) THEN p.ops[i]
                       ELSE [p.ops[i] EXCEPT !.digest = now(<<"digest", i>>, p.ops[i].digest),
                                             !.epoch = now(<<"epoch", i>>, p.ops[i].epoch)]]]

\* The hints a refused proposal may come with: one for an aggregate that moved.
HintedAggregates(p, s) == {Aggregate(p, at) : at \in Failing(p, s)}

\* A caller that follows some hints, one after the other.
Followed(p, s, hints) ==
  LET after[i \in 0 .. Len(hints)] ==
        IF i = 0 THEN p ELSE Rebased(after[i - 1], s, hints[i])
  IN after[Len(hints)]

-----------------------------------------------------------------------------
\* What a hint does not tell: that a row is missing, what the checks of sources
\* and of empty families found, that a target is closed, and that a batch moves
\* itself what it expects.
Targets(op) ==
  RequiredReads(op)
    \cup (IF op.op = "ATTACH_EVIDENCE" THEN {<<"claims", Link[op.link].claim>>} ELSE {})
Unclosed == [claims |-> "ACTIVE", decisions |-> "ACTIVE", conflicts |-> "OPEN", questions |-> "OPEN"]
Untold(p, s) ==
  \/ \E at \in Preconditions(p) : ~Known(s, Aggregate(p, at))
  \/ \E r \in DOMAIN p.reads : r[1] = "sources" /\ ~ReadHolds(s, r, p.reads[r])
  \/ \E g \in p.guards : g.op \notin GuardsRead /\ ~GuardHolds(s, g)
  \/ \E i \in DOMAIN p.ops : \E r \in Targets(p.ops[i]) :
       \/ ~Known(s, r)
       \/ r[1] # "work" /\ s[r[1]][r[2]].status # Unclosed[r[1]]
  \/ Cardinality({i \in DOMAIN p.ops : p.ops[i].op # "REGISTER_SOURCE_REVISION"}) > 1

\* The schema has been checked before anything else: a proposal is finite, and
\* what it reads, guards and resolves has the fields these have.
FitsSchema(p) ==
  /\ {"ops", "reads", "sets", "guards"} \subseteq DOMAIN p /\ WellFormed(p)
  /\ IsFiniteSet(DOMAIN p.reads) /\ IsFiniteSet(DOMAIN p.sets) /\ IsFiniteSet(p.guards)
  /\ \A r \in DOMAIN p.reads : r[1] # "family"
  /\ \A g \in p.guards : g.op \in GuardsRead =>
       /\ {"op", "expected"} \subseteq DOMAIN g
       /\ g.op \in {"STATUS_EQ", "VERSION_EQ"} =>
            {"table", "id"} \subseteq DOMAIN g /\ g.table # "family"
       /\ g.op = "CONFLICT_MEMBER_DIGEST_EQ" => "id" \in DOMAIN g
       /\ g.op = "ACTIVE_SET_DIGEST_EQ" => "family" \in DOMAIN g
  /\ \A i \in Resolving(p) : {"op", "conflict", "digest", "epoch"} \subseteq DOMAIN p.ops[i]

\* A hint is complete: with its replacements nothing that was expected of the
\* aggregate fails any more, and what fails elsewhere is what failed before.
\* And the hints are complete together: a proposal that was refused as stale and
\* has followed them all, in whatever order, is stale no longer, but for what no
\* hint tells.
HintsSuffice ==
  \A p \in {p \in Offered(Len(ledger), store) : FitsSchema(p)} :
    LET hinted == HintedAggregates(p, store)
        orders == {f \in [1 .. Cardinality(hinted) -> hinted] :
                     \A aggregate \in hinted : \E i \in DOMAIN f : f[i] = aggregate}
        stale(q) == Evaluate(q, store, Len(ledger) + 1).error = CONFLICT
    IN /\ \A aggregate \in hinted :
            Known(store, aggregate) =>
              HintedAggregates(Rebased(p, store, aggregate), store) = hinted \ {aggregate}
       /\ Untold(p, store) \/ ~stale(p) \/ \A hints \in orders : ~stale(Followed(p, store, hints))
=============================================================================
