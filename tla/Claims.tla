------------------------------- MODULE Claims -------------------------------
(***************************************************************************)
(* The reducers for sources, claims, evidence and conflicts, as functions  *)
(* of the materialized store.                                              *)
(*                                                                         *)
(* A digest stands for what it hashes: the id of a conflict is the set of  *)
(* the members it was first opened with, the digest of its members the set *)
(* of its members.                                                         *)
(***************************************************************************)
EXTENDS Transaction, FiniteSets, SequencesExt

CONSTANTS
  Predicate,     \* family |-> [rules, cardinality] of the registry
  MinEvidence,   \* minimum_evidence_links of the predicates
  Claim,         \* claim id |-> [family, object, polarity, from, to, author, wellFormed]
  Link,          \* evidence link id |-> [claim, source, content]
  Human          \* the actors of type HUMAN

ASSUME ClaimAssumption ==
  \A c \in DOMAIN Claim : Claim[c].from \in Nat /\ Claim[c].to \in Nat
\* The schema of proposals demands a link of every claim, whatever the registry says.
ASSUME EvidenceAssumption == MinEvidence \in Nat \ {0}

\* A human may act on anything, an agent on what it authored.
Authorized(actor, author) == actor \in Human \/ actor = author

-----------------------------------------------------------------------------
(* Contradiction.                                                          *)

Overlaps(p, q) ==
  (IF p.from > q.from THEN p.from ELSE q.from) < (IF p.to < q.to THEN p.to ELSE q.to)

\* The kind of conflict between two propositions of one family, if any.
ConflictKind(p, q) ==
  LET rules == Predicate[p.family].rules
  IN IF "TEMPORAL_OVERLAP" \in rules /\ ~Overlaps(p, q) THEN NONE
     ELSE IF /\ "OPPOSITE_POLARITY" \in rules
             /\ p.object = q.object
             /\ p.polarity # q.polarity THEN "POLARITY_CONFLICT"
     ELSE IF /\ "EXCLUSIVE_OBJECT" \in rules
             /\ Predicate[p.family].cardinality = "ONE"
             /\ p.polarity = "POSITIVE" /\ q.polarity = "POSITIVE"
             /\ p.object # q.object THEN "EXCLUSIVE_VALUE_CONFLICT"
     ELSE NONE

Active(s) == {c \in DOMAIN s.claims : s.claims[c].status = "ACTIVE"}
ActiveFamily(s, f) == {c \in Active(s) : Claim[c].family = f}

\* The digest of an active set: who is in it, at which version.
ActiveSetDigest(s, f) == {<<c, s.claims[c].version>> : c \in ActiveFamily(s, f)}

\* The active claims an incoming claim contradicts in a given way.
Against(s, claim, ignored, kind) ==
  {c \in ActiveFamily(s, Claim[claim].family) \ (ignored \cup {claim}) :
     ConflictKind(Claim[claim], Claim[c]) = kind}

Episodes(s, f, kind) ==
  {k \in DOMAIN s.conflicts : s.conflicts[k].family = f /\ s.conflicts[k].kind = kind}

\* What an event says of a conflict: its row without the version.
Document(row) ==
  [f \in {"family", "kind", "members", "status", "episode", "resolution", "opened"} |-> row[f]]

FirstEpisode(f, kind, members, seq) ==
  [family |-> f, kind |-> kind, members |-> members, status |-> "OPEN",
   episode |-> 1, version |-> 1, resolution |-> {}, opened |-> seq]

\* An open episode gains the new members (the slip: it loses the others).
JoinedAlone(row, members) == [row EXCEPT !.members = members, !.version = @ + 1]
Joined(row, members) == [row EXCEPT !.members = @ \cup members, !.version = @ + 1]

\* A resolved conflict reopens with the new members alone, as a new episode
\* (the slip: it keeps the number of the last one).
ReopenedSameEpisode(row, members, seq) ==
  [row EXCEPT !.members = members, !.status = "OPEN", !.version = @ + 1,
              !.resolution = {}, !.opened = seq]
Reopened(row, members, seq) ==
  [row EXCEPT !.members = members, !.status = "OPEN", !.episode = @ + 1,
              !.version = @ + 1, !.resolution = {}, !.opened = seq]

\* The id and the row of the conflict a contradiction ends up in.
OpenedRow(s, claim, newMembers, kind, seq) ==
  LET f == Claim[claim].family
      existing == Episodes(s, f, kind)
  IN IF existing = {} THEN <<newMembers, FirstEpisode(f, kind, newMembers, seq)>>
     ELSE LET id == CHOOSE k \in existing : TRUE
              row == s.conflicts[id]
          IN <<id, IF row.status = "OPEN" THEN Joined(row, newMembers)
                   ELSE Reopened(row, newMembers, seq)>>

\* The contradictions of one kind, if there are any, end up in one conflict.
OpenConflict(txn, claim, others, kind, seq) ==
  LET row == OpenedRow(txn.store, claim, others \cup {claim}, kind, seq)
  IN IF others = {} THEN txn
     ELSE Emit([txn EXCEPT !.store.conflicts = Put(@, row[1], row[2]),
                           !.opened = @ \cup {row[1]}],
               [type |-> "CONFLICT_OPENED", id |-> row[1], conflict |-> Document(row[2])])

\* Both kinds of conflict a new claim may open, in the order of their names.
OpenConflicts(txn, claim, ignored, seq) ==
  LET others(kind) == Against(txn.store, claim, ignored, kind)
      exclusive == OpenConflict(txn, claim, others("EXCLUSIVE_VALUE_CONFLICT"),
                                "EXCLUSIVE_VALUE_CONFLICT", seq)
  IN OpenConflict(exclusive, claim, others("POLARITY_CONFLICT"), "POLARITY_CONFLICT", seq)

-----------------------------------------------------------------------------
(* Operations.                                                             *)

\* The same revision may be registered again with the same content.
RegisterSource(txn, op) ==
  IF op.source \in DOMAIN txn.store.sources /\ txn.store.sources[op.source] # op.content
  THEN Fail(txn, INVALID)
  ELSE Emit([txn EXCEPT !.store.sources = Put(@, op.source, op.content)],
            [type |-> "SOURCE_REVISION_REGISTERED",
             source |-> op.source, content |-> op.content])

\* The bytes a link selects are those of a registered revision, and the link
\* itself is new.
EvidenceFits(s, link, claim) ==
  /\ Link[link].claim = claim
  /\ Link[link].source \in DOMAIN s.sources
  /\ s.sources[Link[link].source] = Link[link].content
  /\ link \notin DOMAIN s.evidence

InsertEvidence(s, links) ==
  [s EXCEPT !.evidence =
     [l \in DOMAIN @ \cup links |-> [claim |-> Link[l].claim, source |-> Link[l].source]]]

\* A claim with its initial evidence, before any conflict is looked for.
InsertClaim(txn, claim, links) ==
  LET row == [status |-> "ACTIVE", version |-> 1, by |-> NONE]
      inserted == [txn.store EXCEPT !.claims = Put(@, claim, row)]
  IN IF \/ claim \notin DOMAIN Claim
        \/ ~Claim[claim].wellFormed
        \/ Cardinality(links) < MinEvidence
        \/ claim \in DOMAIN txn.store.claims
        \/ \E l \in links : ~EvidenceFits(txn.store, l, claim)
     THEN Fail(txn, INVALID)
     ELSE [txn EXCEPT !.store = InsertEvidence(inserted, links)]

AssertClaim(txn, claim, links, ignored, seq) ==
  LET inserted == InsertClaim(txn, claim, links)
  IN IF inserted.error # NONE THEN inserted
     ELSE OpenConflicts(Emit(inserted, [type |-> "CLAIM_ASSERTED",
                                        claim |-> claim, evidence |-> links]),
                        claim, ignored, seq)

IsActive(s, claim) == claim \in Active(s)

AttachEvidence(txn, op) ==
  LET claim == Link[op.link].claim
      row == txn.store.claims[claim]
      touched == [txn.store EXCEPT !.claims[claim] = [row EXCEPT !.version = @ + 1]]
  IN IF ~IsActive(txn.store, claim) THEN Fail(txn, CONFLICT)
     ELSE IF ~EvidenceFits(txn.store, op.link, claim) THEN Fail(txn, INVALID)
     ELSE Emit([txn EXCEPT !.store = InsertEvidence(touched, {op.link})],
               [type |-> "EVIDENCE_ATTACHED", link |-> op.link])

\* A claim leaves ACTIVE: its version moves, and its successor is noted.
Close(s, claim, status, by) ==
  [s EXCEPT !.claims[claim] = [status |-> status, version |-> @.version + 1, by |-> by]]

\* The replacement is asserted first, while its target is still active.
SupersedeClaim(txn, op, seq) ==
  IF ~IsActive(txn.store, op.target) THEN Fail(txn, CONFLICT)
  ELSE LET asserted == AssertClaim(txn, op.claim, op.links, {op.target}, seq)
       IN IF asserted.error # NONE THEN asserted
          ELSE Emit([asserted EXCEPT !.store = Close(@, op.target, "SUPERSEDED", op.claim)],
                    [type |-> "CLAIM_SUPERSEDED", target |-> op.target, by |-> op.claim])

\* Every cited link is evidence of one of the claims at issue.
CitesEvidenceOf(s, links, claims) ==
  \A l \in links : l \in DOMAIN s.evidence /\ s.evidence[l].claim \in claims

RetractClaim(txn, op, proposer) ==
  IF ~IsActive(txn.store, op.target) THEN Fail(txn, CONFLICT)
  ELSE IF \/ ~Authorized(proposer, Claim[op.target].author)
          \/ ~CitesEvidenceOf(txn.store, op.links, {op.target})
  THEN Fail(txn, INVALID)
  ELSE Emit([txn EXCEPT !.store = Close(@, op.target, "RETRACTED", NONE)],
            [type |-> "CLAIM_RETRACTED", target |-> op.target])

\* The resolver decides on exactly the members and the episode it saw; the
\* claims themselves keep their status.
ResolveConflict(txn, op, proposer) ==
  LET row == txn.store.conflicts[op.conflict]
      resolution == {[selected |-> op.selected, rejected |-> op.rejected]}
      resolved == [row EXCEPT !.status = "RESOLVED", !.version = @ + 1,
                              !.resolution = resolution]
  IN IF \/ op.conflict \notin DOMAIN txn.store.conflicts
        \/ row.status # "OPEN"
        \/ row.members # op.digest
        \/ row.episode # op.epoch
     THEN Fail(txn, CONFLICT)
     ELSE IF \/ ~Authorized(proposer, op.resolver)
             \/ op.selected \cap op.rejected # {}
             \/ op.selected \cup op.rejected # row.members
             \/ ~CitesEvidenceOf(txn.store, op.links, row.members)
     THEN Fail(txn, INVALID)
     ELSE Emit([txn EXCEPT !.store.conflicts[op.conflict] = resolved],
               [type |-> "CONFLICT_RESOLVED", id |-> op.conflict,
                resolution |-> resolution])
=============================================================================
