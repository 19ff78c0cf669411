------------------------------ MODULE MCKernel ------------------------------
(***************************************************************************)
(* Small instances of Kernel, and of the views of its workspace, for TLC.  *)
(* A menu lists what callers may submit against a store: operations on     *)
(* fresh and on known ids, with the versions and digests of the store or   *)
(* with older ones, alone and in batches.                                  *)
(***************************************************************************)
EXTENDS Router, Rebase

CONSTANTS a, b, c, d,            \* claims of one family
          la, lb, lc, ld, la2,   \* their evidence links; la2 is attached later
          src,                   \* the source revision they cite
          alice, bot, rogue,     \* a human, the author of the claims, another agent
          d1, d2, d3, q1, w1     \* decisions, a question, a work item

\* The exclusive predicates of the registry: one value at a time, no
\* contradiction between disjoint intervals.
MCPredicate ==
  "f" :> [rules |-> {"OPPOSITE_POLARITY", "EXCLUSIVE_OBJECT", "TEMPORAL_OVERLAP"},
          cardinality |-> "ONE"]

AClaim(object, polarity, from, to) ==
  [family |-> "f", object |-> object, polarity |-> polarity, from |-> from, to |-> to,
   author |-> bot, wellFormed |-> TRUE]
\* a excludes b and d, c denies a; b and d do not overlap in time.
MCClaim == a :> AClaim("x", "POSITIVE", 0, 10) @@ b :> AClaim("y", "POSITIVE", 0, 5)
           @@ c :> AClaim("x", "NEGATIVE", 0, 10) @@ d :> AClaim("z", "POSITIVE", 5, 20)
LinkOf == a :> la @@ b :> lb @@ c :> lc @@ d :> ld
ALink(claim) == [claim |-> claim, source |-> src, content |-> "text"]
MCLink == la :> ALink(a) @@ lb :> ALink(b) @@ lc :> ALink(c) @@ ld :> ALink(d)
          @@ la2 :> ALink(a)
MCHuman == {alice}

Proposal(who, ops, reads, sets) ==
  [proposer |-> who, ops |-> ops, reads |-> reads, sets |-> sets, guards |-> {}]
Guarded(p, guard) == [p EXCEPT !.guards = {guard}]
Unread == EmptyTable
Versions(s, t, id) == {<<t, id>> :> v : v \in 1 .. s[t][id].version}

-----------------------------------------------------------------------------
(* Claims and conflicts.                                                   *)

Register == [op |-> "REGISTER_SOURCE_REVISION", source |-> src, content |-> "text"]
Asserting(x) == [op |-> "ASSERT_CLAIM", claim |-> x, links |-> {LinkOf[x]}]
Supersede(t, x) ==
  [op |-> "SUPERSEDE_CLAIM", target |-> t, claim |-> x, links |-> {LinkOf[x]}]
Retract(t) == [op |-> "RETRACT_CLAIM", target |-> t, links |-> {LinkOf[t]}]
Resolve(k, digest, epoch) ==
  LET selected == {CHOOSE m \in digest : TRUE}
  IN [op |-> "RESOLVE_CONFLICT", conflict |-> k, digest |-> digest, epoch |-> epoch,
      resolver |-> bot, selected |-> selected, rejected |-> digest \ selected, links |-> {}]
Ask(refs) == [op |-> "OPEN_QUESTION", question |-> q1, refs |-> refs]

Fresh(s) == {a, b, c, d} \ DOMAIN s.claims
Asserts(s) == {Proposal(bot, <<Register, Asserting(x)>>, Unread, Unread) : x \in Fresh(s)}
\* The author has read the active set, now or when it was empty, or insists
\* that it is empty.
CarefulAsserts(s) ==
  {Proposal(bot, <<Asserting(d)>>, Unread, "f" :> seen) :
     seen \in {ActiveSetDigest(s, "f"), {}}}
    \cup {Guarded(Proposal(bot, <<Register, Asserting(a)>>, Unread, Unread),
                  [op |-> "NO_ACTIVE_CLAIM", family |-> "f"])}
Changes(s) ==
  UNION {UNION {
      {Proposal(bot, <<Supersede(t, x)>>, read, Unread) : x \in Fresh(s)}
        \cup {Proposal(who, <<Retract(t)>>, read, Unread) : who \in {alice, rogue}}
      : read \in Versions(s, "claims", t)} : t \in DOMAIN s.claims}
Attaches(s) ==
  {Guarded(Proposal(rogue, <<[op |-> "ATTACH_EVIDENCE", link |-> la2]>>, Unread, Unread),
           [op |-> "SOURCE_HASH_EQ", id |-> src, expected |-> "text"])}
\* The author has read the claim when it was new, and its family before that.
Outdated(s) ==
  {Proposal(alice, <<Retract(t)>>, <<"claims", t>> :> 1, "f" :> {}) : t \in DOMAIN s.claims}
\* The resolver saw the current members and episode, or the first ones.
Resolves(s) ==
  UNION {{Proposal(alice, <<Resolve(k, digest, epoch)>>, read, Unread) :
            digest \in {k, s.conflicts[k].members}, epoch \in {1, s.conflicts[k].episode},
            read \in Versions(s, "conflicts", k)} : k \in DOMAIN s.conflicts}
\* Batches whose operations meet each other: two claims at once, a claim that
\* joins the conflict being resolved, a claim replaced twice, a conflict
\* referred to by the batch that opens it or takes its cause away.
ClaimBatches(s) ==
  {Proposal(bot, <<Register, Asserting(x), Asserting(y)>>, Unread, Unread) :
     x \in {b}, y \in {a, d}}
    \cup UNION {{Proposal(alice, <<Asserting(x), Resolve(k, s.conflicts[k].members,
                                               s.conflicts[k].episode)>>, read, Unread) :
            x \in Fresh(s), read \in Versions(s, "conflicts", k)} : k \in DOMAIN s.conflicts}
    \cup UNION {{Proposal(alice, ops, read, Unread) :
                   ops \in {<<Supersede(t, b), Supersede(t, d)>>,
                            <<Supersede(t, b), Ask({<<"conflicts", {a, b}>>})>>,
                            <<Retract(t), Asserting(b), Ask({<<"conflicts", {a, b}>>})>>,
                            <<Retract(t), Asserting(d)>>},
                   read \in Versions(s, "claims", t)} : t \in DOMAIN s.claims \cap {a, c}}
    \cup {Proposal(bot, <<Asserting(b), Ask({<<"conflicts", {a, b}>>, <<"claims", b>>})>>,
                   Unread, Unread)}

ClaimMenu(s) ==
  Asserts(s) \cup CarefulAsserts(s) \cup Changes(s) \cup Outdated(s) \cup Attaches(s) \cup Resolves(s)
    \cup ClaimBatches(s)

-----------------------------------------------------------------------------
(* Decisions, questions and work items.                                    *)

Record(x, refs) == [op |-> "RECORD_DECISION", decision |-> x, refs |-> refs]
Replace(t, x, disposition) ==
  [op |-> "SUPERSEDE_DECISION", target |-> t, decision |-> x, disposition |-> disposition,
   refs |-> {}]
Answer(ref) == [op |-> "ANSWER_QUESTION", target |-> q1, answer |-> ref]
Drop == [op |-> "DROP_QUESTION", target |-> q1]
Plan(refs) == [op |-> "CREATE_WORK_ITEM", item |-> w1, refs |-> refs]
Move(status, blocked) ==
  [op |-> "UPDATE_WORK_ITEM_STATUS", target |-> w1, status |-> status, blocked |-> blocked]

Unborn(s) == {d1, d2, d3} \ DOMAIN s.decisions
\* Records with links that resolve, that do not, and that point at themselves.
Creations(s) ==
  {Proposal(bot, ops, Unread, Unread) :
     ops \in {<<Record(d1, {})>>,
              <<Record(d1, {<<"sources", src>>})>>,
              <<Register, Record(d1, {<<"sources", src>>})>>,
              <<Register, Asserting(b), Record(d1, {<<"claims", b>>})>>,
              <<Ask({<<"questions", q1>>, <<"decisions", d1>>})>>,
              <<Plan({<<"questions", q1>>})>>,
              <<Plan({<<"work", w1>>}), Ask({})>>}}
Decides(s) ==
  UNION {{Proposal(bot, ops, read, Unread) :
            ops \in UNION {{<<Replace(t, x, "SUPERSEDED")>>,
                            <<Replace(t, x, "REVERSED"), Replace(t, d3, "REVERSED")>>} :
                             x \in Unborn(s)},
            read \in Versions(s, "decisions", t)} : t \in DOMAIN s.decisions}
\* Answered by a decision, known or taken in the same batch; dropped; both.
Closes(s) ==
  UNION {{Proposal(bot, ops, read, Unread) :
            ops \in {<<Answer(<<"decisions", d2>>)>>,
                     <<Answer(<<"decisions", d2>>), Record(d2, {})>>,
                     <<Drop>>,
                     <<Drop, Answer(<<"decisions", d1>>)>>},
            read \in Versions(s, "questions", q)} : q \in DOMAIN s.questions}
\* A blocker without BLOCKED, and a read of an older version, are refused.
Moves(s) ==
  UNION {{Proposal(bot, <<Move(status, blocked)>>, read, Unread) :
            status \in {"DOING", "BLOCKED", "DONE"}, blocked \in BOOLEAN,
            read \in Versions(s, "work", w)} : w \in DOMAIN s.work}
    \cup {Proposal(bot, <<Move("DONE", FALSE)>>, Unread, Unread)}

ContinuityMenu(s) == Creations(s) \cup Decides(s) \cup Closes(s) \cup Moves(s)

-----------------------------------------------------------------------------
(* A store is about claims or about continuity records, whichever came     *)
(* first; MaxClaimEntries bounds the ledgers about claims.                 *)

MaxClaimEntries == 5
HasRecords(s) == DOMAIN s.decisions \cup DOMAIN s.questions \cup DOMAIN s.work # {}
Menu(head, s) ==
  (IF DOMAIN s.claims = {} THEN ContinuityMenu(s) ELSE {})
    \cup (IF head < MaxClaimEntries /\ (DOMAIN s.claims # {} \/ ~HasRecords(s))
          THEN ClaimMenu(s) ELSE {})
-----------------------------------------------------------------------------
(* The ids in an order; a conflict by its members.                         *)

Ids == [claims |-> <<a, b, c, d>>, evidence |-> <<la, lb, lc, ld, la2>>, sources |-> <<src>>,
        decisions |-> <<d2, d1, d3>>, questions |-> <<q1>>, work |-> <<w1>>]
Rank(t, x) == CHOOSE i \in DOMAIN Ids[t] : Ids[t][i] = x
MCBefore(t, x, y) ==
  IF t # "conflicts" THEN Rank(t, x) < Rank(t, y)
  ELSE SumSet({2 ^ Rank("claims", m) : m \in x}) < SumSet({2 ^ Rank("claims", m) : m \in y})
MCBudgets == 0 .. 9

\* A task that names a decision's thread and finds its term in claims, and one
\* that names a claim.
MCTasks ==
  {[references |-> {<<"thread", <<"decisions", d1>>>>},
    matches |-> {<<"claims", a>>, <<"claims", b>>, <<"project", "project">>}],
   [references |-> {<<"claims", b>>}, matches |-> {<<"subject", "f">>}]}
MCTaskBudgets == {5, 9, 14}
MCSkillScore == "skill" :> 12
=============================================================================
