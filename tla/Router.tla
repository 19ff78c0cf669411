-------------------------------- MODULE Router --------------------------------
(***************************************************************************)
(* The context a task is answered with: the context pack, and then record  *)
(* after record, scenario and skill, the best first, as long as they fit.  *)
(*                                                                         *)
(* Of the texts only matters which terms of the task they contain; here a  *)
(* task has one term, and a request says where it is found.  A record or a *)
(* skill weighs one, a scenario more, and each line of the trace that      *)
(* tells why something was chosen or left out one.  The pack, the records  *)
(* and the stored scenarios are read at one moment, and the stored ones    *)
(* are up to date.                                                         *)
(***************************************************************************)
EXTENDS MemoryViews

CONSTANTS
  SkillScore,    \* how well each approved skill matches the task
  Tasks,         \* what is asked: [references, matches], sets of candidates
  TaskBudgets,   \* under which budgets
  MinCore        \* budget the pack has at least

ASSUME RouterAssumption == MinCore \in Nat

Mentions(q, candidate) == candidate \in q.matches
RecordScore(q, r) ==
  (IF r \in q.references THEN 10000 ELSE 0)
    + (IF Mentions(q, r) THEN 20 ELSE 0)
    + (IF r[1] = "conflicts" /\ Open(r) THEN 30 ELSE 0)
    + (IF r[1] \in {"decisions", "questions", "work"} THEN 3 ELSE 0)
ScenarioScore(q, s) ==
  (IF s \in q.references THEN 10000 ELSE 0) + (IF Mentions(q, s) THEN 10 ELSE 0)

Candidate(kind, id, score) == [kind |-> kind, id |-> id, score |-> score]
Candidates(q) ==
  {x \in {Candidate("record", r, RecordScore(q, r)) : r \in Viewed}
         \cup {Candidate("scenario", s, ScenarioScore(q, s)) : s \in Scenarios}
         \cup {Candidate("skill", <<"skill", k>>, SkillScore[k]) : k \in DOMAIN SkillScore} : x.score > 0}

Weight == [record |-> 1, scenario |-> 2, skill |-> 1]
KindRank == [record |-> 1, scenario |-> 2, skill |-> 3]
\* A slip: the kinds come one after the other.
RankedByKind(x, y) ==
  KindRank[x.kind] < KindRank[y.kind] \/ (x.kind = y.kind /\ x.score > y.score)
\* The best first; what is left of a tie is the order of the ids.
Ranked(x, y) ==
  x.score > y.score \/ (x.score = y.score /\ KindRank[x.kind] < KindRank[y.kind])

CoreBudget(budget) ==
  LET share == (budget * 72) \div 100 IN IF share < MinCore THEN MinCore ELSE share
Size(answer) == answer.core + MapThenSumSet(LAMBDA x : Weight[x.kind], answer.taken) + answer.trace

\* One candidate after the other: it is taken if the answer still fits with it
\* and with its line in the trace; a reference that does not fit refuses the
\* request; anything else is counted as left out, with a line if that fits.
Consider(q, budget, answer, x) ==
  LET fits(lines) == Size(answer) + lines <= budget
  IN IF answer.refused THEN answer
     ELSE IF fits(Weight[x.kind] + 1) THEN [answer EXCEPT !.taken = @ \cup {x}, !.trace = @ + 1]
     ELSE IF x.id \in q.references THEN [answer EXCEPT !.refused = TRUE]
     ELSE IF fits(1) THEN [answer EXCEPT !.omitted = @ + 1, !.trace = @ + 1]
     ELSE [answer EXCEPT !.omitted = @ + 1, !.untraced = @ + 1]

Bare(pack) ==
  [core |-> pack.weight, taken |-> {}, trace |-> 0, omitted |-> 0, untraced |-> 0,
   refused |-> FALSE]
\* The answer after all candidates: the fold comes to the worst one last.
Fill(q, budget, pack, candidates) ==
  MapThenFoldSet(LAMBDA x, answer : Consider(q, budget, answer, x), Bare(pack),
                 LAMBDA x : x,
                 LAMBDA S : CHOOSE x \in S : \A y \in S : ~Ranked(x, y),
                 candidates)
\* There is no answer without a pack, nor where it takes more than the budget.
Route(q, budget, candidates) ==
  {answer \in {Fill(q, budget, pack, candidates) : pack \in Packs(CoreBudget(budget))} :
     answer.refused \/ Size(answer) <= budget}

-----------------------------------------------------------------------------
\* What a task asks for by name it gets: only what it asks for, and the pack,
\* can take the room, and then it is told.  What is left out is counted, and
\* there is no room left for it.
ReferencesHonoured ==
  \A q \in Tasks :
    LET candidates == Candidates(q)
        asked == {x \in candidates : x.id \in q.references}
    IN \A budget \in TaskBudgets : \A answer \in Route(q, budget, candidates) :
         IF answer.refused
         THEN answer.core + MapThenSumSet(LAMBDA x : Weight[x.kind] + 1, asked) > budget
         ELSE LET out == candidates \ answer.taken
              IN /\ asked \subseteq answer.taken
                 /\ answer.omitted = Cardinality(out)
                 /\ \A x \in out : Size(answer) + Weight[x.kind] + 1 > budget
=============================================================================
