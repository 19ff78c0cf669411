-------------------------- MODULE WorkspaceProofs --------------------------
(***************************************************************************)
(* What commits can never do to a workspace, for every registry, every     *)
(* set of claims and whatever callers offer; what its readers can never    *)
(* fail to be shown; and what the advice to a stale proposal is worth.     *)
(***************************************************************************)
EXTENDS MemoryViews, Rebase, FiniteSetTheorems, WellFoundedInduction, TLAPS

\* A list, of whatever its elements are.
IsList(s) == s = [i \in 1 .. Len(s) |-> s[i]] /\ Len(s) \in Nat

\* Appending to a list.
LEMMA AppendToList ==
  ASSUME NEW s, IsList(s), NEW e
  PROVE /\ IsList(Append(s, e))
        /\ Len(Append(s, e)) = Len(s) + 1
        /\ DOMAIN s = 1 .. Len(s)
        /\ \A i \in DOMAIN s : Append(s, e)[i] = s[i]
        /\ Append(s, e)[Len(s) + 1] = e
<1> DEFINE T == {s[i] : i \in 1 .. Len(s)} \cup {e}
<1>1. s \in Seq(T)
  BY DEF IsList
<1>2. /\ Append(s, e) \in Seq(T) /\ Len(Append(s, e)) = Len(s) + 1
      /\ DOMAIN s = 1 .. Len(s)
      /\ \A i \in 1 .. Len(s) : Append(s, e)[i] = s[i]
      /\ Append(s, e)[Len(s) + 1] = e
  BY <1>1
<1>3. ASSUME NEW S, NEW u \in Seq(S) PROVE IsList(u)
  BY DEF IsList
<1>4. IsList(Append(s, e))
  BY <1>2, <1>3
<1>5. QED
  BY <1>2, <1>4

\* Induction over the numbers, for a set instead of a predicate.
LEMMA NatSetInduction ==
  ASSUME NEW S, 0 \in S, \A n \in Nat : n \in S => n + 1 \in S
  PROVE Nat \subseteq S
<1> DEFINE Bad == Nat \ S
<1> SUFFICES ASSUME Bad # {} PROVE FALSE
  OBVIOUS
<1>1. PICK n \in Bad : \A m \in Bad : ~ (<<m, n>> \in OpToRel(<, Nat))
  BY NatLessThanWellFounded, WFMin, Bad \subseteq Nat
<1>2. n \in Nat /\ n # 0
  BY <1>1
<1>3. n - 1 \in Nat /\ n - 1 < n /\ (n - 1) + 1 = n
  BY <1>2
<1>4. n - 1 \in Bad
  BY <1>1, <1>3
<1>5. QED
  BY <1>1, <1>2, <1>3, <1>4 DEF OpToRel

\* The transactions of a proposal, one after the other.
LEMMA TransactionsStep ==
  ASSUME NEW p, NEW s, NEW seq, Len(p.ops) \in Nat
  PROVE LET t == Transactions(p, s, seq)
        IN /\ t[0] = Start(s)
           /\ \A i \in 1 .. Len(p.ops) : t[i] = ApplyOperation(t[i - 1], p.ops[i], p.proposer, seq)
<1> DEFINE N == Len(p.ops)
           Grows(f, n) == f = [i \in 0 .. n |-> IF i = 0 THEN Start(s)
                                  ELSE ApplyOperation(f[i - 1], p.ops[i], p.proposer, seq)]
           S == {n \in Nat : \E f : Grows(f, n)}
<1>1. Nat \subseteq S
  <2>1. 0 \in S
    <3>1. Grows([i \in 0 .. 0 |-> Start(s)], 0)
      BY Z3
    <3> QED BY <3>1
  <2>2. ASSUME NEW m \in Nat, m \in S PROVE m + 1 \in S
    <3>a. PICK n : n = m + 1
      OBVIOUS
    <3>1. n \in Nat /\ n # 0 /\ n - 1 = m
      BY <3>a
    <3>2. PICK f : Grows(f, n - 1)
      BY <2>2, <3>1
    <3> DEFINE g == [i \in 0 .. n |-> IF i = n THEN ApplyOperation(f[n - 1], p.ops[n], p.proposer, seq)
                                       ELSE f[i]]
    <3>3. \A i \in 0 .. n - 1 : g[i] = f[i]
      BY <3>1
    <3>4. \A i \in 0 .. n : g[i] = IF i = 0 THEN Start(s)
                                  ELSE ApplyOperation(g[i - 1], p.ops[i], p.proposer, seq)
      <4> SUFFICES ASSUME NEW i \in 0 .. n
                   PROVE g[i] = IF i = 0 THEN Start(s)
                                ELSE ApplyOperation(g[i - 1], p.ops[i], p.proposer, seq)
        OBVIOUS
      <4>1. CASE i = n
        <5>1. g[i] = ApplyOperation(f[n - 1], p.ops[n], p.proposer, seq)
          BY <4>1
        <5>2. g[i - 1] = f[n - 1]
          BY <3>1, <3>3, <4>1
        <5> QED BY <3>1, <4>1, <5>1, <5>2
      <4>2. CASE i # n
        <5>1. i \in 0 .. n - 1
          BY <3>1, <4>2
        <5>2. i # 0 => i - 1 \in 0 .. n - 1
          BY <3>1, <5>1
        <5>3. f[i] = IF i = 0 THEN Start(s) ELSE ApplyOperation(f[i - 1], p.ops[i], p.proposer, seq)
          BY <3>2, <5>1
        <5> HIDE DEF g
        <5> QED BY <3>3, <5>1, <5>2, <5>3
      <4> QED BY <4>1, <4>2
    <3>5. Grows(g, n)
      <4>1. g = [i \in 0 .. n |-> g[i]]
        OBVIOUS
      <4> HIDE DEF g
      <4> QED BY <3>4, <4>1
    <3> QED BY <3>1, <3>5, <3>a
  <2>3. QED
    <3> HIDE DEF S
    <3> QED BY <2>1, <2>2, NatSetInduction
<1>2. \E f : Grows(f, N)
  BY <1>1
<1>3. Transactions(p, s, seq) = CHOOSE f : Grows(f, N)
  BY DEF Transactions
<1>4. Grows(Transactions(p, s, seq), N)
  BY <1>2, <1>3
<1>5. QED
  <2> DEFINE t == Transactions(p, s, seq)
  <2>1. \A i \in 0 .. N : t[i] = IF i = 0 THEN Start(s)
                                  ELSE ApplyOperation(t[i - 1], p.ops[i], p.proposer, seq)
    <3> HIDE DEF t
    <3> QED BY <1>4 DEF t
  <2> HIDE DEF t
  <2> QED BY <2>1 DEF t

-----------------------------------------------------------------------------
(* What the operations do to a transaction.                                *)

Tables == {"sources", "claims", "evidence", "conflicts", "decisions", "questions", "work"}
Shaped(s) == s = [n \in Tables |-> s[n]]
IsTxn(t) ==
  /\ t = [store |-> t.store, events |-> t.events, opened |-> t.opened, error |-> t.error]
  /\ Shaped(t.store)
  /\ IsList(t.events)

\* The events of a transaction are never taken back.
Extends(E, F) == \A i \in DOMAIN E : i \in DOMAIN F /\ F[i] = E[i]

\* A transaction u that has another store than t, and one event more.
Moved(t, u, s, e) ==
  /\ u.store = s /\ Shaped(s)
  /\ u.events = Append(t.events, e)
  /\ u.error = t.error

LEMMA EmitIs ==
  ASSUME NEW t, IsTxn(t), NEW s, Shaped(s), NEW o, NEW e,
         NEW u, u = Emit([store |-> s, events |-> t.events, opened |-> o, error |-> t.error], e)
  PROVE IsTxn(u) /\ Moved(t, u, s, e) /\ u.opened = o /\ Extends(t.events, u.events)
<1>1. u = [store |-> s, events |-> Append(t.events, e), opened |-> o, error |-> t.error]
  BY DEF Emit
<1>2. IsList(Append(t.events, e)) /\ Extends(t.events, Append(t.events, e))
  BY AppendToList DEF IsTxn, Extends, IsList
<1>3. /\ u.store = s /\ u.events = Append(t.events, e) /\ u.opened = o /\ u.error = t.error
      /\ u = [store |-> u.store, events |-> u.events, opened |-> u.opened, error |-> u.error]
  BY <1>1
<1>4. QED
  BY <1>2, <1>3 DEF IsTxn, Moved

\* A table of the store is replaced.
Replaced(s, n, table, r) == Shaped(r) /\ r[n] = table /\ \A m \in Tables \ {n} : r[m] = s[m]

LEMMA ReplaceTable ==
  ASSUME NEW s, Shaped(s), NEW n \in Tables, NEW table, NEW r, r = [s EXCEPT ![n] = table]
  PROVE Replaced(s, n, table, r)
BY DEF Shaped, Replaced

\* A transaction with another table.
With(t, n, table) == [t EXCEPT !.store = [@ EXCEPT ![n] = table]]

\* An operation replaces one table and emits one event.
LEMMA OneTable ==
  ASSUME NEW t, IsTxn(t), NEW n \in Tables, NEW table, NEW e,
         NEW u, u = Emit(With(t, n, table), e)
  PROVE /\ IsTxn(u) /\ Extends(t.events, u.events) /\ u.opened = t.opened /\ u.error = t.error
        /\ u.events = Append(t.events, e)
        /\ u.store[n] = table /\ \A m \in Tables \ {n} : u.store[m] = t.store[m]
<1> DEFINE s == [t.store EXCEPT ![n] = table]
<1>1. Shaped(s) /\ s[n] = table /\ \A m \in Tables \ {n} : s[m] = t.store[m]
  <2>1. Shaped(t.store)
    BY DEF IsTxn
  <2>2. Replaced(t.store, n, table, s)
    BY <2>1, ReplaceTable
  <2>3. QED
    BY <2>2 DEF Replaced
<1> HIDE DEF s
<1>2. [t EXCEPT !.store = s]
        = [store |-> s, events |-> t.events, opened |-> t.opened, error |-> t.error]
  BY DEF IsTxn
<1>3. u = Emit([store |-> s, events |-> t.events, opened |-> t.opened, error |-> t.error], e)
  BY <1>2 DEF s, With
<1>4. IsTxn(u) /\ Moved(t, u, s, e) /\ u.opened = t.opened /\ Extends(t.events, u.events)
  BY <1>1, <1>3, EmitIs
<1>5. QED
  BY <1>1, <1>4 DEF Moved

\* An operation that leaves the conflicts alone, and whose event is about
\* something else.
AboutConflicts == {"CONFLICT_OPENED", "CONFLICT_RESOLVED"}
Elsewhere(t, u) ==
  /\ u.store.conflicts = t.store.conflicts
  /\ \E e : u.events = Append(t.events, e) /\ e.type \notin AboutConflicts

LEMMA AnotherTable ==
  ASSUME NEW t, IsTxn(t), NEW n \in Tables \ {"conflicts"}, NEW table,
         NEW e, e.type \notin AboutConflicts,
         NEW u, u = Emit(With(t, n, table), e)
  PROVE Elsewhere(t, u)
<1>1. u.events = Append(t.events, e) /\ \A m \in Tables \ {n} : u.store[m] = t.store[m]
  BY OneTable
<1>2. u.store.conflicts = t.store.conflicts
  BY <1>1 DEF Tables
<1>3. QED
  BY <1>1, <1>2 DEF Elsewhere

\* The rows of the aggregates: their fields, and a version that counts.
Fields ==
  [claims |-> {"status", "version", "by"},
   conflicts |-> {"family", "kind", "members", "status", "episode", "version", "resolution",
                  "opened"},
   decisions |-> {"status", "version", "by", "refs"},
   questions |-> {"status", "version", "answer", "refs"},
   work |-> {"status", "version", "blocked", "refs"}]
Aggregates == {"claims", "conflicts", "decisions", "questions", "work"}
IsTable(n, table) ==
  \A id \in DOMAIN table : DOMAIN table[id] = Fields[n] /\ table[id].version \in Nat
Rows(s) == \A n \in Aggregates : IsTable(n, s[n])

\* No row goes, and no version goes back.
LaterTable(old, new) ==
  \A id \in DOMAIN old : id \in DOMAIN new /\ new[id].version >= old[id].version
Later(s, r) == \A n \in Aggregates : LaterTable(s[n], r[n])
Bumped(old, new, id) == id \in DOMAIN new /\ new[id].version > old[id].version

\* What every operation does.
Follows(t, u) ==
  /\ IsTxn(u) /\ Extends(t.events, u.events)
  /\ Rows(u.store) /\ Later(t.store, u.store)
\* What an operation on one table does.
FollowsIn(n, t, u) ==
  /\ Follows(t, u)
  /\ u.opened = t.opened
  /\ \A m \in Tables \ {n} : u.store[m] = t.store[m]

LEMMA LaterReflexive ==
  ASSUME NEW n, NEW table, IsTable(n, table)
  PROVE LaterTable(table, table)
BY DEF IsTable, LaterTable

LEMMA NewTable ==
  ASSUME NEW t, IsTxn(t), Rows(t.store), NEW n \in Tables, NEW table, NEW e,
         n \in Aggregates => IsTable(n, table) /\ LaterTable(t.store[n], table),
         NEW u, u = Emit(With(t, n, table), e)
  PROVE FollowsIn(n, t, u) /\ u.store[n] = table /\ u.events = Append(t.events, e)
                /\ u.error = t.error
<1>1. /\ IsTxn(u) /\ Extends(t.events, u.events) /\ u.opened = t.opened /\ u.error = t.error
      /\ u.events = Append(t.events, e)
      /\ u.store[n] = table /\ \A m \in Tables \ {n} : u.store[m] = t.store[m]
  BY OneTable
<1>2. Aggregates \subseteq Tables
  BY DEF Aggregates, Tables
<1>3. ASSUME NEW m \in Aggregates
      PROVE IsTable(m, u.store[m]) /\ LaterTable(t.store[m], u.store[m])
  <2>1. CASE m = n
    BY <1>1, <2>1
  <2>2. CASE m # n
    <3>1. u.store[m] = t.store[m]
      BY <1>1, <1>2, <2>2
    <3>2. IsTable(m, t.store[m])
      BY DEF Rows
    <3>3. QED
      BY <3>1, <3>2, LaterReflexive
  <2>3. QED
    BY <2>1, <2>2
<1>4. Rows(u.store) /\ Later(t.store, u.store)
  BY <1>3 DEF Rows, Later
<1>5. QED
  BY <1>1, <1>4 DEF FollowsIn, Follows

\* A table with one row more.
WithRow(n, table, id, row, new) ==
  /\ IsTable(n, new) /\ LaterTable(table, new)
  /\ DOMAIN new = DOMAIN table \cup {id}
  /\ new[id] = row /\ \A k \in DOMAIN table : new[k] = table[k]

\* A row is inserted, and a row is changed.
LEMMA InsertRow ==
  ASSUME NEW n, NEW table, IsTable(n, table), NEW id, id \notin DOMAIN table,
         NEW row, DOMAIN row = Fields[n], row.version \in Nat
  PROVE WithRow(n, table, id, row, Put(table, id, row))
BY DEF IsTable, LaterTable, Put, WithRow

LEMMA ChangeRow ==
  ASSUME NEW n, NEW table, IsTable(n, table), NEW id \in DOMAIN table,
         NEW row, DOMAIN row = Fields[n], row.version = table[id].version + 1
  PROVE LET new == [table EXCEPT ![id] = row]
        IN /\ IsTable(n, new) /\ LaterTable(table, new) /\ Bumped(table, new, id)
           /\ DOMAIN new = DOMAIN table
           /\ new[id] = row /\ \A k \in DOMAIN table \ {id} : new[k] = table[k]
BY DEF IsTable, LaterTable, Bumped

LEMMA InsertAndChange ==
  ASSUME NEW n, NEW table, IsTable(n, table), NEW id, id \notin DOMAIN table,
         NEW row, DOMAIN row = Fields[n], row.version \in Nat,
         NEW other \in DOMAIN table,
         NEW changed, DOMAIN changed = Fields[n], changed.version = table[other].version + 1
  PROVE LET new == [Put(table, id, row) EXCEPT ![other] = changed]
        IN IsTable(n, new) /\ LaterTable(table, new) /\ Bumped(table, new, other)
<1> PICK put : put = Put(table, id, row)
  OBVIOUS
<1>1. /\ DOMAIN put = DOMAIN table \cup {id} /\ put[id] = row
      /\ \A k \in DOMAIN table : put[k] = table[k]
  BY DEF Put
<1> PICK new : new = [put EXCEPT ![other] = changed]
  OBVIOUS
<1>2. /\ DOMAIN new = DOMAIN table \cup {id} /\ new[other] = changed /\ new[id] = row
      /\ \A k \in DOMAIN table \ {other} : new[k] = table[k]
  BY <1>1
<1>3. IsTable(n, new) /\ LaterTable(table, new) /\ Bumped(table, new, other)
  BY <1>2 DEF IsTable, LaterTable, Bumped
<1>4. QED
  BY <1>3

\* A row changed in place.
LEMMA RowIn ==
  ASSUME NEW t, NEW n, NEW id, NEW row
  PROVE [t EXCEPT !.store[n][id] = row] = With(t, n, [t.store[n] EXCEPT ![id] = row])
BY DEF With

-----------------------------------------------------------------------------
(* The operations on sources and continuity records.                       *)

\* The links of a record; and a table with other records, whose links are old or
\* in a set, and whose successors are old or the new records.
Pointed(n, row) == row.refs \cup (IF n = "questions" THEN row.answer ELSE {})
Points(n, old, new, ids, refs) ==
  /\ DOMAIN new = DOMAIN old \cup ids
  /\ \A k \in DOMAIN new :
       Pointed(n, new[k]) \subseteq refs \cup (IF k \in DOMAIN old THEN Pointed(n, old[k]) ELSE {})
  /\ n = "decisions" =>
       \A k \in DOMAIN new :
         new[k].by \in ids \cup {NONE} \cup (IF k \in DOMAIN old THEN {old[k].by} ELSE {})

LEMMA RegisterSourceDoes ==
  ASSUME NEW t, IsTxn(t), Rows(t.store), t.error = NONE, NEW op,
         NEW u, u = RegisterSource(t, op), u.error = NONE
  PROVE /\ FollowsIn("sources", t, u) /\ Elsewhere(t, u)
        /\ DOMAIN u.store.sources = DOMAIN t.store.sources \cup {op.source}
<1> DEFINE e == [type |-> "SOURCE_REVISION_REGISTERED", source |-> op.source, content |-> op.content]
           table == Put(t.store.sources, op.source, op.content)
<1>1. u = Emit(With(t, "sources", table), e)
  BY DEF With, RegisterSource, Fail, IsTxn, NONE, INVALID
<1>2. "sources" \in Tables /\ "sources" \notin Aggregates
  BY DEF Tables, Aggregates
<1>3. DOMAIN table = DOMAIN t.store.sources \cup {op.source}
  BY DEF Put
<1>6. e.type \notin AboutConflicts
  BY DEF AboutConflicts
<1> HIDE DEF e, table
<1>4. FollowsIn("sources", t, u) /\ u.store.sources = table
  BY <1>1, <1>2, NewTable
<1>7. Elsewhere(t, u)
  BY <1>1, <1>2, <1>6, AnotherTable
<1>5. QED
  BY <1>3, <1>4, <1>7

LEMMA RecordDecisionDoes ==
  ASSUME NEW t, IsTxn(t), Rows(t.store), t.error = NONE, NEW op,
         NEW u, u = RecordDecision(t, op), u.error = NONE
  PROVE /\ FollowsIn("decisions", t, u) /\ Elsewhere(t, u)
        /\ Points("decisions", t.store.decisions, u.store.decisions, {op.decision}, op.refs)
<1> DEFINE e == [type |-> "DECISION_RECORDED", decision |-> op.decision, refs |-> op.refs]
           row == NewDecision(op.refs)
           table == Put(t.store.decisions, op.decision, row)
<1>1. /\ u = Emit(With(t, "decisions", table), e)
      /\ op.decision \notin DOMAIN t.store.decisions
  BY DEF With, RecordDecision, Fail, IsTxn, NONE, INVALID
<1>2. "decisions" \in Tables /\ "decisions" \in Aggregates
  BY DEF Tables, Aggregates
<1>3. DOMAIN row = Fields.decisions /\ row.version \in Nat
  BY DEF NewDecision, Fields
<1>4. IsTable("decisions", t.store.decisions)
  BY <1>2 DEF Rows
<1>7. Points("decisions", t.store.decisions, table, {op.decision}, op.refs)
  BY <1>1 DEF Points, Pointed, Put, NewDecision
<1>9. e.type \notin AboutConflicts
  BY DEF AboutConflicts
<1> HIDE DEF e, row
<1>5. IsTable("decisions", table) /\ LaterTable(t.store.decisions, table)
  <2>1. WithRow("decisions", t.store.decisions, op.decision, row, table)
    BY <1>1, <1>3, <1>4, InsertRow
  <2>2. QED
    <3> HIDE DEF table
    <3> QED BY <2>1 DEF WithRow
<1> HIDE DEF table
<1>6. FollowsIn("decisions", t, u) /\ u.store.decisions = table
  BY <1>1, <1>2, <1>5, NewTable
<1>10. Elsewhere(t, u)
  BY <1>1, <1>2, <1>9, AnotherTable
<1>8. QED
  BY <1>6, <1>7, <1>10

LEMMA SupersedeDecisionDoes ==
  ASSUME NEW t, IsTxn(t), Rows(t.store), t.error = NONE, NEW op,
         NEW u, u = SupersedeDecision(t, op), u.error = NONE
  PROVE /\ FollowsIn("decisions", t, u) /\ Elsewhere(t, u)
        /\ Bumped(t.store.decisions, u.store.decisions, op.target)
        /\ Points("decisions", t.store.decisions, u.store.decisions, {op.decision}, op.refs)
<1> DEFINE old == t.store.decisions
           target == old[op.target]
           row == NewDecision(op.refs)
           closed == [target EXCEPT !.status = op.disposition, !.version = @ + 1, !.by = op.decision]
           inserted == Put(old, op.decision, row)
           table == [inserted EXCEPT ![op.target] = closed]
           e == [type |-> "DECISION_SUPERSEDED", target |-> op.target,
                 disposition |-> op.disposition, decision |-> op.decision, refs |-> op.refs,
                 from |-> target.version, to |-> target.version + 1]
<1>1. op.target \in DOMAIN old /\ op.decision \notin DOMAIN old
  BY DEF SupersedeDecision, Fail, IsTxn, NONE, INVALID, CONFLICT
<1>2. u = Emit(With(t, "decisions", table), e)
  BY <1>1 DEF With, SupersedeDecision, Fail, IsTxn, NONE, INVALID, CONFLICT
<1>3. "decisions" \in Tables /\ "decisions" \in Aggregates
  BY DEF Tables, Aggregates
<1>4. DOMAIN row = Fields.decisions /\ row.version \in Nat
  BY DEF NewDecision, Fields
<1>5. IsTable("decisions", old)
  BY <1>3 DEF Rows
<1>6. DOMAIN closed = Fields.decisions /\ closed.version = target.version + 1
  <2>1. DOMAIN target = Fields.decisions
    BY <1>1, <1>5 DEF IsTable
  <2>2. QED
    BY <2>1 DEF Fields
<1>10. Points("decisions", old, table, {op.decision}, op.refs)
  <2>1. DOMAIN target = Fields.decisions
    BY <1>1, <1>5 DEF IsTable
  <2>2. closed.refs = target.refs /\ closed.by = op.decision
    BY <2>1 DEF Fields
  <2>3. row.refs = op.refs /\ row.by = NONE
    BY DEF NewDecision
  <2> HIDE DEF closed, row, target
  <2>4. /\ DOMAIN table = DOMAIN old \cup {op.decision}
        /\ table[op.target] = closed /\ table[op.decision] = row
        /\ \A k \in DOMAIN old \ {op.target} : table[k] = old[k]
    BY <1>1 DEF Put
  <2>5. QED
    BY <1>1, <2>2, <2>3, <2>4 DEF Points, Pointed, target
<1>11. e.type \notin AboutConflicts
  BY DEF AboutConflicts
<1> HIDE DEF e, row, closed
<1>7. IsTable("decisions", table) /\ LaterTable(old, table) /\ Bumped(old, table, op.target)
  BY <1>1, <1>4, <1>5, <1>6, InsertAndChange
<1> HIDE DEF table
<1>8. FollowsIn("decisions", t, u) /\ u.store.decisions = table
  BY <1>2, <1>3, <1>7, NewTable
<1>12. Elsewhere(t, u)
  BY <1>2, <1>3, <1>11, AnotherTable
<1>9. QED
  BY <1>7, <1>8, <1>10, <1>12

LEMMA OpenQuestionDoes ==
  ASSUME NEW t, IsTxn(t), Rows(t.store), t.error = NONE, NEW op,
         NEW u, u = OpenQuestion(t, op), u.error = NONE
  PROVE /\ FollowsIn("questions", t, u) /\ Elsewhere(t, u)
        /\ Points("questions", t.store.questions, u.store.questions, {op.question}, op.refs)
<1> DEFINE e == [type |-> "QUESTION_OPENED", question |-> op.question, refs |-> op.refs]
           row == [status |-> "OPEN", version |-> 1, answer |-> {}, refs |-> op.refs]
           table == Put(t.store.questions, op.question, row)
<1>1. /\ u = Emit(With(t, "questions", table), e)
      /\ op.question \notin DOMAIN t.store.questions
  BY DEF With, OpenQuestion, Fail, IsTxn, NONE, INVALID
<1>2. "questions" \in Tables /\ "questions" \in Aggregates
  BY DEF Tables, Aggregates
<1>3. DOMAIN row = Fields.questions /\ row.version \in Nat
  BY DEF Fields
<1>4. IsTable("questions", t.store.questions)
  BY <1>2 DEF Rows
<1>7. Points("questions", t.store.questions, table, {op.question}, op.refs)
  BY <1>1 DEF Points, Pointed, Put
<1>9. e.type \notin AboutConflicts
  BY DEF AboutConflicts
<1> HIDE DEF e, row
<1>5. IsTable("questions", table) /\ LaterTable(t.store.questions, table)
  <2>1. WithRow("questions", t.store.questions, op.question, row, table)
    BY <1>1, <1>3, <1>4, InsertRow
  <2>2. QED
    <3> HIDE DEF table
    <3> QED BY <2>1 DEF WithRow
<1> HIDE DEF table
<1>6. FollowsIn("questions", t, u) /\ u.store.questions = table
  BY <1>1, <1>2, <1>5, NewTable
<1>10. Elsewhere(t, u)
  BY <1>1, <1>2, <1>9, AnotherTable
<1>8. QED
  BY <1>6, <1>7, <1>10

LEMMA CloseQuestionDoes ==
  ASSUME NEW t, IsTxn(t), Rows(t.store), t.error = NONE, NEW q, NEW status, NEW answer,
         NEW u, u = CloseQuestion(t, q, status, answer), u.error = NONE
  PROVE /\ FollowsIn("questions", t, u) /\ Elsewhere(t, u)
        /\ Bumped(t.store.questions, u.store.questions, q)
        /\ Points("questions", t.store.questions, u.store.questions, {}, answer)
<1> DEFINE old == t.store.questions
           target == old[q]
           closed == [target EXCEPT !.status = status, !.version = @ + 1, !.answer = answer]
           table == [old EXCEPT ![q] = closed]
           e == [type |-> IF status = "ANSWERED" THEN "QUESTION_ANSWERED" ELSE "QUESTION_DROPPED",
                 target |-> q, answer |-> answer,
                 from |-> target.version, to |-> target.version + 1]
<1>1. q \in DOMAIN old
  BY DEF CloseQuestion, Fail, IsTxn, NONE, CONFLICT
<1>2. u = Emit(With(t, "questions", table), e)
  <2>1. u = Emit([t EXCEPT !.store.questions[q] = closed], e)
    BY <1>1 DEF CloseQuestion, Fail, IsTxn, NONE, CONFLICT
  <2> HIDE DEF e, closed
  <2>2. [t EXCEPT !.store.questions[q] = closed] = With(t, "questions", table)
    BY DEF With
  <2>3. QED
    BY <2>1, <2>2
<1>3. "questions" \in Tables /\ "questions" \in Aggregates
  BY DEF Tables, Aggregates
<1>4. IsTable("questions", old)
  BY <1>3 DEF Rows
<1>5. DOMAIN closed = Fields.questions /\ closed.version = target.version + 1
  <2>1. DOMAIN target = Fields.questions
    BY <1>1, <1>4 DEF IsTable
  <2>2. QED
    BY <2>1 DEF Fields
<1>9. Points("questions", old, table, {}, answer)
  <2>1. DOMAIN target = Fields.questions
    BY <1>1, <1>4 DEF IsTable
  <2>2. closed.refs = target.refs /\ closed.answer = answer
    BY <2>1 DEF Fields
  <2>3. QED
    BY <1>1, <2>2 DEF Points, Pointed
<1>10. e.type \notin AboutConflicts
  BY DEF AboutConflicts
<1> HIDE DEF e, closed
<1>6. IsTable("questions", table) /\ LaterTable(old, table) /\ Bumped(old, table, q)
  BY <1>1, <1>4, <1>5, ChangeRow
<1> HIDE DEF table
<1>7. FollowsIn("questions", t, u) /\ u.store.questions = table
  BY <1>2, <1>3, <1>6, NewTable
<1>11. Elsewhere(t, u)
  BY <1>2, <1>3, <1>10, AnotherTable
<1>8. QED
  BY <1>6, <1>7, <1>9, <1>11

LEMMA CreateWorkItemDoes ==
  ASSUME NEW t, IsTxn(t), Rows(t.store), t.error = NONE, NEW op,
         NEW u, u = CreateWorkItem(t, op), u.error = NONE
  PROVE /\ FollowsIn("work", t, u) /\ Elsewhere(t, u)
        /\ Points("work", t.store.work, u.store.work, {op.item}, op.refs)
<1> DEFINE e == [type |-> "WORK_ITEM_CREATED", item |-> op.item, refs |-> op.refs]
           row == [status |-> "TODO", version |-> 1, blocked |-> FALSE, refs |-> op.refs]
           table == Put(t.store.work, op.item, row)
<1>1. /\ u = Emit(With(t, "work", table), e)
      /\ op.item \notin DOMAIN t.store.work
  BY DEF With, CreateWorkItem, Fail, IsTxn, NONE, INVALID
<1>2. "work" \in Tables /\ "work" \in Aggregates
  BY DEF Tables, Aggregates
<1>3. DOMAIN row = Fields.work /\ row.version \in Nat
  BY DEF Fields
<1>4. IsTable("work", t.store.work)
  BY <1>2 DEF Rows
<1>7. Points("work", t.store.work, table, {op.item}, op.refs)
  BY <1>1 DEF Points, Pointed, Put
<1>9. e.type \notin AboutConflicts
  BY DEF AboutConflicts
<1> HIDE DEF e, row
<1>5. IsTable("work", table) /\ LaterTable(t.store.work, table)
  <2>1. WithRow("work", t.store.work, op.item, row, table)
    BY <1>1, <1>3, <1>4, InsertRow
  <2>2. QED
    <3> HIDE DEF table
    <3> QED BY <2>1 DEF WithRow
<1> HIDE DEF table
<1>6. FollowsIn("work", t, u) /\ u.store.work = table
  BY <1>1, <1>2, <1>5, NewTable
<1>10. Elsewhere(t, u)
  BY <1>1, <1>2, <1>9, AnotherTable
<1>8. QED
  BY <1>6, <1>7, <1>10

LEMMA UpdateWorkItemStatusDoes ==
  ASSUME NEW t, IsTxn(t), Rows(t.store), t.error = NONE, NEW op,
         NEW u, u = UpdateWorkItemStatus(t, op), u.error = NONE
  PROVE /\ FollowsIn("work", t, u) /\ Elsewhere(t, u)
        /\ Bumped(t.store.work, u.store.work, op.target)
        /\ Points("work", t.store.work, u.store.work, {}, {})
<1> DEFINE old == t.store.work
           target == old[op.target]
           changed == [target EXCEPT !.status = op.status, !.version = @ + 1, !.blocked = op.blocked]
           table == [old EXCEPT ![op.target] = changed]
           e == [type |-> "WORK_ITEM_STATUS_UPDATED", target |-> op.target,
                 was |-> target.status, status |-> op.status, blocked |-> op.blocked,
                 from |-> target.version, to |-> target.version + 1]
<1>1. op.target \in DOMAIN old
  BY DEF UpdateWorkItemStatus, Fail, IsTxn, NONE, CONFLICT, INVALID
<1>2. u = Emit(With(t, "work", table), e)
  <2>1. u = Emit([t EXCEPT !.store.work[op.target] = changed], e)
    BY <1>1 DEF UpdateWorkItemStatus, Fail, IsTxn, NONE, CONFLICT, INVALID
  <2> HIDE DEF e, changed
  <2>2. QED
    BY <2>1, RowIn
<1>3. "work" \in Tables /\ "work" \in Aggregates
  BY DEF Tables, Aggregates
<1>4. IsTable("work", old)
  BY <1>3 DEF Rows
<1>5. DOMAIN changed = Fields.work /\ changed.version = target.version + 1
  <2>1. DOMAIN target = Fields.work
    BY <1>1, <1>4 DEF IsTable
  <2>2. QED
    BY <2>1 DEF Fields
<1>9. Points("work", old, table, {}, {})
  <2>1. DOMAIN target = Fields.work
    BY <1>1, <1>4 DEF IsTable
  <2>2. changed.refs = target.refs
    BY <2>1 DEF Fields
  <2>3. QED
    BY <1>1, <2>2 DEF Points, Pointed
<1>10. e.type \notin AboutConflicts
  BY DEF AboutConflicts
<1> HIDE DEF e, changed
<1>6. IsTable("work", table) /\ LaterTable(old, table) /\ Bumped(old, table, op.target)
  BY <1>1, <1>4, <1>5, ChangeRow
<1> HIDE DEF table
<1>7. FollowsIn("work", t, u) /\ u.store.work = table
  BY <1>2, <1>3, <1>6, NewTable
<1>11. Elsewhere(t, u)
  BY <1>2, <1>3, <1>10, AnotherTable
<1>8. QED
  BY <1>6, <1>7, <1>9, <1>11

-----------------------------------------------------------------------------
(* Claims and the conflicts they open.                                     *)

\* Conflicts stay those of their family; open ones only grow.
Grown(old, new) ==
  \A k \in DOMAIN old :
    /\ k \in DOMAIN new /\ new[k].family = old[k].family
    /\ old[k].status = "OPEN" => new[k].status = "OPEN" /\ old[k].members \subseteq new[k].members

LEMMA GrownReflexive ==
  ASSUME NEW table PROVE Grown(table, table)
BY DEF Grown

LEMMA GrownTransitive ==
  ASSUME NEW x, NEW y, NEW z, Grown(x, y), Grown(y, z) PROVE Grown(x, z)
BY DEF Grown

LEMMA LaterTransitive ==
  ASSUME NEW s, NEW r, NEW q, Rows(s), Rows(r), Rows(q), Later(s, r), Later(r, q)
  PROVE Later(s, q)
<1> SUFFICES ASSUME NEW n \in Aggregates, NEW id \in DOMAIN s[n]
             PROVE id \in DOMAIN q[n] /\ q[n][id].version >= s[n][id].version
  BY DEF Later, LaterTable
<1>1. id \in DOMAIN r[n] /\ r[n][id].version >= s[n][id].version
  BY DEF Later, LaterTable
<1>2. id \in DOMAIN q[n] /\ q[n][id].version >= r[n][id].version
  BY <1>1 DEF Later, LaterTable
<1>3. {s[n][id].version, r[n][id].version, q[n][id].version} \subseteq Nat
  BY <1>1, <1>2 DEF Rows, IsTable
<1>4. QED
  BY <1>1, <1>2, <1>3

LEMMA FollowsTransitive ==
  ASSUME NEW t, NEW u, NEW v, Rows(t.store), Follows(t, u), Follows(u, v)
  PROVE Follows(t, v)
<1>1. Later(t.store, v.store)
  BY LaterTransitive DEF Follows
<1>2. Extends(t.events, v.events)
  BY DEF Follows, Extends
<1>3. QED
  BY <1>1, <1>2 DEF Follows

\* A contradiction of some parties is put in a conflict of their family.
OpensConflict(old, f, parties, key, new) ==
  /\ IsTable("conflicts", new) /\ LaterTable(old, new) /\ Grown(old, new)
  /\ DOMAIN new = DOMAIN old \cup {key}
  /\ new[key].status = "OPEN" /\ new[key].family = f /\ parties \subseteq new[key].members
  /\ key \in DOMAIN old \/ key = parties
  /\ \A k \in DOMAIN old \ {key} : new[k] = old[k]
  /\ \/ new[key].members = parties
     \/ /\ key \in DOMAIN old /\ old[key].family = f
        /\ new[key].members = old[key].members \cup parties

LEMMA OpenedRowIs ==
  ASSUME NEW s, Rows(s), NEW claim, NEW parties, NEW sort, NEW seq,
         parties \notin DOMAIN s.conflicts,
         NEW key, key = OpenedRow(s, claim, parties, sort, seq)[1],
         NEW val, val = OpenedRow(s, claim, parties, sort, seq)[2]
  PROVE OpensConflict(s.conflicts, Claim[claim].family, parties, key, Put(s.conflicts, key, val))
<1> PICK old : old = s.conflicts
  OBVIOUS
<1> PICK f : f = Claim[claim].family
  OBVIOUS
<1> DEFINE existing == Episodes(s, f, sort)
<1> PICK new : new = Put(s.conflicts, key, val)
  OBVIOUS
<1>0. new = Put(old, key, val)
  OBVIOUS
<1>1. IsTable("conflicts", old)
  BY DEF Rows, Aggregates
<1>2. CASE existing = {}
  <2>1. key = parties /\ val = FirstEpisode(f, sort, parties, seq)
    BY <1>2 DEF OpenedRow
  <2>2. /\ val.status = "OPEN" /\ val.family = f /\ val.members = parties
        /\ val.version \in Nat /\ DOMAIN val = Fields["conflicts"]
    BY <2>1 DEF FirstEpisode, Fields
  <2>3. key = parties /\ key \notin DOMAIN old
    BY <2>1
  <2>4. /\ IsTable("conflicts", new) /\ LaterTable(old, new)
        /\ DOMAIN new = DOMAIN old \cup {key} /\ new[key] = val
        /\ \A k \in DOMAIN old : new[k] = old[k]
    <3>1. IsTable("conflicts", Put(old, key, val)) /\ LaterTable(old, Put(old, key, val))
      BY <1>1, <2>2, <2>3 DEF IsTable, LaterTable, Put
    <3>2. QED
      BY <1>0, <2>3, <3>1 DEF Put
  <2>5. Grown(old, new)
    BY <2>4 DEF Grown
  <2>6. QED
    BY <2>2, <2>3, <2>4, <2>5 DEF OpensConflict
<1>3. CASE existing # {}
  <2>1. /\ key = CHOOSE k \in existing : TRUE
        /\ val = IF old[key].status = "OPEN" THEN Joined(old[key], parties)
                 ELSE Reopened(old[key], parties, seq)
    BY <1>3 DEF OpenedRow
  <2>2. key \in DOMAIN old /\ old[key].family = f
    BY <1>3, <2>1 DEF Episodes
  <2>3. DOMAIN old[key] = Fields["conflicts"] /\ old[key].version \in Nat
    BY <1>1, <2>2 DEF IsTable
  <2>4. CASE old[key].status = "OPEN"
    <3>1. val = [old[key] EXCEPT !.members = @ \cup parties, !.version = @ + 1]
      BY <2>1, <2>4 DEF Joined
    <3>2. /\ val.status = "OPEN" /\ val.family = f /\ val.members = old[key].members \cup parties
          /\ val.version = old[key].version + 1 /\ DOMAIN val = Fields["conflicts"]
      BY <2>2, <2>3, <2>4, <3>1 DEF Fields
    <3>3. /\ DOMAIN new = DOMAIN old /\ new[key] = val
          /\ \A k \in DOMAIN old \ {key} : new[k] = old[k]
      BY <1>0, <2>2 DEF Put
    <3>4. IsTable("conflicts", new) /\ LaterTable(old, new)
      <4>1. old[key].version \in Nat /\ new[key].version = old[key].version + 1
        BY <2>3, <3>2, <3>3
      <4>2. QED
        BY <1>1, <2>2, <3>2, <3>3, <4>1 DEF IsTable, LaterTable
    <3>5. Grown(old, new)
      BY <2>2, <3>2, <3>3 DEF Grown
    <3>6. /\ DOMAIN new = DOMAIN old \cup {key} /\ key \in DOMAIN old
          /\ new[key].status = "OPEN" /\ new[key].family = f /\ parties \subseteq new[key].members
          /\ old[key].family = f /\ new[key].members = old[key].members \cup parties
      BY <2>2, <3>2, <3>3
    <3>7. QED
      BY <3>3, <3>4, <3>5, <3>6 DEF OpensConflict
  <2>5. CASE old[key].status # "OPEN"
    <3>1. val = [old[key] EXCEPT !.members = parties, !.status = "OPEN", !.episode = @ + 1,
                                   !.version = @ + 1, !.resolution = {}, !.opened = seq]
      BY <2>1, <2>5 DEF Reopened
    <3>2. /\ val.status = "OPEN" /\ val.family = f /\ val.members = parties
          /\ val.version = old[key].version + 1 /\ DOMAIN val = Fields["conflicts"]
      BY <2>2, <2>3, <3>1 DEF Fields
    <3>3. /\ DOMAIN new = DOMAIN old /\ new[key] = val
          /\ \A k \in DOMAIN old \ {key} : new[k] = old[k]
      BY <1>0, <2>2 DEF Put
    <3>4. IsTable("conflicts", new) /\ LaterTable(old, new)
      <4>1. old[key].version \in Nat /\ new[key].version = old[key].version + 1
        BY <2>3, <3>2, <3>3
      <4>2. QED
        BY <1>1, <2>2, <3>2, <3>3, <4>1 DEF IsTable, LaterTable
    <3>5. Grown(old, new)
      BY <2>2, <2>5, <3>2, <3>3 DEF Grown
    <3>6. /\ DOMAIN new = DOMAIN old \cup {key} /\ key \in DOMAIN old
          /\ new[key].status = "OPEN" /\ new[key].family = f /\ parties \subseteq new[key].members
          /\ new[key].members = parties
      BY <2>2, <3>2, <3>3
    <3>7. QED
      BY <3>3, <3>4, <3>5, <3>6 DEF OpensConflict
  <2>6. QED
    BY <2>4, <2>5
<1>4. QED
  BY <1>2, <1>3

\* The version of that row, and that it is one.
LEMMA OpenedRowTells ==
  ASSUME NEW s, Rows(s), NEW claim, NEW parties, NEW sort, NEW seq,
         parties \notin DOMAIN s.conflicts,
         NEW key, key = OpenedRow(s, claim, parties, sort, seq)[1],
         NEW val, val = OpenedRow(s, claim, parties, sort, seq)[2]
  PROVE /\ val = [f \in Fields["conflicts"] |-> val[f]]
        /\ val.version = IF key \in DOMAIN s.conflicts THEN s.conflicts[key].version + 1 ELSE 1
<1>a. PICK old : old = s.conflicts
  OBVIOUS
<1>b. PICK f : f = Claim[claim].family
  OBVIOUS
<1> DEFINE existing == Episodes(s, f, sort)
<1>1. IsTable("conflicts", old)
  BY <1>a DEF Rows, Aggregates
<1>2. CASE existing = {}
  <2>1. key = parties /\ val = FirstEpisode(f, sort, parties, seq)
    BY <1>2, <1>b DEF OpenedRow
  <2>2. val.version = 1 /\ val = [x \in Fields["conflicts"] |-> val[x]]
    BY <2>1 DEF FirstEpisode, Fields
  <2>3. QED
    BY <2>1, <2>2
<1>3. CASE existing # {}
  <2>1. /\ key = CHOOSE k \in existing : TRUE
        /\ val = IF old[key].status = "OPEN" THEN Joined(old[key], parties)
                 ELSE Reopened(old[key], parties, seq)
    BY <1>3, <1>a, <1>b DEF OpenedRow
  <2>2. key \in DOMAIN old
    BY <1>3, <1>a, <2>1 DEF Episodes
  <2>3. DOMAIN old[key] = Fields["conflicts"]
    BY <1>1, <2>2 DEF IsTable
  <2>a. PICK row : row = old[key]
    OBVIOUS
  <2>4. ASSUME val = Joined(row, parties) \/ val = Reopened(row, parties, seq)
        PROVE val.version = row.version + 1 /\ val = [x \in Fields["conflicts"] |-> val[x]]
    <3>1. "version" \in DOMAIN row
      BY <2>3, <2>a DEF Fields
    <3>2. val.version = row.version + 1
      BY <2>4, <3>1 DEF Joined, Reopened
    <3>3. val = [x \in DOMAIN row |-> val[x]]
      BY <2>4 DEF Joined, Reopened
    <3>4. QED
      BY <2>3, <2>a, <3>2, <3>3
  <2>5. QED
    BY <2>1, <2>2, <2>4, <1>a, <2>a
<1>4. QED
  BY <1>2, <1>3

\* A conflict is between claims of its family.
Founded(s) ==
  \A k \in DOMAIN s.conflicts :
    /\ s.conflicts[k].members \subseteq DOMAIN s.claims
    /\ {Claim[c].family : c \in s.conflicts[k].members} = {s.conflicts[k].family}

LEMMA FoundedRow ==
  ASSUME NEW s, Founded(s), NEW k \in DOMAIN s.conflicts, NEW c \in s.conflicts[k].members
  PROVE c \in DOMAIN s.claims /\ Claim[c].family = s.conflicts[k].family
<1>a. PICK row : row = s.conflicts[k]
  OBVIOUS
<1>1. row.members \subseteq DOMAIN s.claims /\ {Claim[x].family : x \in row.members} = {row.family}
  BY <1>a DEF Founded
<1>2. c \in row.members
  BY <1>a
<1>3. Claim[c].family \in {Claim[x].family : x \in row.members}
  BY <1>2
<1>4. QED
  BY <1>1, <1>2, <1>3, <1>a

LEMMA FamilyOfMembers ==
  ASSUME NEW row, NEW claim \in row.members, \A c \in row.members : Claim[c].family = row.family
  PROVE {Claim[c].family : c \in row.members} = {row.family}
OBVIOUS

\* A conflict is filed: its row, and the event that tells it.
Filed(t, u, key, val) ==
  /\ IsTxn(u) /\ u.error = t.error /\ u.opened = t.opened \cup {key}
  /\ Extends(t.events, u.events)
  /\ u.events = Append(t.events, [type |-> "CONFLICT_OPENED", id |-> key,
                                  conflict |-> Document(val)])
  /\ u.store.conflicts = Put(t.store.conflicts, key, val)
  /\ \A m \in Tables \ {"conflicts"} : u.store[m] = t.store[m]

LEMMA OpenConflictIs ==
  ASSUME NEW t, IsTxn(t), NEW claim, NEW others, others # {}, NEW sort, NEW seq,
         NEW key, key = OpenedRow(t.store, claim, others \cup {claim}, sort, seq)[1],
         NEW val, val = OpenedRow(t.store, claim, others \cup {claim}, sort, seq)[2],
         NEW u, u = OpenConflict(t, claim, others, sort, seq)
  PROVE Filed(t, u, key, val)
<1>a. PICK new : new = Put(t.store.conflicts, key, val)
  OBVIOUS
<1>b. PICK s : s = [t.store EXCEPT !["conflicts"] = new]
  OBVIOUS
<1>c. PICK o : o = t.opened \cup {key}
  OBVIOUS
<1>d. PICK e : e = [type |-> "CONFLICT_OPENED", id |-> key, conflict |-> Document(val)]
  OBVIOUS
<1>1. u = Emit([t EXCEPT !.store.conflicts = new, !.opened = o], e)
  BY <1>a, <1>c, <1>d DEF OpenConflict
<1>2. "conflicts" \in Tables
  BY DEF Tables
<1>3. Shaped(s) /\ s["conflicts"] = new /\ \A m \in Tables \ {"conflicts"} : s[m] = t.store[m]
  <2>1. Shaped(t.store)
    BY DEF IsTxn
  <2>2. Replaced(t.store, "conflicts", new, s)
    BY <1>2, <1>b, <2>1, ReplaceTable
  <2>3. QED
    BY <2>2 DEF Replaced
<1>4. [t EXCEPT !.store.conflicts = new, !.opened = o]
        = [store |-> s, events |-> t.events, opened |-> o, error |-> t.error]
  <2>1. [t EXCEPT !.store.conflicts = new, !.opened = o] = [t EXCEPT !.store = s, !.opened = o]
    BY <1>b
  <2>a. PICK t1 : t1 = [t EXCEPT !.store = s]
    OBVIOUS
  <2>2. t1 = [store |-> s, events |-> t.events, opened |-> t.opened, error |-> t.error]
    BY <2>a DEF IsTxn
  <2>b. PICK t2 : t2 = [t1 EXCEPT !.opened = o]
    OBVIOUS
  <2>3. t2 = [store |-> s, events |-> t.events, opened |-> o, error |-> t.error]
    <3>1. /\ DOMAIN t2 = {"store", "events", "opened", "error"}
          /\ t2.store = s /\ t2.events = t.events /\ t2.opened = o /\ t2.error = t.error
          /\ t2 = [f \in DOMAIN t2 |-> t2[f]]
      BY <2>2, <2>b
    <3>2. QED
      BY <3>1
  <2>4. QED
    BY <2>1, <2>3, <2>a, <2>b
<1>5. u = Emit([store |-> s, events |-> t.events, opened |-> o, error |-> t.error], e)
  BY <1>1, <1>4
<1>6. IsTxn(u) /\ Moved(t, u, s, e) /\ u.opened = o /\ Extends(t.events, u.events)
  BY <1>3, <1>5, EmitIs
<1>7. u.store = s /\ u.events = Append(t.events, e) /\ u.error = t.error
  BY <1>6 DEF Moved
<1>8. QED
  BY <1>3, <1>6, <1>7, <1>a, <1>c, <1>d DEF Filed

\* What is done about the others a claim contradicts in one way.
FilesClaim(t, u, claim, others) ==
  /\ Follows(t, u) /\ u.error = t.error
  /\ Grown(t.store.conflicts, u.store.conflicts)
  /\ \A m \in Tables \ {"conflicts"} : u.store[m] = t.store[m]
  /\ others = {} => u = t
  /\ others # {} => \E id \in DOMAIN u.store.conflicts :
       /\ u.opened = t.opened \cup {id}
       /\ DOMAIN u.store.conflicts = DOMAIN t.store.conflicts \cup {id}
       /\ u.store.conflicts[id].status = "OPEN"
       /\ u.store.conflicts[id].family = Claim[claim].family
       /\ others \cup {claim} \subseteq u.store.conflicts[id].members
       /\ id \in DOMAIN t.store.conflicts \/ id = others \cup {claim}
  /\ Founded(t.store) /\ others \cup {claim} \subseteq DOMAIN t.store.claims
       /\ (\A c \in others : Claim[c].family = Claim[claim].family)
     => Founded(u.store)

LEMMA OpenConflictDoes ==
  ASSUME NEW t, IsTxn(t), Rows(t.store), NEW claim, NEW others, NEW sort, NEW seq,
         others \cup {claim} \notin DOMAIN t.store.conflicts,
         NEW u, u = OpenConflict(t, claim, others, sort, seq)
  PROVE FilesClaim(t, u, claim, others)
<1>1. CASE others = {}
  <2>1. u = t
    BY <1>1 DEF OpenConflict
  <2>2. Extends(t.events, t.events)
    BY DEF Extends
  <2>3. Later(t.store, t.store)
    BY LaterReflexive DEF Later, Rows
  <2>4. Follows(t, t)
    BY <2>2, <2>3 DEF Follows
  <2>5. QED
    BY <1>1, <2>1, <2>4, GrownReflexive DEF FilesClaim
<1>2. CASE others # {}
  <2> PICK parties : parties = others \cup {claim}
    OBVIOUS
  <2> PICK key : key = OpenedRow(t.store, claim, parties, sort, seq)[1]
    OBVIOUS
  <2> PICK val : val = OpenedRow(t.store, claim, parties, sort, seq)[2]
    OBVIOUS
  <2> PICK new : new = Put(t.store.conflicts, key, val)
    OBVIOUS
  <2>1. Filed(t, u, key, val)
    BY <1>2, OpenConflictIs
  <2>2. "conflicts" \in Tables
    BY DEF Tables
  <2>a. PICK s : s = u.store
    OBVIOUS
  <2>3. s["conflicts"] = new /\ \A m \in Tables \ {"conflicts"} : s[m] = t.store[m]
    BY <2>1, <2>a DEF Filed
  <2>6. IsTxn(u) /\ u.opened = t.opened \cup {key} /\ Extends(t.events, u.events) /\ u.error = t.error
    BY <2>1 DEF Filed
  <2>7. u.store = s
    BY <2>a
  <2>8. OpensConflict(t.store.conflicts, Claim[claim].family, parties, key, new)
    <3>1. parties \notin DOMAIN t.store.conflicts
      OBVIOUS
    <3>2. QED
      BY <3>1, OpenedRowIs
  <2>9. ASSUME NEW n \in Aggregates
        PROVE IsTable(n, s[n]) /\ LaterTable(t.store[n], s[n])
    <3>1. n \in Tables
      BY DEF Aggregates, Tables
    <3>2. CASE n = "conflicts"
      BY <2>3, <2>8, <3>2 DEF OpensConflict
    <3>3. CASE n # "conflicts"
      <4>1. s[n] = t.store[n] /\ IsTable(n, t.store[n])
        BY <2>3, <3>1, <3>3 DEF Rows
      <4>2. QED
        BY <4>1, LaterReflexive
    <3>4. QED
      BY <3>2, <3>3
  <2>10. Rows(u.store) /\ Later(t.store, u.store)
    BY <2>7, <2>9 DEF Rows, Later
  <2>11. Follows(t, u) /\ u.error = t.error
    BY <2>6, <2>10 DEF Follows
  <2>12. u.store.conflicts = new
    BY <2>3, <2>7
  <2>14. Founded(t.store) /\ others \cup {claim} \subseteq DOMAIN t.store.claims
           /\ (\A c \in others : Claim[c].family = Claim[claim].family)
         => Founded(u.store)
    <3> SUFFICES ASSUME Founded(t.store), parties \subseteq DOMAIN t.store.claims,
                        \A c \in parties : Claim[c].family = Claim[claim].family
                 PROVE Founded(u.store)
      OBVIOUS
    <3>1. u.store.claims = t.store.claims
      BY <2>3, <2>7 DEF Tables
    <3>2. ASSUME NEW k \in DOMAIN new
          PROVE /\ new[k].members \subseteq DOMAIN t.store.claims
                /\ {Claim[c].family : c \in new[k].members} = {new[k].family}
      <4>1. CASE k # key
        <5>1. k \in DOMAIN t.store.conflicts /\ new[k] = t.store.conflicts[k]
          BY <2>8, <4>1 DEF OpensConflict
        <5>2. QED
          BY <5>1 DEF Founded
      <4>2. CASE k = key
        <5>0. /\ new[key].family = Claim[claim].family
              /\ parties \subseteq new[key].members
              /\ \/ new[key].members = parties
                 \/ /\ key \in DOMAIN t.store.conflicts
                    /\ t.store.conflicts[key].family = Claim[claim].family
                    /\ new[key].members = t.store.conflicts[key].members \cup parties
          BY <2>8 DEF OpensConflict
        <5>3. ASSUME key \in DOMAIN t.store.conflicts, NEW c \in t.store.conflicts[key].members
              PROVE /\ c \in DOMAIN t.store.claims
                    /\ Claim[c].family = t.store.conflicts[key].family
          BY <5>3, FoundedRow
        <5>1. /\ claim \in new[key].members
              /\ \A c \in new[key].members :
                   c \in DOMAIN t.store.claims /\ Claim[c].family = Claim[claim].family
          BY <5>0, <5>3
        <5>a. PICK row : row = new[key]
          OBVIOUS
        <5>4. {Claim[c].family : c \in row.members} = {row.family}
          BY <5>0, <5>1, <5>a, FamilyOfMembers
        <5>5. row.members \subseteq DOMAIN t.store.claims
          BY <5>1, <5>a
        <5>2. QED
          BY <4>2, <5>4, <5>5, <5>a
      <4>3. QED
        BY <4>1, <4>2
    <3>3. QED
      BY <3>1, <3>2, <2>12 DEF Founded
  <2>13. Grown(t.store.conflicts, u.store.conflicts)
    BY <2>8, <2>12 DEF OpensConflict
  <2>15. \A m \in Tables \ {"conflicts"} : u.store[m] = t.store[m]
    BY <2>1 DEF Filed
  <2>16. /\ u.opened = t.opened \cup {key}
         /\ key \in DOMAIN new /\ DOMAIN new = DOMAIN t.store.conflicts \cup {key}
         /\ new[key].status = "OPEN" /\ new[key].family = Claim[claim].family
         /\ parties \subseteq new[key].members
         /\ key \in DOMAIN t.store.conflicts \/ key = parties
    BY <2>6, <2>8 DEF OpensConflict
  <2>17. \E id \in DOMAIN u.store.conflicts :
           /\ u.opened = t.opened \cup {id}
           /\ DOMAIN u.store.conflicts = DOMAIN t.store.conflicts \cup {id}
           /\ u.store.conflicts[id].status = "OPEN"
           /\ u.store.conflicts[id].family = Claim[claim].family
           /\ others \cup {claim} \subseteq u.store.conflicts[id].members
           /\ id \in DOMAIN t.store.conflicts \/ id = others \cup {claim}
    BY <2>12, <2>16
  <2>18. QED
    BY <1>2, <2>11, <2>13, <2>14, <2>15, <2>17 DEF FilesClaim
<1>3. QED
  BY <1>1, <1>2

LEMMA InsertEvidenceDoes ==
  ASSUME NEW s, Shaped(s), NEW links, NEW r, r = InsertEvidence(s, links)
  PROVE Shaped(r) /\ \A m \in Tables \ {"evidence"} : r[m] = s[m]
<1> PICK table : table = [l \in DOMAIN s.evidence \cup links |->
                            [claim |-> Link[l].claim, source |-> Link[l].source]]
  OBVIOUS
<1>1. r = [s EXCEPT !["evidence"] = table]
  BY DEF InsertEvidence
<1>2. "evidence" \in Tables
  BY DEF Tables
<1>3. DOMAIN s = Tables /\ DOMAIN r = Tables /\ r = [m \in DOMAIN r |-> r[m]]
  BY <1>1 DEF Shaped
<1>4. Shaped(r)
  BY <1>3 DEF Shaped
<1>5. \A m \in Tables \ {"evidence"} : r[m] = s[m]
  BY <1>1, <1>3
<1>6. QED
  BY <1>4, <1>5

\* A claim that comes in.
NewClaim == [status |-> "ACTIVE", version |-> 1, by |-> NONE]
Inserts(t, u, claim) ==
  /\ IsTxn(u) /\ Rows(u.store) /\ Later(t.store, u.store)
  /\ u.events = t.events /\ u.opened = t.opened
  /\ claim \in DOMAIN Claim /\ claim \notin DOMAIN t.store.claims
  /\ u.store.claims = Put(t.store.claims, claim, NewClaim)
  /\ \A m \in Tables \ {"claims", "evidence"} : u.store[m] = t.store[m]

LEMMA InsertClaimDoes ==
  ASSUME NEW t, IsTxn(t), Rows(t.store), t.error = NONE, NEW claim, NEW links,
         NEW u, u = InsertClaim(t, claim, links), u.error = NONE
  PROVE Inserts(t, u, claim)
<1>a. PICK table : table = Put(t.store.claims, claim, NewClaim)
  OBVIOUS
<1>b. PICK s1 : s1 = [t.store EXCEPT !["claims"] = table]
  OBVIOUS
<1>c. PICK s2 : s2 = InsertEvidence(s1, links)
  OBVIOUS
<1>1. u = [t EXCEPT !.store = s2] /\ claim \in DOMAIN Claim /\ claim \notin DOMAIN t.store.claims
  <2>1. /\ u = [t EXCEPT !.store =
                   InsertEvidence([t.store EXCEPT !.claims = Put(t.store.claims, claim, NewClaim)], links)]
        /\ claim \in DOMAIN Claim /\ claim \notin DOMAIN t.store.claims
    BY DEF InsertClaim, Fail, IsTxn, NONE, INVALID, NewClaim
  <2>2. QED
    BY <2>1, <1>a, <1>b, <1>c
<1>2. {"claims", "evidence"} \subseteq Tables /\ "claims" \in Aggregates /\ "evidence" \notin Aggregates
      /\ Aggregates \subseteq Tables
  BY DEF Tables, Aggregates
<1>3. Shaped(s1) /\ s1["claims"] = table /\ \A m \in Tables \ {"claims"} : s1[m] = t.store[m]
  <2>1. Shaped(t.store)
    BY DEF IsTxn
  <2>2. Replaced(t.store, "claims", table, s1)
    BY <1>2, <1>b, <2>1, ReplaceTable
  <2>3. QED
    BY <2>2 DEF Replaced
<1>4. Shaped(s2) /\ s2["claims"] = table /\ \A m \in Tables \ {"claims", "evidence"} : s2[m] = t.store[m]
  <2>1. \A s0, r, l : Shaped(s0) /\ r = InsertEvidence(s0, l)
                  => Shaped(r) /\ \A m \in Tables \ {"evidence"} : r[m] = s0[m]
    BY InsertEvidenceDoes
  <2>3. Shaped(s2)
    BY <1>3, <1>c, <2>1
  <2>4. ASSUME NEW m \in Tables \ {"evidence"} PROVE s2[m] = s1[m]
    <3>1. m \in Tables /\ m # "evidence"
      OBVIOUS
    <3>2. QED
      BY <1>3, <1>c, <2>1, <3>1
  <2>2. QED
    BY <1>2, <1>3, <2>3, <2>4
<1>5. IsTxn(u) /\ u.store = s2 /\ u.events = t.events /\ u.opened = t.opened
  BY <1>1, <1>4 DEF IsTxn
<1>6. IsTable("claims", t.store.claims)
  BY <1>2 DEF Rows
<1>7. IsTable("claims", table) /\ LaterTable(t.store.claims, table)
  <2>1. DOMAIN NewClaim = Fields["claims"] /\ NewClaim.version \in Nat
    BY DEF NewClaim, Fields
  <2>2. WithRow("claims", t.store.claims, claim, NewClaim, table)
    BY <1>1, <1>6, <1>a, <2>1, InsertRow
  <2>3. QED
    BY <2>2 DEF WithRow
<1>8. ASSUME NEW n \in Aggregates
      PROVE IsTable(n, s2[n]) /\ LaterTable(t.store[n], s2[n])
  <2>1. CASE n = "claims"
    BY <1>4, <1>7, <2>1
  <2>2. CASE n # "claims"
    <3>1. s2[n] = t.store[n] /\ IsTable(n, t.store[n])
      BY <1>2, <1>4, <2>2 DEF Rows
    <3>2. QED
      BY <3>1, LaterReflexive
  <2>3. QED
    BY <2>1, <2>2
<1>9. Rows(s2) /\ Later(t.store, s2)
  BY <1>8 DEF Rows, Later
<1>10. QED
  BY <1>a, <1>1, <1>4, <1>5, <1>9 DEF Inserts


-----------------------------------------------------------------------------
(* The replay of events.                                                   *)

\* A replay that has come to a store.
Mirrors(r, s) == IsTxn(r) /\ r.store = s /\ r.error = NONE

\* R goes through the events E, one by one.
Replays(R, E) == \A j \in 1 .. Len(E) : R[j] = ReplayEvent(R[j - 1], E[j])

\* A replay that mirrors transaction t where the events of t end mirrors u
\* where those of u end.
Retold(t, u) ==
  \A E, R : /\ IsList(E) /\ Replays(R, E) /\ Extends(u.events, E)
            /\ Mirrors(R[Len(t.events)], t.store)
            => Mirrors(R[Len(u.events)], u.store)

\* One event tells a step.
LEMMA Told ==
  ASSUME NEW t, IsTxn(t), NEW e, NEW u, u.events = Append(t.events, e),
         \A r : Mirrors(r, t.store) => Mirrors(ReplayEvent(r, e), u.store)
  PROVE Retold(t, u)
<1> SUFFICES ASSUME NEW E, NEW R, IsList(E), Replays(R, E), Extends(u.events, E),
                    Mirrors(R[Len(t.events)], t.store)
             PROVE Mirrors(R[Len(u.events)], u.store)
  BY DEF Retold
<1>a. PICK n : n = Len(t.events) + 1
  OBVIOUS
<1>1. /\ Len(u.events) = n /\ u.events[n] = e /\ Len(t.events) \in Nat
      /\ IsList(u.events)
  BY <1>a, AppendToList DEF IsTxn, IsList
<1>2. DOMAIN u.events = 1 .. n
  BY <1>1 DEF IsList
<1>3. n \in DOMAIN u.events /\ n - 1 = Len(t.events)
  BY <1>a, <1>1, <1>2
<1>4. n \in DOMAIN E /\ E[n] = e
  BY <1>1, <1>3 DEF Extends
<1>5. DOMAIN E = 1 .. Len(E)
  BY DEF IsList
<1>6. R[n] = ReplayEvent(R[n - 1], E[n])
  BY <1>4, <1>5 DEF Replays
<1>7. QED
  BY <1>1, <1>3, <1>4, <1>6

LEMMA RetoldTransitive ==
  ASSUME NEW t, NEW u, NEW v, Retold(t, u), Retold(u, v), Extends(u.events, v.events)
  PROVE Retold(t, v)
<1> SUFFICES ASSUME NEW E, NEW R, IsList(E), Replays(R, E), Extends(v.events, E),
                    Mirrors(R[Len(t.events)], t.store)
             PROVE Mirrors(R[Len(v.events)], v.store)
  BY DEF Retold
<1>1. Extends(u.events, E)
  BY DEF Extends
<1>2. Mirrors(R[Len(u.events)], u.store)
  BY <1>1 DEF Retold
<1>3. QED
  BY <1>2 DEF Retold

LEMMA RetoldReflexive ==
  ASSUME NEW t PROVE Retold(t, t)
BY DEF Retold

\* Another store, without a word about it.
LEMMA MirrorStore ==
  ASSUME NEW r, IsTxn(r), r.error = NONE, NEW s, Shaped(s),
         NEW v, v = [r EXCEPT !.store = s]
  PROVE Mirrors(v, s)
BY DEF Mirrors, IsTxn

LEMMA SameStore ==
  ASSUME NEW s, Shaped(s), NEW r, Shaped(r), \A m \in Tables : s[m] = r[m]
  PROVE s = r
BY DEF Shaped

\* The replay replaces the same table.
LEMMA MirrorTable ==
  ASSUME NEW t, IsTxn(t), NEW r, Mirrors(r, t.store), NEW n \in Tables, NEW table, NEW e, NEW f,
         NEW u, u = Emit(With(t, n, table), e),
         NEW v, v = Emit(With(r, n, table), f)
  PROVE Mirrors(v, u.store) /\ v.events = Append(r.events, f)
<1>1. IsTxn(r) /\ r.store = t.store /\ r.error = NONE
  BY DEF Mirrors
<1>2. /\ IsTxn(u) /\ u.store[n] = table /\ \A m \in Tables \ {n} : u.store[m] = t.store[m]
  BY OneTable
<1>3. /\ IsTxn(v) /\ v.store[n] = table /\ \A m \in Tables \ {n} : v.store[m] = r.store[m]
      /\ v.error = NONE /\ v.events = Append(r.events, f)
  BY <1>1, OneTable
<1>4. \A m \in Tables : v.store[m] = u.store[m]
  BY <1>1, <1>2, <1>3
<1>5. v.store = u.store
  BY <1>2, <1>3, <1>4, SameStore DEF IsTxn
<1>6. QED
  BY <1>3, <1>5 DEF Mirrors

\* A replay that puts the same table, in silence.
LEMMA MirrorWith ==
  ASSUME NEW t, IsTxn(t), NEW r, Mirrors(r, t.store), NEW n \in Tables, NEW table, NEW e,
         NEW u, u = Emit(With(t, n, table), e),
         NEW v, v = With(r, n, table)
  PROVE Mirrors(v, u.store)
<1>a. PICK s : s = [t.store EXCEPT ![n] = table]
  OBVIOUS
<1>1. IsTxn(r) /\ r.store = t.store /\ r.error = NONE
  BY DEF Mirrors
<1>2. /\ IsTxn(u) /\ u.store[n] = table /\ \A m \in Tables \ {n} : u.store[m] = t.store[m]
  BY OneTable
<1>3. Shaped(s) /\ s[n] = table /\ \A m \in Tables \ {n} : s[m] = t.store[m]
  <2>1. Shaped(t.store)
    BY DEF IsTxn
  <2>2. Replaced(t.store, n, table, s)
    BY <1>a, <2>1, ReplaceTable
  <2>3. QED
    BY <2>2 DEF Replaced
<1>4. \A m \in Tables : s[m] = u.store[m]
  BY <1>2, <1>3
<1>5. s = u.store
  BY <1>2, <1>3, <1>4, SameStore DEF IsTxn
<1>6. v = [r EXCEPT !.store = s]
  BY <1>1, <1>a DEF With
<1>7. Mirrors(v, s)
  BY <1>1, <1>3, <1>6, MirrorStore
<1>8. QED
  BY <1>5, <1>7

\* The last event of a transaction that emitted one.
LEMMA LastIs ==
  ASSUME NEW E, IsList(E), NEW e
  PROVE Last(Append(E, e)) = e
BY AppendToList DEF Last

\* A registered source, an inserted claim and a filed conflict are told by one
\* event each.
LEMMA RegisterSourceTold ==
  ASSUME NEW t, IsTxn(t), t.error = NONE, NEW op,
         NEW u, u = RegisterSource(t, op), u.error = NONE
  PROVE Retold(t, u)
<1>a. PICK e : e = [type |-> "SOURCE_REVISION_REGISTERED",
                    source |-> op.source, content |-> op.content]
  OBVIOUS
<1>b. PICK table : table = Put(t.store.sources, op.source, op.content)
  OBVIOUS
<1>1. /\ u = Emit(With(t, "sources", table), e)
      /\ ~ (op.source \in DOMAIN t.store.sources /\ t.store.sources[op.source] # op.content)
  BY <1>a, <1>b DEF With, RegisterSource, Fail, IsTxn, NONE, INVALID
<1>2. e.type = "SOURCE_REVISION_REGISTERED" /\ e.source = op.source /\ e.content = op.content
      /\ e = [type |-> "SOURCE_REVISION_REGISTERED", source |-> e.source, content |-> e.content]
  BY <1>a
<1>3. "sources" \in Tables
  BY DEF Tables
<1>4. ASSUME NEW r, Mirrors(r, t.store) PROVE Mirrors(ReplayEvent(r, e), u.store)
  <2>1. r.store = t.store /\ r.error = NONE
    BY <1>4 DEF Mirrors
  <2>2. RegisterSource(r, e) = Emit(With(r, "sources", table), e)
    BY <1>1, <1>2, <1>b, <2>1 DEF RegisterSource, With
  <2>3. ReplayEvent(r, e) = RegisterSource(r, e)
    BY <1>2, <2>1 DEF ReplayEvent
  <2>4. QED
    BY <1>1, <1>3, <1>4, <2>2, <2>3, MirrorTable
<1>5. u.events = Append(t.events, e)
  BY <1>1, <1>3, OneTable
<1>6. QED
  BY <1>4, <1>5, Told

LEMMA InsertClaimTold ==
  ASSUME NEW t, IsTxn(t), Rows(t.store), t.error = NONE, NEW claim, NEW links,
         NEW v, v = InsertClaim(t, claim, links), v.error = NONE,
         NEW e, e = [type |-> "CLAIM_ASSERTED", claim |-> claim, evidence |-> links],
         NEW w, w = Emit(v, e)
  PROVE Retold(t, w)
<1>a. PICK s : s = InsertEvidence([t.store EXCEPT !.claims = Put(t.store.claims, claim, NewClaim)], links)
  OBVIOUS
<1>1. /\ claim \in DOMAIN Claim /\ Claim[claim].wellFormed
      /\ ~ (Cardinality(links) < MinEvidence)
      /\ claim \notin DOMAIN t.store.claims
      /\ ~ \E l \in links : ~EvidenceFits(t.store, l, claim)
  BY DEF InsertClaim, Fail, IsTxn, NONE, INVALID
<1>2. ASSUME NEW r, r.store = t.store
      PROVE InsertClaim(r, claim, links) = [r EXCEPT !.store = s]
  BY <1>1, <1>2, <1>a DEF InsertClaim, NewClaim
<1>3. v = [t EXCEPT !.store = s]
  BY <1>2
<1>4. IsTxn(v) /\ v.events = t.events
  BY InsertClaimDoes DEF Inserts
<1>5. v.store = s /\ Shaped(s)
  BY <1>3, <1>4 DEF IsTxn
<1>6. IsTxn(w) /\ w.store = s /\ w.events = Append(t.events, e)
  <2>1. w = Emit([store |-> v.store, events |-> v.events, opened |-> v.opened, error |-> v.error], e)
    BY <1>4 DEF IsTxn
  <2>2. IsTxn(w) /\ Moved(v, w, s, e)
    BY <1>4, <1>5, <2>1, EmitIs
  <2>3. QED
    BY <1>4, <2>2 DEF Moved
<1>7. ASSUME NEW r, Mirrors(r, t.store) PROVE Mirrors(ReplayEvent(r, e), w.store)
  <2>1. r.store = t.store /\ r.error = NONE /\ IsTxn(r)
    BY <1>7 DEF Mirrors
  <2>2. e.type = "CLAIM_ASSERTED" /\ e.claim = claim /\ e.evidence = links
    OBVIOUS
  <2>3. ReplayEvent(r, e) = InsertClaim(r, claim, links)
    BY <2>1, <2>2 DEF ReplayEvent
  <2>4. ReplayEvent(r, e) = [r EXCEPT !.store = s]
    BY <1>2, <2>1, <2>3
  <2>5. QED
    BY <1>5, <1>6, <2>1, <2>4, MirrorStore
<1>8. QED
  BY <1>6, <1>7, Told

LEMMA OpenConflictTold ==
  ASSUME NEW t, IsTxn(t), Rows(t.store), NEW claim, NEW others, NEW sort, NEW seq,
         others \cup {claim} \notin DOMAIN t.store.conflicts,
         NEW u, u = OpenConflict(t, claim, others, sort, seq), Founded(u.store)
  PROVE Retold(t, u)
<1>1. CASE others = {}
  <2>1. u = t
    BY <1>1 DEF OpenConflict
  <2>2. QED
    BY <2>1, RetoldReflexive
<1>2. CASE others # {}
  <2>a. PICK parties : parties = others \cup {claim}
    OBVIOUS
  <2>b. PICK key : key = OpenedRow(t.store, claim, parties, sort, seq)[1]
    OBVIOUS
  <2>c. PICK val : val = OpenedRow(t.store, claim, parties, sort, seq)[2]
    OBVIOUS
  <2>d. PICK e : e = [type |-> "CONFLICT_OPENED", id |-> key, conflict |-> Document(val)]
    OBVIOUS
  <2>e. PICK old : old = t.store.conflicts
    OBVIOUS
  <2>f. PICK table : table = Put(old, key, val)
    OBVIOUS
  <2>1. Filed(t, u, key, val)
    BY <1>2, <2>a, <2>b, <2>c, OpenConflictIs
  <2>2. /\ IsTxn(u) /\ u.events = Append(t.events, e) /\ u.store.conflicts = table
        /\ \A m \in Tables \ {"conflicts"} : u.store[m] = t.store[m]
    BY <2>1, <2>d, <2>e, <2>f DEF Filed
  <2>3. /\ val = [f \in Fields["conflicts"] |-> val[f]]
        /\ val.version = IF key \in DOMAIN old THEN old[key].version + 1 ELSE 1
    <3>1. parties \notin DOMAIN t.store.conflicts
      BY <2>a
    <3>2. QED
      BY <2>b, <2>c, <2>e, <3>1, OpenedRowTells
  <2>4. "conflicts" \in Tables /\ u.store.claims = t.store.claims
    BY <2>2 DEF Tables
  <2>5. /\ val.members \subseteq DOMAIN t.store.claims
        /\ {Claim[c].family : c \in val.members} = {val.family}
    <3>1. key \in DOMAIN table /\ table[key] = val
      BY <2>f DEF Put
    <3>2. QED
      BY <2>2, <2>4, <3>1 DEF Founded
  <2>6. ASSUME NEW r, Mirrors(r, t.store) PROVE Mirrors(ReplayEvent(r, e), u.store)
    <3>1. r.store = t.store /\ r.error = NONE /\ IsTxn(r)
      BY <2>6 DEF Mirrors
    <3>2. e.type = "CONFLICT_OPENED" /\ e.id = key /\ e.conflict = Document(val)
      BY <2>d
    <3>3. ReplayEvent(r, e) = ReplayOpenConflict(r, e)
      BY <3>1, <3>2 DEF ReplayEvent
    <3>a. PICK doc : doc = Document(val)
      OBVIOUS
    <3>4. /\ DOMAIN doc = Fields["conflicts"] \ {"version"}
          /\ \A f \in DOMAIN doc : doc[f] = val[f]
          /\ doc.members = val.members /\ doc.family = val.family
      BY <3>a DEF Document, Fields
    <3>b. PICK row : row = [f \in DOMAIN doc \cup {"version"} |->
                              IF f # "version" THEN doc[f]
                              ELSE IF key \in DOMAIN old THEN old[key].version + 1 ELSE 1]
      OBVIOUS
    <3>5. row = val
      <4>1. DOMAIN doc \cup {"version"} = Fields["conflicts"]
        BY <3>4 DEF Fields
      <4>2. row = [f \in Fields["conflicts"] |-> IF f # "version" THEN doc[f]
                              ELSE IF key \in DOMAIN old THEN old[key].version + 1 ELSE 1]
        BY <3>b, <4>1
      <4>3. \A f \in Fields["conflicts"] : row[f] = val[f]
        BY <2>3, <3>4, <4>2
      <4>4. row = [f \in Fields["conflicts"] |-> row[f]]
        BY <4>2
      <4>5. QED
        BY <2>3, <4>3, <4>4
    <3>6. ReplayOpenConflict(r, e) = [r EXCEPT !.store.conflicts = Put(old, key, row)]
      BY <2>5, <2>e, <3>1, <3>2, <3>4, <3>a, <3>b DEF ReplayOpenConflict
    <3>c. PICK s : s = [t.store EXCEPT !["conflicts"] = table]
      OBVIOUS
    <3>7. ReplayEvent(r, e) = [r EXCEPT !.store = s]
      BY <2>f, <3>1, <3>3, <3>5, <3>6, <3>c
    <3>8. Shaped(s) /\ s["conflicts"] = table /\ \A m \in Tables \ {"conflicts"} : s[m] = t.store[m]
      <4>1. Shaped(t.store)
        BY DEF IsTxn
      <4>2. Replaced(t.store, "conflicts", table, s)
        BY <2>4, <3>c, <4>1, ReplaceTable
      <4>3. QED
        BY <4>2 DEF Replaced
    <3>9. s = u.store
      <4>1. \A m \in Tables : s[m] = u.store[m]
        BY <2>2, <3>8
      <4>2. QED
        BY <2>2, <3>8, <4>1, SameStore DEF IsTxn
    <3>10. Mirrors(ReplayEvent(r, e), s)
      BY <3>1, <3>7, <3>8, MirrorStore
    <3>11. QED
      BY <3>9, <3>10
  <2>7. QED
    BY <2>2, <2>6, Told
<1>3. QED
  BY <1>1, <1>2
LEMMA KindIs ==
  ASSUME NEW x, NEW y
  PROVE ConflictKind(x, y) \in {NONE, "POLARITY_CONFLICT", "EXCLUSIVE_VALUE_CONFLICT"}
BY DEF ConflictKind

\* Claims of one family contradict each other, or neither does.
LEMMA KindSymmetric ==
  ASSUME NEW x \in DOMAIN Claim, NEW y \in DOMAIN Claim, Claim[x].family = Claim[y].family
  PROVE ConflictKind(Claim[x], Claim[y]) = ConflictKind(Claim[y], Claim[x])
<1>1. Overlaps(Claim[x], Claim[y]) <=> Overlaps(Claim[y], Claim[x])
  BY ClaimAssumption DEF Overlaps
<1>2. QED
  BY <1>1 DEF ConflictKind

\* A claim that came in is the only one that became active.
LEMMA ActiveWithClaim ==
  ASSUME NEW s, NEW r, NEW claim, claim \notin DOMAIN s.claims,
         r.claims = Put(s.claims, claim, NewClaim)
  PROVE Active(r) = Active(s) \cup {claim} /\ Active(s) \subseteq DOMAIN s.claims
<1>1. /\ DOMAIN r.claims = DOMAIN s.claims \cup {claim}
      /\ r.claims[claim].status = "ACTIVE"
      /\ \A c \in DOMAIN s.claims : r.claims[c] = s.claims[c]
  <2>a. PICK old : old = s.claims
    OBVIOUS
  <2>b. PICK new : new = r.claims
    OBVIOUS
  <2>c. PICK row : row = NewClaim
    OBVIOUS
  <2>1. new = Put(old, claim, row)
    BY <2>a, <2>b, <2>c
  <2>2. DOMAIN new = DOMAIN old \cup {claim} /\ new[claim] = row /\ \A k \in DOMAIN old : new[k] = old[k]
    BY <2>1, <2>a DEF Put
  <2>3. row.status = "ACTIVE"
    BY <2>c DEF NewClaim
  <2>4. QED
    BY <2>2, <2>3, <2>a, <2>b
<1>2. QED
  BY <1>1 DEF Active

\* The claims an incoming one contradicts.
Rivals(s, claim, ignored) ==
  {c \in ActiveFamily(s, Claim[claim].family) \ (ignored \cup {claim}) :
     ConflictKind(Claim[claim], Claim[c]) # NONE}

LEMMA RivalsAre ==
  ASSUME NEW s, NEW r, NEW claim, claim \notin DOMAIN s.claims, NEW ignored,
         r.claims = Put(s.claims, claim, NewClaim)
  PROVE LET X == Against(r, claim, ignored, "EXCLUSIVE_VALUE_CONFLICT")
            P == Against(r, claim, ignored, "POLARITY_CONFLICT")
        IN /\ X \cup P = Rivals(s, claim, ignored) /\ X \cap P = {}
           /\ claim \notin X \cup P /\ X \cup P \subseteq DOMAIN s.claims
           /\ \A c \in X \cup P : Claim[c].family = Claim[claim].family
<1>2. Active(r) = Active(s) \cup {claim} /\ Active(s) \subseteq DOMAIN s.claims
  BY ActiveWithClaim
<1>3. ActiveFamily(r, Claim[claim].family) \ (ignored \cup {claim})
        = ActiveFamily(s, Claim[claim].family) \ (ignored \cup {claim})
  BY <1>2 DEF ActiveFamily
<1>4. "EXCLUSIVE_VALUE_CONFLICT" # NONE /\ "POLARITY_CONFLICT" # NONE
  BY DEF NONE
<1>5. \A c : ConflictKind(Claim[claim], Claim[c])
               \in {NONE, "POLARITY_CONFLICT", "EXCLUSIVE_VALUE_CONFLICT"}
  BY KindIs
<1>6. QED
  BY <1>2, <1>3, <1>4, <1>5 DEF Against, Rivals, ActiveFamily

\* What the assertion of a claim leaves behind: it is active, in the conflicts
\* it has opened with its rivals, and in no other.
AssertedIn(E) == {E[i].claim : i \in {j \in DOMAIN E : E[j].type = "CLAIM_ASSERTED"}}
Asserted(t, u, claim, ignored) ==
  /\ Follows(t, u) /\ u.error = NONE /\ Founded(u.store) /\ Retold(t, u)
  /\ claim \in DOMAIN Claim /\ claim \notin DOMAIN t.store.claims
  /\ u.store.claims = Put(t.store.claims, claim, NewClaim)
  /\ Grown(t.store.conflicts, u.store.conflicts)
  /\ \A k \in DOMAIN u.store.conflicts :
       k \in DOMAIN t.store.conflicts \/ k \subseteq DOMAIN u.store.claims
  /\ \A c \in Rivals(t.store, claim, ignored) :
       \E k \in DOMAIN u.store.conflicts :
         /\ u.store.conflicts[k].status = "OPEN"
         /\ {c, claim} \subseteq u.store.conflicts[k].members
  /\ \A k \in u.opened :
       \/ k \in t.opened
       \/ /\ k \in DOMAIN u.store.conflicts
          /\ u.store.conflicts[k].family = Claim[claim].family
          /\ Rivals(t.store, claim, ignored) # {}
  /\ claim \in AssertedIn(u.events)

\* The two openings of an assertion: of exclusive values, then of polarities.
Records == {"sources", "decisions", "questions", "work"}
InTwoSteps(t, u, claim, ignored, seq) ==
  \E w, x :
    LET X == Against(w.store, claim, ignored, "EXCLUSIVE_VALUE_CONFLICT")
        P == Against(w.store, claim, ignored, "POLARITY_CONFLICT")
    IN /\ IsTxn(w) /\ Rows(w.store) /\ w.opened = t.opened /\ Elsewhere(t, w)
       /\ w.store.claims = Put(t.store.claims, claim, NewClaim)
       /\ w.store.conflicts = t.store.conflicts
       /\ X \cup {claim} \notin DOMAIN w.store.conflicts
       /\ x = OpenConflict(w, claim, X, "EXCLUSIVE_VALUE_CONFLICT", seq)
       /\ IsTxn(x) /\ Rows(x.store)
       /\ P \cup {claim} \notin DOMAIN x.store.conflicts
       /\ u = OpenConflict(x, claim, P, "POLARITY_CONFLICT", seq)
       /\ \A n \in Records : u.store[n] = t.store[n]

LEMMA AssertClaimDoes ==
  ASSUME NEW t, IsTxn(t), Rows(t.store), t.error = NONE,
         \A k \in DOMAIN t.store.conflicts : k \subseteq DOMAIN t.store.claims,
         Founded(t.store),
         NEW claim, NEW links, NEW ignored, NEW seq,
         NEW u, u = AssertClaim(t, claim, links, ignored, seq), u.error = NONE
  PROVE Asserted(t, u, claim, ignored) /\ InTwoSteps(t, u, claim, ignored, seq)
<1>a. PICK v : v = InsertClaim(t, claim, links)
  OBVIOUS
<1>b. PICK e : e = [type |-> "CLAIM_ASSERTED", claim |-> claim, evidence |-> links]
  OBVIOUS
<1>c. PICK w : w = Emit(v, e)
  OBVIOUS
<1>d. PICK X : X = Against(w.store, claim, ignored, "EXCLUSIVE_VALUE_CONFLICT")
  OBVIOUS
<1>e. PICK P : P = Against(w.store, claim, ignored, "POLARITY_CONFLICT")
  OBVIOUS
<1>f. PICK x : x = OpenConflict(w, claim, X, "EXCLUSIVE_VALUE_CONFLICT", seq)
  OBVIOUS
<1>1. v.error = NONE
  BY <1>a DEF AssertClaim
<1>2. u = OpenConflict(x, claim, P, "POLARITY_CONFLICT", seq)
  <2>1. u = OpenConflicts(w, claim, ignored, seq)
    BY <1>a, <1>b, <1>c, <1>1 DEF AssertClaim
  <2>2. QED
    BY <2>1, <1>d, <1>e, <1>f DEF OpenConflicts
<1>3. Inserts(t, v, claim)
  BY <1>a, <1>1, InsertClaimDoes
<1>4. IsTxn(v) /\ Rows(v.store) /\ Later(t.store, v.store) /\ v.events = t.events
      /\ v.opened = t.opened /\ Shaped(v.store)
  BY <1>3 DEF Inserts, IsTxn
<1>5. /\ IsTxn(w) /\ w.store = v.store /\ w.events = Append(t.events, e)
      /\ w.error = NONE /\ w.opened = t.opened /\ Extends(t.events, w.events)
  <2>1. w = Emit([store |-> v.store, events |-> v.events, opened |-> v.opened, error |-> v.error], e)
    BY <1>c, <1>4 DEF IsTxn
  <2>2. IsTxn(w) /\ Moved(v, w, v.store, e) /\ w.opened = v.opened /\ Extends(v.events, w.events)
    BY <1>4, <2>1, EmitIs
  <2>3. QED
    BY <1>1, <1>4, <2>2 DEF Moved
<1>6. Follows(t, w)
  BY <1>4, <1>5 DEF Follows
<1>7. claim \in AssertedIn(w.events)
  <2>1. IsList(t.events)
    BY DEF IsTxn
  <2>2. /\ IsList(w.events) /\ Len(w.events) = Len(t.events) + 1 /\ Len(t.events) \in Nat
        /\ w.events[Len(t.events) + 1] = e
    BY <1>5, <2>1, AppendToList DEF IsList
  <2>3. DOMAIN w.events = 1 .. Len(w.events)
    BY <2>2 DEF IsList
  <2>4. Len(t.events) + 1 \in DOMAIN w.events
    BY <2>2, <2>3
  <2>5. e.type = "CLAIM_ASSERTED" /\ e.claim = claim
    BY <1>b
  <2>6. QED
    BY <2>2, <2>4, <2>5 DEF AssertedIn
<1>8. claim \in DOMAIN Claim /\ claim \notin DOMAIN t.store.claims
      /\ w.store.claims = Put(t.store.claims, claim, NewClaim)
      /\ DOMAIN w.store.claims = DOMAIN t.store.claims \cup {claim}
  BY <1>3, <1>5 DEF Inserts, Put
<1>9. w.store.conflicts = t.store.conflicts
  BY <1>3, <1>5 DEF Inserts, Tables
<1>10. /\ X \cup P = Rivals(t.store, claim, ignored) /\ X \cap P = {}
       /\ claim \notin X \cup P /\ X \cup P \subseteq DOMAIN t.store.claims
       /\ \A c \in X \cup P : Claim[c].family = Claim[claim].family
  BY <1>8, <1>d, <1>e, RivalsAre
<1>9a. X \cup {claim} \notin DOMAIN w.store.conflicts
  BY <1>8, <1>9
<1>11. FilesClaim(w, x, claim, X)
  <2>1. Rows(w.store)
    BY <1>6 DEF Follows
  <2>2. QED
    BY <1>f, <1>5, <1>9a, <2>1, OpenConflictDoes
<1>12. /\ IsTxn(x) /\ Rows(x.store) /\ x.error = NONE
       /\ Grown(w.store.conflicts, x.store.conflicts) /\ Follows(w, x)
       /\ x.store.claims = w.store.claims
  BY <1>11, <1>5 DEF FilesClaim, Follows, Tables
<1>13. /\ DOMAIN x.store.conflicts \subseteq DOMAIN w.store.conflicts \cup {X \cup {claim}}
       /\ X = {} => x = w
  BY <1>11 DEF FilesClaim
<1>13a. P \cup {claim} \notin DOMAIN x.store.conflicts
  <2>1. P \cup {claim} \notin DOMAIN w.store.conflicts
    BY <1>8, <1>9
  <2>2. CASE X = {}
    BY <1>13, <2>1, <2>2
  <2>3. CASE X # {}
    <3>1. P \cup {claim} # X \cup {claim}
      BY <1>10, <2>3
    <3>2. QED
      BY <3>1, <2>1, <1>13
  <2>4. QED
    BY <2>2, <2>3
<1>14. FilesClaim(x, u, claim, P)
  BY <1>2, <1>12, <1>13a, OpenConflictDoes
<1>15. /\ Follows(x, u) /\ Grown(x.store.conflicts, u.store.conflicts)
       /\ u.store.claims = w.store.claims
       /\ DOMAIN u.store.conflicts \subseteq DOMAIN x.store.conflicts \cup {P \cup {claim}}
       /\ DOMAIN x.store.conflicts \subseteq DOMAIN u.store.conflicts
  BY <1>12, <1>14 DEF FilesClaim, Tables
<1>16. Follows(t, u)
  <2>1. Follows(t, x)
    BY <1>6, <1>12, FollowsTransitive
  <2>2. QED
    BY <2>1, <1>15, FollowsTransitive
<1>17. Grown(t.store.conflicts, u.store.conflicts)
  BY <1>9, <1>12, <1>15, GrownTransitive
<1>18. ASSUME NEW k \in DOMAIN u.store.conflicts
       PROVE k \in DOMAIN t.store.conflicts \/ k \subseteq DOMAIN u.store.claims
  <2>1. X \cup {claim} \subseteq DOMAIN u.store.claims /\ P \cup {claim} \subseteq DOMAIN u.store.claims
    BY <1>8, <1>10, <1>15
  <2>2. k \in DOMAIN t.store.conflicts \/ k = X \cup {claim} \/ k = P \cup {claim}
    BY <1>9, <1>13, <1>15
  <2>3. QED
    BY <2>1, <2>2
<1>19. ASSUME NEW c \in Rivals(t.store, claim, ignored)
       PROVE \E k \in DOMAIN u.store.conflicts :
               /\ u.store.conflicts[k].status = "OPEN"
               /\ {c, claim} \subseteq u.store.conflicts[k].members
  <2>1. CASE c \in X
    <3>1. PICK k \in DOMAIN x.store.conflicts :
            x.store.conflicts[k].status = "OPEN" /\ X \cup {claim} \subseteq x.store.conflicts[k].members
      BY <1>11, <2>1 DEF FilesClaim
    <3>2. /\ k \in DOMAIN u.store.conflicts /\ u.store.conflicts[k].status = "OPEN"
          /\ x.store.conflicts[k].members \subseteq u.store.conflicts[k].members
      BY <1>15, <3>1 DEF Grown
    <3>3. QED
      BY <2>1, <3>1, <3>2
  <2>2. CASE c \in P
    <3>1. PICK k \in DOMAIN u.store.conflicts :
            u.store.conflicts[k].status = "OPEN" /\ P \cup {claim} \subseteq u.store.conflicts[k].members
      BY <1>14, <2>2 DEF FilesClaim
    <3>2. QED
      BY <2>2, <3>1
  <2>3. QED
    BY <1>10, <2>1, <2>2
<1>20. ASSUME NEW k \in u.opened, k \notin t.opened
       PROVE /\ k \in DOMAIN u.store.conflicts
             /\ u.store.conflicts[k].family = Claim[claim].family
             /\ Rivals(t.store, claim, ignored) # {}
  <2>1. CASE k \in x.opened
    <3>1. X # {}
      BY <1>5, <1>13, <1>20, <2>1
    <3>2. k \in DOMAIN x.store.conflicts /\ x.store.conflicts[k].family = Claim[claim].family
      BY <1>5, <1>11, <1>20, <2>1, <3>1 DEF FilesClaim
    <3>3. QED
      BY <1>10, <1>15, <3>1, <3>2 DEF Grown
  <2>2. CASE k \notin x.opened
    <3>1. P # {}
      BY <1>14, <2>2 DEF FilesClaim
    <3>2. k \in DOMAIN u.store.conflicts /\ u.store.conflicts[k].family = Claim[claim].family
      BY <1>14, <2>2, <3>1 DEF FilesClaim
    <3>3. QED
      BY <1>10, <3>1, <3>2
  <2>3. QED
    BY <2>1, <2>2
<1>21. claim \in AssertedIn(u.events)
  <2>1. Extends(w.events, u.events)
    BY <1>12, <1>15 DEF Follows, Extends
  <2>2. QED
    BY <1>7, <2>1 DEF AssertedIn, Extends
<1>22. Founded(x.store) /\ Founded(u.store)
  <2>1. Founded(w.store)
    BY <1>8, <1>9 DEF Founded
  <2>2. X \cup {claim} \subseteq DOMAIN w.store.claims /\ P \cup {claim} \subseteq DOMAIN x.store.claims
    BY <1>8, <1>10, <1>12
  <2>3. Founded(x.store)
    BY <1>10, <1>11, <2>1, <2>2 DEF FilesClaim
  <2>4. Founded(u.store)
    BY <1>10, <1>14, <2>2, <2>3 DEF FilesClaim
  <2>5. QED
    BY <2>3, <2>4
<1>23. Retold(t, u)
  <2>1. Retold(t, w)
    BY <1>a, <1>b, <1>c, <1>1, InsertClaimTold
  <2>2. Retold(w, x)
    BY <1>f, <1>5, <1>6, <1>9a, <1>22, OpenConflictTold DEF Follows
  <2>3. Retold(x, u)
    BY <1>2, <1>12, <1>13a, <1>22, OpenConflictTold
  <2>4. Extends(w.events, x.events) /\ Extends(x.events, u.events)
    BY <1>12, <1>15 DEF Follows
  <2>5. Retold(w, u)
    BY <2>2, <2>3, <2>4, RetoldTransitive
  <2>6. Extends(w.events, u.events)
    BY <2>4 DEF Extends
  <2>7. QED
    BY <2>1, <2>5, <2>6, RetoldTransitive
<1>24. Asserted(t, u, claim, ignored)
  BY <1>23, <1>22, <1>8, <1>15, <1>16, <1>17, <1>18, <1>19, <1>20, <1>21 DEF Asserted
<1>25. InTwoSteps(t, u, claim, ignored, seq)
  <2>1. ASSUME NEW n \in Records PROVE u.store[n] = t.store[n]
    <3>1. n \in Tables \ {"claims", "evidence"} /\ n \in Tables \ {"conflicts"}
      BY DEF Tables, Records
    <3>2. QED
      BY <3>1, <1>3, <1>5, <1>11, <1>14 DEF Inserts, FilesClaim
  <2>2. Rows(w.store)
    BY <1>6 DEF Follows
  <2>3. Elsewhere(t, w)
    <3>1. e.type \notin AboutConflicts
      BY <1>b DEF AboutConflicts
    <3>2. QED
      BY <3>1, <1>5, <1>9 DEF Elsewhere
  <2>4. QED
    BY <2>1, <2>2, <2>3, <1>2, <1>5, <1>8, <1>9, <1>9a, <1>12, <1>13a, <1>d, <1>e, <1>f DEF InTwoSteps
<1>26. QED
  BY <1>24, <1>25

\* A closed claim is told by one event.
LEMMA CloseTold ==
  ASSUME NEW t, IsTxn(t), NEW target \in Active(t.store), NEW state, NEW by,
         NEW e, e.target = target,
         \A r : r.error = NONE => ReplayEvent(r, e) = ReplayClose(r, e, state, by),
         NEW u, u = Emit([t EXCEPT !.store = Close(t.store, target, state, by)], e)
  PROVE Retold(t, u)
<1>a. PICK old : old = t.store.claims
  OBVIOUS
<1>b. PICK row : row = [status |-> state, version |-> old[target].version + 1, by |-> by]
  OBVIOUS
<1>c. PICK table : table = [old EXCEPT ![target] = row]
  OBVIOUS
<1>1. ASSUME NEW r, r.store = t.store
      PROVE [r EXCEPT !.store = Close(r.store, target, state, by)] = With(r, "claims", table)
  BY <1>1, <1>a, <1>b, <1>c DEF With, Close
<1>2. u = Emit(With(t, "claims", table), e)
  BY <1>1
<1>3. "claims" \in Tables
  BY DEF Tables
<1>4. ASSUME NEW r, Mirrors(r, t.store) PROVE Mirrors(ReplayEvent(r, e), u.store)
  <2>1. r.store = t.store /\ r.error = NONE
    BY <1>4 DEF Mirrors
  <2>2. ReplayEvent(r, e) = [r EXCEPT !.store = Close(r.store, target, state, by)]
    BY <2>1 DEF ReplayClose, IsActive
  <2>3. ReplayEvent(r, e) = With(r, "claims", table)
    BY <1>1, <2>1, <2>2
  <2>a. PICK v : v = With(r, "claims", table)
    OBVIOUS
  <2>4. Mirrors(v, u.store)
    BY <1>2, <1>3, <1>4, <2>a, MirrorWith
  <2>5. QED
    BY <2>3, <2>4, <2>a
<1>d. PICK w : w = With(t, "claims", table)
  OBVIOUS
<1>5. u.events = Append(t.events, e)
  <2>1. w.events = t.events /\ DOMAIN w = DOMAIN t /\ "events" \in DOMAIN t
    BY <1>d DEF With, IsTxn
  <2>2. u = Emit(w, e)
    BY <1>2, <1>d
  <2>3. QED
    BY <2>1, <2>2 DEF Emit
<1>6. QED
  BY <1>4, <1>5, Told

\* A group of claims was decided upon by a resolution.
DecidedIn(E, group) ==
  \E i \in DOMAIN E :
    /\ E[i].type = "CONFLICT_RESOLVED"
    /\ \E r \in E[i].resolution : group \subseteq r.selected \cup r.rejected

\* What an operation does that lets no claim in: a conflict stays open, unless
\* its members are decided upon.
Quiet(t, u) ==
  /\ Follows(t, u) /\ u.opened = t.opened
  /\ DOMAIN u.store.claims = DOMAIN t.store.claims
  /\ Active(u.store) \subseteq Active(t.store)
  /\ DOMAIN u.store.conflicts = DOMAIN t.store.conflicts
  /\ \A k \in DOMAIN t.store.conflicts :
       LET old == t.store.conflicts[k]
           new == u.store.conflicts[k]
       IN /\ new.family = old.family /\ new.kind = old.kind /\ new.members = old.members
          /\ old.status = "OPEN" => \/ new.status = "OPEN"
                                    \/ DecidedIn(u.events, old.members)

LEMMA ElsewhereIsQuiet ==
  ASSUME NEW t, NEW u, NEW n \in Tables \ {"claims", "conflicts"}, FollowsIn(n, t, u)
  PROVE Quiet(t, u)
<1>1. u.store.claims = t.store.claims /\ u.store.conflicts = t.store.conflicts
  BY DEF FollowsIn, Tables
<1>2. Active(u.store) = Active(t.store)
  BY <1>1 DEF Active
<1>3. QED
  BY <1>1, <1>2 DEF Quiet, FollowsIn

\* An operation on claims or conflicts that lets no claim in, and only some out.
Lets(t, u, out) ==
  /\ Active(u.store) = Active(t.store) \ out
  /\ \A n \in Records : u.store[n] = t.store[n]

\* A claim is closed.
Closes(t, u, target) ==
  /\ Quiet(t, u) /\ u.error = t.error /\ Lets(t, u, {target})
  /\ Bumped(t.store.claims, u.store.claims, target)

LEMMA CloseDoes ==
  ASSUME NEW t, IsTxn(t), Rows(t.store), NEW target \in DOMAIN t.store.claims,
         NEW state, state # "ACTIVE", NEW by, NEW e,
         NEW u, u = Emit([t EXCEPT !.store = Close(t.store, target, state, by)], e)
  PROVE Closes(t, u, target)
<1>a. PICK old : old = t.store.claims
  OBVIOUS
<1>b. PICK row : row = [status |-> state, version |-> old[target].version + 1, by |-> by]
  OBVIOUS
<1>c. PICK table : table = [old EXCEPT ![target] = row]
  OBVIOUS
<1>1. u = Emit(With(t, "claims", table), e)
  BY <1>a, <1>b, <1>c DEF With, Close
<1>2. "claims" \in Tables /\ "claims" \in Aggregates
  BY DEF Tables, Aggregates
<1>3. IsTable("claims", old)
  BY <1>2, <1>a DEF Rows
<1>4. DOMAIN row = Fields["claims"] /\ row.version = old[target].version + 1
      /\ row.status = state
  BY <1>b DEF Fields
<1>5. /\ IsTable("claims", table) /\ LaterTable(old, table) /\ Bumped(old, table, target)
      /\ DOMAIN table = DOMAIN old
      /\ table[target] = row /\ \A k \in DOMAIN old \ {target} : table[k] = old[k]
  <2>1. target \in DOMAIN old
    BY <1>a
  <2>2. QED
    BY <1>3, <1>4, <1>c, <2>1, ChangeRow
<1>6. FollowsIn("claims", t, u) /\ u.store.claims = table /\ u.error = t.error
  BY <1>1, <1>2, <1>5, <1>a, NewTable
<1>7. u.store.conflicts = t.store.conflicts
  BY <1>6 DEF FollowsIn, Tables
<1>8. Active(u.store) = Active(t.store) \ {target}
  BY <1>4, <1>5, <1>6, <1>a DEF Active
<1>11. Lets(t, u, {target})
  BY <1>6, <1>8 DEF Lets, FollowsIn, Tables, Records
<1>9. Quiet(t, u)
  BY <1>5, <1>6, <1>7, <1>8, <1>a DEF Quiet, FollowsIn
<1>10. QED
  BY <1>5, <1>6, <1>9, <1>11, <1>a DEF Closes

LEMMA CloseIsElsewhere ==
  ASSUME NEW t, IsTxn(t), NEW target, NEW state, NEW by, NEW e, e.type \notin AboutConflicts,
         NEW u, u = Emit([t EXCEPT !.store = Close(t.store, target, state, by)], e)
  PROVE Elsewhere(t, u)
<1>a. PICK row : row = [status |-> state, version |-> t.store.claims[target].version + 1, by |-> by]
  OBVIOUS
<1>b. PICK table : table = [t.store.claims EXCEPT ![target] = row]
  OBVIOUS
<1>1. u = Emit(With(t, "claims", table), e)
  BY <1>a, <1>b DEF With, Close
<1>2. "claims" \in Tables \ {"conflicts"}
  BY DEF Tables
<1>3. QED
  BY <1>1, <1>2, AnotherTable

LEMMA RetractClaimDoes ==
  ASSUME NEW t, IsTxn(t), Rows(t.store), t.error = NONE, NEW op, NEW who,
         NEW u, u = RetractClaim(t, op, who), u.error = NONE
  PROVE /\ Quiet(t, u) /\ Elsewhere(t, u) /\ Lets(t, u, {op.target})
        /\ Bumped(t.store.claims, u.store.claims, op.target)
<1>1. op.target \in DOMAIN t.store.claims
  BY DEF RetractClaim, Fail, IsTxn, NONE, CONFLICT, IsActive, Active
<1>2. u = Emit([t EXCEPT !.store = Close(t.store, op.target, "RETRACTED", NONE)],
               [type |-> "CLAIM_RETRACTED", target |-> op.target])
  BY DEF RetractClaim, Fail, IsTxn, NONE, CONFLICT, INVALID
<1>3. Closes(t, u, op.target)
  BY <1>1, <1>2, CloseDoes
<1>4. Elsewhere(t, u)
  <2>a. PICK e : e = [type |-> "CLAIM_RETRACTED", target |-> op.target]
    OBVIOUS
  <2>1. e.type \notin AboutConflicts
    BY <2>a DEF AboutConflicts
  <2>2. QED
    BY <1>2, <2>a, <2>1, CloseIsElsewhere
<1>5. QED
  BY <1>3, <1>4 DEF Closes

LEMMA ResolveConflictDoes ==
  ASSUME NEW t, IsTxn(t), Rows(t.store), t.error = NONE, NEW op, NEW who,
         NEW u, u = ResolveConflict(t, op, who), u.error = NONE
  PROVE /\ Quiet(t, u) /\ Lets(t, u, {})
        /\ Bumped(t.store.conflicts, u.store.conflicts, op.conflict)
<1>a. PICK old : old = t.store.conflicts
  OBVIOUS
<1>b. PICK k : k = op.conflict
  OBVIOUS
<1>c. PICK decision : decision = {[selected |-> op.selected, rejected |-> op.rejected]}
  OBVIOUS
<1>d. PICK row : row = [old[k] EXCEPT !.status = "RESOLVED", !.version = @ + 1,
                                      !.resolution = decision]
  OBVIOUS
<1>e. PICK e : e = [type |-> "CONFLICT_RESOLVED", id |-> k, resolution |-> decision]
  OBVIOUS
<1>f. PICK table : table = [old EXCEPT ![k] = row]
  OBVIOUS
<1>1. k \in DOMAIN old /\ op.selected \cup op.rejected = old[k].members
  BY <1>a, <1>b DEF ResolveConflict, Fail, IsTxn, NONE, CONFLICT, INVALID
<1>2. u = Emit(With(t, "conflicts", table), e)
  <2>1. u = Emit([t EXCEPT !.store.conflicts[k] = row], e)
    BY <1>a, <1>b, <1>c, <1>d, <1>e DEF ResolveConflict, Fail, IsTxn, NONE, CONFLICT, INVALID
  <2>2. [t EXCEPT !.store.conflicts[k] = row] = With(t, "conflicts", table)
    BY <1>a, <1>f DEF With
  <2>3. QED
    BY <2>1, <2>2
<1>3. "conflicts" \in Tables /\ "conflicts" \in Aggregates
  BY DEF Tables, Aggregates
<1>4. IsTable("conflicts", old)
  BY <1>3, <1>a DEF Rows
<1>5. /\ DOMAIN row = Fields["conflicts"] /\ row.version = old[k].version + 1
      /\ row.family = old[k].family /\ row.kind = old[k].kind /\ row.members = old[k].members
  <2>1. DOMAIN old[k] = Fields["conflicts"]
    BY <1>1, <1>4 DEF IsTable
  <2>2. QED
    BY <2>1, <1>d DEF Fields
<1>6. /\ IsTable("conflicts", table) /\ LaterTable(old, table) /\ Bumped(old, table, k)
      /\ DOMAIN table = DOMAIN old
      /\ table[k] = row /\ \A j \in DOMAIN old \ {k} : table[j] = old[j]
  BY <1>1, <1>4, <1>5, <1>f, ChangeRow
<1>7. FollowsIn("conflicts", t, u) /\ u.store.conflicts = table /\ u.events = Append(t.events, e)
  BY <1>2, <1>3, <1>6, <1>a, NewTable
<1>8. u.store.claims = t.store.claims /\ Active(u.store) = Active(t.store)
  BY <1>7 DEF FollowsIn, Tables, Active
<1>9. DecidedIn(u.events, old[k].members)
  <2>1. IsList(t.events)
    BY DEF IsTxn
  <2>2. /\ IsList(u.events) /\ Len(u.events) = Len(t.events) + 1 /\ Len(t.events) \in Nat
        /\ u.events[Len(t.events) + 1] = e
    BY <1>7, <2>1, AppendToList DEF IsList
  <2>3. Len(t.events) + 1 \in DOMAIN u.events
    BY <2>2 DEF IsList
  <2>a. PICK r : r = [selected |-> op.selected, rejected |-> op.rejected]
    OBVIOUS
  <2>4. /\ e.type = "CONFLICT_RESOLVED" /\ e.resolution = {r}
        /\ r.selected = op.selected /\ r.rejected = op.rejected
    BY <1>c, <1>e, <2>a
  <2>5. QED
    BY <1>1, <2>2, <2>3, <2>4 DEF DecidedIn
<1>10. Quiet(t, u)
  BY <1>5, <1>6, <1>7, <1>8, <1>9, <1>a, <1>b DEF Quiet, FollowsIn
<1>11. Lets(t, u, {})
  BY <1>7, <1>8 DEF Lets, FollowsIn, Tables, Records
<1>12. QED
  BY <1>6, <1>7, <1>10, <1>11, <1>a, <1>b

LEMMA AttachEvidenceDoes ==
  ASSUME NEW t, IsTxn(t), Rows(t.store), t.error = NONE, NEW op,
         NEW u, u = AttachEvidence(t, op), u.error = NONE
  PROVE Quiet(t, u) /\ Elsewhere(t, u) /\ Lets(t, u, {})
<1>a. PICK claim : claim = Link[op.link].claim
  OBVIOUS
<1>b. PICK old : old = t.store.claims
  OBVIOUS
<1>c. PICK row : row = [old[claim] EXCEPT !.version = @ + 1]
  OBVIOUS
<1>d. PICK table : table = [old EXCEPT ![claim] = row]
  OBVIOUS
<1>e. PICK s1 : s1 = [t.store EXCEPT !["claims"] = table]
  OBVIOUS
<1>f. PICK s2 : s2 = InsertEvidence(s1, {op.link})
  OBVIOUS
<1>g. PICK e : e = [type |-> "EVIDENCE_ATTACHED", link |-> op.link]
  OBVIOUS
<1>1. claim \in DOMAIN old
  BY <1>a, <1>b DEF AttachEvidence, Fail, IsTxn, NONE, CONFLICT, INVALID, IsActive, Active
<1>2. u = Emit([t EXCEPT !.store = s2], e)
  <2>1. [t.store EXCEPT !.claims[claim] = row] = s1
    BY <1>b, <1>d, <1>e
  <2>2. u = Emit([t EXCEPT !.store = InsertEvidence([t.store EXCEPT !.claims[claim] = row], {op.link})], e)
    BY <1>a, <1>b, <1>c, <1>g DEF AttachEvidence, Fail, IsTxn, NONE, CONFLICT, INVALID
  <2>3. QED
    BY <2>1, <2>2, <1>f
<1>3. {"claims", "evidence"} \subseteq Tables /\ "claims" \in Aggregates /\ "evidence" \notin Aggregates
      /\ Aggregates \subseteq Tables
  BY DEF Tables, Aggregates
<1>4. Shaped(s1) /\ s1["claims"] = table /\ \A m \in Tables \ {"claims"} : s1[m] = t.store[m]
  <2>1. Shaped(t.store)
    BY DEF IsTxn
  <2>2. Replaced(t.store, "claims", table, s1)
    BY <1>3, <1>e, <2>1, ReplaceTable
  <2>3. QED
    BY <2>2 DEF Replaced
<1>5. Shaped(s2) /\ s2["claims"] = table /\ \A m \in Tables \ {"claims", "evidence"} : s2[m] = t.store[m]
  <2>1. \A s0, r, l : Shaped(s0) /\ r = InsertEvidence(s0, l)
                  => Shaped(r) /\ \A m \in Tables \ {"evidence"} : r[m] = s0[m]
    BY InsertEvidenceDoes
  <2>2. Shaped(s2)
    BY <1>4, <1>f, <2>1
  <2>3. ASSUME NEW m \in Tables \ {"evidence"} PROVE s2[m] = s1[m]
    <3>1. m \in Tables /\ m # "evidence"
      OBVIOUS
    <3>2. QED
      BY <1>4, <1>f, <2>1, <3>1
  <2>4. QED
    BY <1>3, <1>4, <2>2, <2>3
<1>6. /\ IsTxn(u) /\ u.store = s2 /\ u.opened = t.opened /\ Extends(t.events, u.events)
      /\ u.events = Append(t.events, e)
  <2>1. u = Emit([store |-> s2, events |-> t.events, opened |-> t.opened, error |-> t.error], e)
    BY <1>2 DEF IsTxn
  <2>2. IsTxn(u) /\ Moved(t, u, s2, e) /\ u.opened = t.opened /\ Extends(t.events, u.events)
    BY <1>5, <2>1, EmitIs
  <2>3. QED
    BY <2>2 DEF Moved
<1>7. IsTable("claims", old)
  BY <1>3, <1>b DEF Rows
<1>8. /\ DOMAIN row = Fields["claims"] /\ row.version = old[claim].version + 1
      /\ row.status = old[claim].status
  <2>1. DOMAIN old[claim] = Fields["claims"]
    BY <1>1, <1>7 DEF IsTable
  <2>2. QED
    BY <2>1, <1>c DEF Fields
<1>9. /\ IsTable("claims", table) /\ LaterTable(old, table)
      /\ DOMAIN table = DOMAIN old
      /\ table[claim] = row /\ \A k \in DOMAIN old \ {claim} : table[k] = old[k]
  BY <1>1, <1>7, <1>8, <1>d, ChangeRow
<1>10. ASSUME NEW n \in Aggregates
      PROVE IsTable(n, s2[n]) /\ LaterTable(t.store[n], s2[n])
  <2>1. CASE n = "claims"
    BY <1>5, <1>9, <1>b, <2>1
  <2>2. CASE n # "claims"
    <3>1. s2[n] = t.store[n] /\ IsTable(n, t.store[n])
      BY <1>3, <1>5, <2>2 DEF Rows
    <3>2. QED
      BY <3>1, LaterReflexive
  <2>3. QED
    BY <2>1, <2>2
<1>11. Follows(t, u)
  <2>1. Rows(s2) /\ Later(t.store, s2)
    BY <1>10 DEF Rows, Later
  <2>2. QED
    BY <2>1, <1>6 DEF Follows
<1>12. u.store.claims = table /\ u.store.conflicts = t.store.conflicts
  BY <1>5, <1>6 DEF Tables
<1>13. Active(u.store) = Active(t.store)
  BY <1>8, <1>9, <1>12, <1>b DEF Active
<1>14. Quiet(t, u)
  BY <1>6, <1>9, <1>11, <1>12, <1>13, <1>b DEF Quiet
<1>15. Lets(t, u, {})
  BY <1>5, <1>6, <1>13 DEF Lets, Records, Tables
<1>16. Elsewhere(t, u)
  <2>1. e.type \notin AboutConflicts
    BY <1>g DEF AboutConflicts
  <2>2. QED
    BY <2>1, <1>6, <1>12 DEF Elsewhere
<1>17. QED
  BY <1>14, <1>15, <1>16

-----------------------------------------------------------------------------
(* A transaction under way, from the store it began with.                  *)

\* Two active claims that contradict each other.
Contradictory(x, y) ==
  x # y /\ Claim[x].family = Claim[y].family /\ ConflictKind(Claim[x], Claim[y]) # NONE
\* Their contradiction shows, or was decided: before (it is in D), or since.
Handled(D, t, x, y) ==
  \/ <<x, y>> \in D
  \/ \E k \in DOMAIN t.store.conflicts :
       t.store.conflicts[k].status = "OPEN" /\ {x, y} \subseteq t.store.conflicts[k].members
  \/ DecidedIn(t.events, {x, y})

\* A family got a conflict because a claim of the transaction contradicts
\* another, or one that was active when it began.
Grounded(s, E, f) ==
  \E x \in AssertedIn(E), y \in Active(s) \cup AssertedIn(E) :
    Contradictory(x, y) /\ Claim[x].family = f

Kin(old, new) ==
  \A k \in DOMAIN old : k \in DOMAIN new /\ new[k].family = old[k].family

\* What holds between two operations; the contradictions of the claims that are
\* about to leave need not show.
Progress(s, D, t, leaving) ==
  /\ IsTxn(t) /\ Rows(t.store) /\ Later(s, t.store) /\ Founded(t.store)
  /\ DOMAIN t.store.claims \subseteq DOMAIN Claim
  /\ \A k \in DOMAIN t.store.conflicts : k \subseteq DOMAIN t.store.claims
  /\ Kin(s.conflicts, t.store.conflicts)
  /\ Active(t.store) \subseteq Active(s) \cup AssertedIn(t.events)
  /\ \A x, y \in Active(t.store) \ leaving : Contradictory(x, y) => Handled(D, t, x, y)
  /\ \A k \in t.opened : k \in DOMAIN t.store.conflicts
                         /\ Grounded(s, t.events, t.store.conflicts[k].family)

LEMMA EventsStay ==
  ASSUME NEW E, NEW F, Extends(E, F)
  PROVE /\ AssertedIn(E) \subseteq AssertedIn(F)
        /\ \A s, f : Grounded(s, E, f) => Grounded(s, F, f)
        /\ \A group : DecidedIn(E, group) => DecidedIn(F, group)
<1>1. AssertedIn(E) \subseteq AssertedIn(F)
  BY DEF AssertedIn, Extends
<1>2. \A s, f : Grounded(s, E, f) => Grounded(s, F, f)
  BY <1>1 DEF Grounded
<1>3. \A group : DecidedIn(E, group) => DecidedIn(F, group)
  BY DEF DecidedIn, Extends
<1>4. QED
  BY <1>1, <1>2, <1>3

LEMMA QuietProgress ==
  ASSUME NEW s, Rows(s), NEW D, NEW t, NEW leaving, Progress(s, D, t, leaving),
         NEW u, Quiet(t, u), Active(u.store) \subseteq Active(t.store) \ leaving
  PROVE Progress(s, D, u, {})
<1>1. IsTxn(u) /\ Rows(u.store) /\ Extends(t.events, u.events)
  BY DEF Quiet, Follows
<1>2. Later(s, u.store)
  BY LaterTransitive DEF Quiet, Follows, Progress
<1>3. /\ DOMAIN u.store.claims \subseteq DOMAIN Claim
      /\ \A k \in DOMAIN u.store.conflicts : k \subseteq DOMAIN u.store.claims
  BY DEF Quiet, Progress
<1>4. Kin(s.conflicts, u.store.conflicts)
  BY DEF Kin, Quiet, Progress
<1>5. Active(u.store) \subseteq Active(s) \cup AssertedIn(u.events)
  BY <1>1, EventsStay DEF Quiet, Progress
<1>6. ASSUME NEW x \in Active(u.store), NEW y \in Active(u.store), Contradictory(x, y)
      PROVE Handled(D, u, x, y)
  <2>1. Handled(D, t, x, y)
    BY <1>6 DEF Progress
  <2>2. CASE <<x, y>> \in D
    BY <2>2 DEF Handled
  <2>3. ASSUME NEW k \in DOMAIN t.store.conflicts, t.store.conflicts[k].status = "OPEN",
               {x, y} \subseteq t.store.conflicts[k].members
        PROVE Handled(D, u, x, y)
    <3>1. \/ u.store.conflicts[k].status = "OPEN"
             /\ u.store.conflicts[k].members = t.store.conflicts[k].members
          \/ DecidedIn(u.events, t.store.conflicts[k].members)
      BY <2>3 DEF Quiet
    <3>2. k \in DOMAIN u.store.conflicts
      BY DEF Quiet
    <3>3. DecidedIn(u.events, t.store.conflicts[k].members) => DecidedIn(u.events, {x, y})
      BY <2>3 DEF DecidedIn
    <3>4. QED
      BY <2>3, <3>1, <3>2, <3>3 DEF Handled
  <2>4. CASE DecidedIn(t.events, {x, y})
    BY <1>1, <2>4, EventsStay DEF Handled
  <2>5. QED
    BY <2>1, <2>2, <2>3, <2>4 DEF Handled
<1>7. ASSUME NEW k \in u.opened
      PROVE k \in DOMAIN u.store.conflicts /\ Grounded(s, u.events, u.store.conflicts[k].family)
  <2>1. k \in DOMAIN t.store.conflicts /\ Grounded(s, t.events, t.store.conflicts[k].family)
    BY DEF Quiet, Progress
  <2>2. k \in DOMAIN u.store.conflicts /\ u.store.conflicts[k].family = t.store.conflicts[k].family
    BY <2>1 DEF Quiet
  <2>3. QED
    BY <1>1, <2>1, <2>2, EventsStay
<1>8. Founded(u.store)
  BY DEF Founded, Quiet, Progress
<1>9. QED
  BY <1>1, <1>2, <1>3, <1>4, <1>5, <1>6, <1>7, <1>8 DEF Progress

LEMMA AssertedProgress ==
  ASSUME NEW s, Rows(s), NEW D, NEW t, Progress(s, D, t, {}),
         NEW claim, NEW leaving, NEW u, Asserted(t, u, claim, leaving)
  PROVE Progress(s, D, u, leaving)
<1>1. IsTxn(u) /\ Rows(u.store) /\ Extends(t.events, u.events)
  BY DEF Asserted, Follows
<1>2. Later(s, u.store)
  BY LaterTransitive DEF Asserted, Follows, Progress
<1>3. /\ claim \in DOMAIN Claim /\ DOMAIN u.store.claims = DOMAIN t.store.claims \cup {claim}
      /\ Active(u.store) = Active(t.store) \cup {claim} /\ claim \notin Active(t.store)
  <2>1. u.store.claims = Put(t.store.claims, claim, NewClaim) /\ claim \notin DOMAIN t.store.claims
        /\ claim \in DOMAIN Claim
    BY DEF Asserted
  <2>2. Active(u.store) = Active(t.store) \cup {claim}
    BY <2>1, ActiveWithClaim
  <2>3. DOMAIN u.store.claims = DOMAIN t.store.claims \cup {claim}
    BY <2>1 DEF Put
  <2>4. claim \notin Active(t.store)
    BY <2>1 DEF Active
  <2>5. QED
    BY <2>1, <2>2, <2>3, <2>4
<1>4. /\ DOMAIN u.store.claims \subseteq DOMAIN Claim
      /\ \A k \in DOMAIN u.store.conflicts : k \subseteq DOMAIN u.store.claims
  BY <1>3 DEF Asserted, Progress
<1>5. Kin(s.conflicts, u.store.conflicts)
  BY DEF Kin, Asserted, Grown, Progress
<1>6. claim \in AssertedIn(u.events) /\ AssertedIn(t.events) \subseteq AssertedIn(u.events)
  BY <1>1, EventsStay DEF Asserted
<1>7. Active(u.store) \subseteq Active(s) \cup AssertedIn(u.events)
  BY <1>3, <1>6 DEF Progress
<1>8. ASSUME NEW c \in Active(t.store) \ leaving, Contradictory(c, claim) \/ Contradictory(claim, c)
      PROVE Handled(D, u, c, claim) /\ Handled(D, u, claim, c)
  <2>1. c \in DOMAIN Claim /\ Claim[c].family = Claim[claim].family /\ c # claim
    BY <1>3, <1>8 DEF Active, Progress, Contradictory
  <2>2. ConflictKind(Claim[claim], Claim[c]) # NONE
    BY <1>3, <1>8, <2>1, KindSymmetric DEF Contradictory
  <2>3. c \in Rivals(t.store, claim, leaving)
    BY <1>8, <2>1, <2>2 DEF Rivals, ActiveFamily
  <2>4. PICK k \in DOMAIN u.store.conflicts :
          u.store.conflicts[k].status = "OPEN" /\ {c, claim} \subseteq u.store.conflicts[k].members
    BY <2>3 DEF Asserted
  <2>5. QED
    BY <2>4 DEF Handled
<1>9. ASSUME NEW x \in Active(t.store), NEW y \in Active(t.store), Contradictory(x, y)
      PROVE Handled(D, u, x, y)
  <2>1. Handled(D, t, x, y)
    BY <1>9 DEF Progress
  <2>2. CASE <<x, y>> \in D
    BY <2>2 DEF Handled
  <2>3. ASSUME NEW k \in DOMAIN t.store.conflicts, t.store.conflicts[k].status = "OPEN",
               {x, y} \subseteq t.store.conflicts[k].members
        PROVE Handled(D, u, x, y)
    <3>1. /\ k \in DOMAIN u.store.conflicts /\ u.store.conflicts[k].status = "OPEN"
          /\ t.store.conflicts[k].members \subseteq u.store.conflicts[k].members
      BY <2>3 DEF Asserted, Grown
    <3>2. QED
      BY <2>3, <3>1 DEF Handled
  <2>4. CASE DecidedIn(t.events, {x, y})
    BY <1>1, <2>4, EventsStay DEF Handled
  <2>5. QED
    BY <2>1, <2>2, <2>3, <2>4 DEF Handled
<1>10. ASSUME NEW x \in Active(u.store) \ leaving, NEW y \in Active(u.store) \ leaving,
              Contradictory(x, y)
       PROVE Handled(D, u, x, y)
  <2>1. x # y
    BY <1>10 DEF Contradictory
  <2>2. CASE x = claim
    <3>1. y \in Active(t.store) \ leaving
      BY <1>3, <2>1, <2>2
    <3>2. QED
      BY <1>8, <1>10, <2>2, <3>1
  <2>3. CASE y = claim
    <3>1. x \in Active(t.store) \ leaving
      BY <1>3, <2>1, <2>3
    <3>2. QED
      BY <1>8, <1>10, <2>3, <3>1
  <2>4. CASE x # claim /\ y # claim
    BY <1>3, <1>9, <1>10, <2>4
  <2>5. QED
    BY <2>2, <2>3, <2>4
<1>11. ASSUME NEW k \in u.opened
       PROVE k \in DOMAIN u.store.conflicts /\ Grounded(s, u.events, u.store.conflicts[k].family)
  <2>1. CASE k \in t.opened
    <3>1. k \in DOMAIN t.store.conflicts /\ Grounded(s, t.events, t.store.conflicts[k].family)
      BY <2>1 DEF Progress
    <3>2. k \in DOMAIN u.store.conflicts /\ u.store.conflicts[k].family = t.store.conflicts[k].family
      BY <3>1 DEF Asserted, Grown
    <3>3. QED
      BY <1>1, <3>1, <3>2, EventsStay
  <2>2. CASE k \notin t.opened
    <3>1. /\ k \in DOMAIN u.store.conflicts /\ u.store.conflicts[k].family = Claim[claim].family
          /\ Rivals(t.store, claim, leaving) # {}
      BY <2>2 DEF Asserted
    <3>2. PICK c : c \in Rivals(t.store, claim, leaving)
      BY <3>1
    <3>3. c \in Active(t.store) /\ Contradictory(claim, c)
      BY <3>2 DEF Rivals, ActiveFamily, Contradictory
    <3>4. c \in Active(s) \cup AssertedIn(u.events)
      BY <1>3, <1>7, <3>3
    <3>5. QED
      BY <1>6, <3>1, <3>3, <3>4 DEF Grounded
  <2>3. QED
    BY <2>1, <2>2
<1>12. Founded(u.store)
  BY DEF Asserted
<1>13. QED
  BY <1>1, <1>2, <1>4, <1>5, <1>7, <1>10, <1>11, <1>12 DEF Progress

\* The replacement is asserted, and then its target closed.
Superseded(t, u, claim, target, seq) ==
  \E v : /\ Asserted(t, v, claim, {target}) /\ InTwoSteps(t, v, claim, {target}, seq)
         /\ Closes(v, u, target) /\ Elsewhere(v, u)

LEMMA SupersedeClaimDoes ==
  ASSUME NEW s, Rows(s), NEW D, NEW t, Progress(s, D, t, {}), t.error = NONE, NEW op, NEW seq,
         NEW u, u = SupersedeClaim(t, op, seq), u.error = NONE
  PROVE /\ Progress(s, D, u, {}) /\ Follows(t, u) /\ Retold(t, u)
        /\ Bumped(t.store.claims, u.store.claims, op.target)
        /\ Superseded(t, u, op.claim, op.target, seq)
<1>a. PICK v : v = AssertClaim(t, op.claim, op.links, {op.target}, seq)
  OBVIOUS
<1>b. PICK e : e = [type |-> "CLAIM_SUPERSEDED", target |-> op.target, by |-> op.claim]
  OBVIOUS
<1>c. PICK target : target = op.target
  OBVIOUS
<1>d. PICK claim : claim = op.claim
  OBVIOUS
<1>1. IsTxn(t) /\ Rows(t.store)
  BY DEF Progress
<1>2. op.target \in Active(t.store) /\ op.target \in DOMAIN t.store.claims
  BY <1>1 DEF SupersedeClaim, Fail, IsTxn, NONE, CONFLICT, IsActive, Active
<1>3. v.error = NONE
  BY <1>a, <1>2 DEF SupersedeClaim, IsActive
<1>4. u = Emit([v EXCEPT !.store = Close(v.store, op.target, "SUPERSEDED", op.claim)],
               [type |-> "CLAIM_SUPERSEDED", target |-> op.target, by |-> op.claim])
  BY <1>a, <1>2, <1>3 DEF SupersedeClaim, IsActive
<1>5. Asserted(t, v, op.claim, {op.target}) /\ InTwoSteps(t, v, op.claim, {op.target}, seq)
  BY <1>a, <1>1, <1>3, AssertClaimDoes DEF Progress
<1>6. Progress(s, D, v, {op.target})
  BY <1>5, AssertedProgress
<1>7. IsTxn(v) /\ Rows(v.store) /\ Follows(t, v)
  BY <1>5 DEF Asserted, Follows
<1>8. op.target \in DOMAIN v.store.claims
  BY <1>2, <1>5 DEF Asserted, Put
<1>9. /\ Quiet(v, u) /\ Active(u.store) \subseteq Active(v.store) \ {op.target}
      /\ Bumped(v.store.claims, u.store.claims, op.target) /\ Closes(v, u, op.target)
  <2>1. u = Emit([v EXCEPT !.store = Close(v.store, target, "SUPERSEDED", claim)], e)
    BY <1>4, <1>b, <1>c, <1>d
  <2>2. target \in DOMAIN v.store.claims
    BY <1>8, <1>c
  <2>3. Closes(v, u, target)
    BY <1>7, <2>1, <2>2, CloseDoes
  <2>4. QED
    BY <2>3, <1>c DEF Closes, Lets
<1>10. Progress(s, D, u, {})
  BY <1>6, <1>9, QuietProgress
<1>11. Follows(t, u)
  BY <1>1, <1>7, <1>9, FollowsTransitive DEF Quiet
<1>12. Bumped(t.store.claims, u.store.claims, op.target)
  <2>1. u.store.claims[op.target].version > v.store.claims[op.target].version
        /\ op.target \in DOMAIN u.store.claims
    BY <1>9 DEF Bumped
  <2>2. v.store.claims[op.target].version >= t.store.claims[op.target].version
    BY <1>2, <1>7 DEF Follows, Later, LaterTable, Aggregates
  <2>3. {u.store.claims[op.target].version, v.store.claims[op.target].version,
         t.store.claims[op.target].version} \subseteq Nat
    <3>1. IsTable("claims", u.store.claims) /\ IsTable("claims", v.store.claims)
          /\ IsTable("claims", t.store.claims)
      BY <1>1, <1>7, <1>11 DEF Rows, Follows, Aggregates
    <3>2. QED
      BY <1>2, <1>8, <2>1, <3>1 DEF IsTable
  <2>4. QED
    BY <2>1, <2>2, <2>3 DEF Bumped
<1>13. Retold(t, u)
  <2>1. u = Emit([v EXCEPT !.store = Close(v.store, target, "SUPERSEDED", claim)], e)
    BY <1>4, <1>b, <1>c, <1>d
  <2>2. target \in Active(v.store)
    BY <1>2, <1>5, <1>c, ActiveWithClaim DEF Asserted
  <2>3. ASSUME NEW r, r.error = NONE
        PROVE ReplayEvent(r, e) = ReplayClose(r, e, "SUPERSEDED", claim)
    <3>1. e.type = "CLAIM_SUPERSEDED" /\ e.by = claim
      BY <1>b, <1>d
    <3>2. QED
      BY <2>3, <3>1 DEF ReplayEvent
  <2>4. e.target = target
    BY <1>b, <1>c
  <2>5. Retold(v, u)
    BY <1>7, <2>1, <2>2, <2>3, <2>4, CloseTold
  <2>6. Retold(t, v) /\ Extends(v.events, u.events)
    BY <1>5, <1>9 DEF Asserted, Quiet, Follows
  <2>7. QED
    BY <2>5, <2>6, RetoldTransitive
<1>14. Superseded(t, u, op.claim, op.target, seq)
  <2>1. u = Emit([v EXCEPT !.store = Close(v.store, target, "SUPERSEDED", claim)], e)
    BY <1>4, <1>b, <1>c, <1>d
  <2>2. e.type \notin AboutConflicts
    BY <1>b DEF AboutConflicts
  <2>3. Elsewhere(v, u)
    BY <1>7, <2>1, <2>2, CloseIsElsewhere
  <2>4. QED
    BY <1>5, <1>9, <2>3 DEF Superseded
<1>15. QED
  BY <1>10, <1>11, <1>12, <1>13, <1>14

\* What an operation does to a transaction under way: it acts on the rows it
\* had to read, and moves their versions.
Advances(s, D, t, u, op) ==
  /\ Progress(s, D, u, {}) /\ Follows(t, u)
  /\ \A r \in RequiredReads(op) :
       r[1] \in Aggregates /\ Bumped(t.store[r[1]], u.store[r[1]], r[2])

LEMMA QuietAdvances ==
  ASSUME NEW s, Rows(s), NEW D, NEW t, Progress(s, D, t, {}), NEW u, Quiet(t, u),
         NEW op, NEW n \in Aggregates, NEW id, RequiredReads(op) \subseteq {<<n, id>>},
         RequiredReads(op) # {} => Bumped(t.store[n], u.store[n], id)
  PROVE Advances(s, D, t, u, op)
<1>1. Active(u.store) \subseteq Active(t.store) \ {}
  BY DEF Quiet
<1>2. Progress(s, D, u, {}) /\ Follows(t, u)
  BY <1>1, QuietProgress DEF Quiet
<1>3. ASSUME NEW r \in RequiredReads(op)
      PROVE r[1] \in Aggregates /\ Bumped(t.store[r[1]], u.store[r[1]], r[2])
  <2>1. r[1] = n /\ r[2] = id
    OBVIOUS
  <2>2. QED
    BY <2>1
<1>4. QED
  BY <1>2, <1>3 DEF Advances

LEMMA OperationDoes ==
  ASSUME NEW s, Rows(s), NEW D, NEW t, Progress(s, D, t, {}),
         NEW op, op.op \in OperationKinds, NEW who, NEW seq,
         NEW u, u = ApplyOperation(t, op, who, seq), u.error = NONE
  PROVE t.error = NONE /\ Advances(s, D, t, u, op)
<1>1. t.error = NONE
  BY DEF ApplyOperation
<1>2. IsTxn(t) /\ Rows(t.store)
  BY DEF Progress
<1>3. /\ "sources" \in Tables \ {"claims", "conflicts"} /\ "decisions" \in Tables \ {"claims", "conflicts"}
      /\ "questions" \in Tables \ {"claims", "conflicts"} /\ "work" \in Tables \ {"claims", "conflicts"}
      /\ Aggregates = {"claims", "conflicts", "decisions", "questions", "work"}
  BY DEF Tables, Aggregates
<1>4. CASE op.op = "REGISTER_SOURCE_REVISION"
  <2>1. u = RegisterSource(t, op) /\ RequiredReads(op) = {}
    BY <1>1, <1>4 DEF ApplyOperation, RequiredReads
  <2>2. Quiet(t, u)
    BY <1>1, <1>2, <1>3, <2>1, RegisterSourceDoes, ElsewhereIsQuiet
  <2>3. QED
    BY <1>1, <1>3, <2>1, <2>2, QuietAdvances
<1>5. CASE op.op = "ASSERT_CLAIM"
  <2>1. u = AssertClaim(t, op.claim, op.links, {}, seq) /\ RequiredReads(op) = {}
    BY <1>1, <1>5 DEF ApplyOperation, RequiredReads
  <2>0. (\A k \in DOMAIN t.store.conflicts : k \subseteq DOMAIN t.store.claims) /\ Founded(t.store)
    BY DEF Progress
  <2>2. Asserted(t, u, op.claim, {})
    BY <1>1, <1>2, <2>0, <2>1, AssertClaimDoes
  <2>3. Progress(s, D, u, {})
    BY <2>2, AssertedProgress
  <2>5. Follows(t, u)
    BY <2>2 DEF Asserted
  <2>4. QED
    BY <1>1, <2>1, <2>3, <2>5 DEF Advances
<1>6. CASE op.op = "ATTACH_EVIDENCE"
  <2>1. u = AttachEvidence(t, op) /\ RequiredReads(op) = {}
    BY <1>1, <1>6 DEF ApplyOperation, RequiredReads
  <2>2. Quiet(t, u)
    BY <1>1, <1>2, <2>1, AttachEvidenceDoes
  <2>3. QED
    BY <1>1, <1>3, <2>1, <2>2, QuietAdvances
<1>7. CASE op.op = "SUPERSEDE_CLAIM"
  <2>1. u = SupersedeClaim(t, op, seq) /\ RequiredReads(op) = {<<"claims", op.target>>}
    BY <1>1, <1>7 DEF ApplyOperation, RequiredReads
  <2>2. Progress(s, D, u, {}) /\ Follows(t, u) /\ Bumped(t.store.claims, u.store.claims, op.target)
    BY <1>1, <2>1, SupersedeClaimDoes
  <2>3. QED
    BY <1>1, <1>3, <2>1, <2>2 DEF Advances
<1>8. CASE op.op = "RETRACT_CLAIM"
  <2>1. u = RetractClaim(t, op, who) /\ RequiredReads(op) = {<<"claims", op.target>>}
    BY <1>1, <1>8 DEF ApplyOperation, RequiredReads
  <2>2. Quiet(t, u) /\ Bumped(t.store.claims, u.store.claims, op.target)
    BY <1>1, <1>2, <2>1, RetractClaimDoes
  <2>3. QED
    BY <1>1, <1>3, <2>1, <2>2, QuietAdvances
<1>9. CASE op.op = "RESOLVE_CONFLICT"
  <2>1. u = ResolveConflict(t, op, who) /\ RequiredReads(op) = {<<"conflicts", op.conflict>>}
    BY <1>1, <1>9 DEF ApplyOperation, RequiredReads
  <2>2. Quiet(t, u) /\ Bumped(t.store.conflicts, u.store.conflicts, op.conflict)
    BY <1>1, <1>2, <2>1, ResolveConflictDoes
  <2>3. QED
    BY <1>1, <1>3, <2>1, <2>2, QuietAdvances
<1>10. CASE op.op = "RECORD_DECISION"
  <2>1. u = RecordDecision(t, op) /\ RequiredReads(op) = {}
    BY <1>1, <1>10 DEF ApplyOperation, RequiredReads
  <2>2. Quiet(t, u)
    BY <1>1, <1>2, <1>3, <2>1, RecordDecisionDoes, ElsewhereIsQuiet
  <2>3. QED
    BY <1>1, <1>3, <2>1, <2>2, QuietAdvances
<1>11. CASE op.op = "SUPERSEDE_DECISION"
  <2>1. u = SupersedeDecision(t, op) /\ RequiredReads(op) = {<<"decisions", op.target>>}
    BY <1>1, <1>11 DEF ApplyOperation, RequiredReads
  <2>2. Quiet(t, u) /\ Bumped(t.store.decisions, u.store.decisions, op.target)
    BY <1>1, <1>2, <1>3, <2>1, SupersedeDecisionDoes, ElsewhereIsQuiet
  <2>3. QED
    BY <1>1, <1>3, <2>1, <2>2, QuietAdvances
<1>12. CASE op.op = "OPEN_QUESTION"
  <2>1. u = OpenQuestion(t, op) /\ RequiredReads(op) = {}
    BY <1>1, <1>12 DEF ApplyOperation, RequiredReads
  <2>2. Quiet(t, u)
    BY <1>1, <1>2, <1>3, <2>1, OpenQuestionDoes, ElsewhereIsQuiet
  <2>3. QED
    BY <1>1, <1>3, <2>1, <2>2, QuietAdvances
<1>13. CASE op.op \in {"ANSWER_QUESTION", "DROP_QUESTION"}
  <2>1. /\ \E status, answer : u = CloseQuestion(t, op.target, status, answer)
        /\ RequiredReads(op) = {<<"questions", op.target>>}
    BY <1>1, <1>13 DEF ApplyOperation, RequiredReads, AnswerQuestion, DropQuestion
  <2>2. Quiet(t, u) /\ Bumped(t.store.questions, u.store.questions, op.target)
    BY <1>1, <1>2, <1>3, <2>1, CloseQuestionDoes, ElsewhereIsQuiet
  <2>3. QED
    BY <1>1, <1>3, <2>1, <2>2, QuietAdvances
<1>14. CASE op.op = "CREATE_WORK_ITEM"
  <2>1. u = CreateWorkItem(t, op) /\ RequiredReads(op) = {}
    BY <1>1, <1>14 DEF ApplyOperation, RequiredReads
  <2>2. Quiet(t, u)
    BY <1>1, <1>2, <1>3, <2>1, CreateWorkItemDoes, ElsewhereIsQuiet
  <2>3. QED
    BY <1>1, <1>3, <2>1, <2>2, QuietAdvances
<1>15. CASE op.op = "UPDATE_WORK_ITEM_STATUS"
  <2>1. u = UpdateWorkItemStatus(t, op) /\ RequiredReads(op) = {<<"work", op.target>>}
    BY <1>1, <1>15 DEF ApplyOperation, RequiredReads
  <2>2. Quiet(t, u) /\ Bumped(t.store.work, u.store.work, op.target)
    BY <1>1, <1>2, <1>3, <2>1, UpdateWorkItemStatusDoes, ElsewhereIsQuiet
  <2>3. QED
    BY <1>1, <1>3, <2>1, <2>2, QuietAdvances
<1>16. QED
  BY <1>4, <1>5, <1>6, <1>7, <1>8, <1>9, <1>10, <1>11, <1>12, <1>13, <1>14, <1>15
     DEF OperationKinds

-----------------------------------------------------------------------------
(* A whole proposal.                                                       *)

\* A store as commits leave it, every contradiction of it shown or in D.
Good(s, D) ==
  /\ Shaped(s) /\ Rows(s) /\ Founded(s)
  /\ DOMAIN s.claims \subseteq DOMAIN Claim
  /\ \A k \in DOMAIN s.conflicts : k \subseteq DOMAIN s.claims
  /\ \A x, y \in Active(s) : Contradictory(x, y) =>
       \/ <<x, y>> \in D
       \/ \E k \in DOMAIN s.conflicts :
            s.conflicts[k].status = "OPEN" /\ {x, y} \subseteq s.conflicts[k].members

LEMMA StartIs ==
  ASSUME NEW s, NEW D, Good(s, D)
  PROVE Start(s).error = NONE /\ Progress(s, D, Start(s), {})
<1>a. PICK t : t = Start(s)
  OBVIOUS
<1>1. /\ t = [store |-> s, events |-> <<>>, opened |-> {}, error |-> NONE]
      /\ t.store = s /\ t.events = <<>> /\ t.opened = {} /\ t.error = NONE
  BY <1>a DEF Start
<1>2. IsList(<<>>)
  BY DEF IsList
<1>3. IsTxn(t)
  BY <1>1, <1>2 DEF IsTxn, Good
<1>4. Later(s, s)
  BY LaterReflexive DEF Later, Rows, Good
<1>5. Kin(s.conflicts, s.conflicts)
  BY DEF Kin
<1>6. \A x, y \in Active(s) : Contradictory(x, y) => Handled(D, t, x, y)
  BY <1>1 DEF Good, Handled
<1>7. QED
  BY <1>a, <1>1, <1>3, <1>4, <1>5, <1>6 DEF Progress, Good

\* The reads a proposal must hold are those of rows that exist.
ReadsExist(p, s) ==
  \A i \in 1 .. Len(p.ops) : \A r \in RequiredReads(p.ops[i]) : r[2] \in DOMAIN s[r[1]]

\* The first i operations of a proposal have acted on the rows they had to read.
ActedOn(p, s, t, i) ==
  \A j \in 1 .. i : \A r \in RequiredReads(p.ops[j]) :
    r[1] \in Aggregates /\ Bumped(s[r[1]], t.store[r[1]], r[2])

LEMMA BumpedLater ==
  ASSUME NEW x, NEW y, NEW z, NEW n, IsTable(n, x), IsTable(n, y), IsTable(n, z),
         NEW id \in DOMAIN x,
         \/ Bumped(x, y, id) /\ LaterTable(y, z)
         \/ LaterTable(x, y) /\ Bumped(y, z, id)
  PROVE Bumped(x, z, id)
<1>1. id \in DOMAIN y /\ id \in DOMAIN z
  BY DEF Bumped, LaterTable
<1>2. {x[id].version, y[id].version, z[id].version} \subseteq Nat
  BY <1>1 DEF IsTable
<1>3. \/ y[id].version > x[id].version /\ z[id].version >= y[id].version
      \/ y[id].version >= x[id].version /\ z[id].version > y[id].version
  BY <1>1 DEF Bumped, LaterTable
<1>4. z[id].version > x[id].version
  BY <1>2, <1>3
<1>5. QED
  BY <1>1, <1>4 DEF Bumped

LEMMA OperationsDo ==
  ASSUME NEW s, NEW D, Good(s, D), NEW p, WellFormed(p), ReadsExist(p, s), NEW seq,
         NEW t, t = Transactions(p, s, seq), t[Len(p.ops)].error = NONE
  PROVE Progress(s, D, t[Len(p.ops)], {}) /\ ActedOn(p, s, t[Len(p.ops)], Len(p.ops))
<1> DEFINE N == Len(p.ops)
           S == {i \in Nat : i <= N /\ t[i].error = NONE
                               => Progress(s, D, t[i], {}) /\ ActedOn(p, s, t[i], i)}
<1>1. N \in Nat /\ \A i \in 1 .. N : p.ops[i].op \in OperationKinds
  BY DEF WellFormed
<1>2. /\ t[0] = Start(s)
      /\ \A i \in 1 .. N : t[i] = ApplyOperation(t[i - 1], p.ops[i], p.proposer, seq)
  BY <1>1, TransactionsStep
<1>3. Rows(s)
  BY DEF Good
<1>4. 0 \in S
  BY <1>2, StartIs DEF ActedOn
<1>5. ASSUME NEW n \in Nat, n \in S PROVE n + 1 \in S
  <2>a. PICK i : i = n + 1
    OBVIOUS
  <2> SUFFICES ASSUME i <= N, t[i].error = NONE
               PROVE Progress(s, D, t[i], {}) /\ ActedOn(p, s, t[i], i)
    BY <2>a
  <2>b. PICK op : op = p.ops[i]
    OBVIOUS
  <2>c. PICK v : v = t[n]
    OBVIOUS
  <2>d. PICK u : u = t[i]
    OBVIOUS
  <2>1. i \in 1 .. N /\ i - 1 = n /\ n <= N
    BY <1>1, <2>a
  <2>2. u = ApplyOperation(v, op, p.proposer, seq) /\ u.error = NONE /\ op.op \in OperationKinds
    BY <1>1, <1>2, <2>1, <2>b, <2>c, <2>d
  <2>3. v.error = NONE
    BY <2>2 DEF ApplyOperation
  <2>4. Progress(s, D, v, {}) /\ ActedOn(p, s, v, n)
    BY <1>5, <2>1, <2>3, <2>c
  <2>5. Advances(s, D, v, u, op)
    BY <1>3, <2>2, <2>4, OperationDoes
  <2>6. ASSUME NEW j \in 1 .. i, NEW r \in RequiredReads(p.ops[j])
        PROVE r[1] \in Aggregates /\ Bumped(s[r[1]], u.store[r[1]], r[2])
    <3>1. r[2] \in DOMAIN s[r[1]]
      <4>1. j \in 1 .. N
        BY <1>1, <2>1
      <4>2. QED
        BY <4>1 DEF ReadsExist
    <3>2. r[1] \in Aggregates
      <4>1. CASE j = i
        BY <2>5, <2>b, <4>1 DEF Advances
      <4>2. CASE j # i
        <5>1. j \in 1 .. n
          BY <2>a, <4>2
        <5>2. QED
          BY <2>4, <5>1 DEF ActedOn
      <4>3. QED
        BY <4>1, <4>2
    <3>3. /\ IsTable(r[1], s[r[1]]) /\ IsTable(r[1], v.store[r[1]]) /\ IsTable(r[1], u.store[r[1]])
          /\ LaterTable(s[r[1]], v.store[r[1]]) /\ LaterTable(v.store[r[1]], u.store[r[1]])
      BY <1>3, <2>4, <2>5, <3>2 DEF Rows, Progress, Advances, Follows, Later
    <3>4. Bumped(s[r[1]], v.store[r[1]], r[2]) \/ Bumped(v.store[r[1]], u.store[r[1]], r[2])
      <4>1. CASE j = i
        BY <2>5, <2>b, <4>1 DEF Advances
      <4>2. CASE j # i
        <5>1. j \in 1 .. n
          BY <2>a, <4>2
        <5>2. QED
          BY <2>4, <5>1 DEF ActedOn
      <4>3. QED
        BY <4>1, <4>2
    <3>5. QED
      BY <3>1, <3>2, <3>3, <3>4, BumpedLater
  <2>7. QED
    BY <2>5, <2>6, <2>d DEF Advances, ActedOn
<1>6. Nat \subseteq S
  <2> HIDE DEF S
  <2> QED BY <1>4, <1>5, NatSetInduction
<1>7. N \in S
  BY <1>1, <1>6
<1>8. QED
  BY <1>1, <1>7

\* What a continuity event regenerates must be the event that was recorded.
Regenerated(r, again, e) ==
  IF again.error # NONE \/ Last(again.events) # e THEN Fail(r, INVALID) ELSE again

LEMMA ContinuityTold ==
  ASSUME NEW t, IsTxn(t), NEW n \in Tables, NEW table, NEW e,
         NEW u, u = Emit(With(t, n, table), e),
         \A r : Mirrors(r, t.store) =>
                  ReplayEvent(r, e) = Regenerated(r, Emit(With(r, n, table), e), e)
  PROVE Retold(t, u)
<1>1. ASSUME NEW r, Mirrors(r, t.store) PROVE Mirrors(ReplayEvent(r, e), u.store)
  <2>a. PICK v : v = Emit(With(r, n, table), e)
    OBVIOUS
  <2>1. Mirrors(v, u.store) /\ v.events = Append(r.events, e)
    BY <1>1, <2>a, MirrorTable
  <2>2. v.error = NONE /\ IsList(r.events)
    BY <1>1, <2>1 DEF Mirrors, IsTxn
  <2>3. Last(v.events) = e
    BY <2>1, <2>2, LastIs
  <2>4. ReplayEvent(r, e) = Regenerated(r, v, e)
    BY <1>1, <2>a
  <2>5. QED
    BY <2>1, <2>2, <2>3, <2>4 DEF Regenerated
<1>2. u.events = Append(t.events, e)
  BY OneTable
<1>3. QED
  BY <1>1, <1>2, Told

LEMMA RecordDecisionTold ==
  ASSUME NEW t, IsTxn(t), t.error = NONE, NEW op,
         NEW u, u = RecordDecision(t, op), u.error = NONE
  PROVE Retold(t, u)
<1>a. PICK e : e = [type |-> "DECISION_RECORDED", decision |-> op.decision, refs |-> op.refs]
  OBVIOUS
<1>b. PICK table : table = Put(t.store.decisions, op.decision, NewDecision(op.refs))
  OBVIOUS
<1>1. /\ u = Emit(With(t, "decisions", table), e)
      /\ op.decision \notin DOMAIN t.store.decisions
  BY <1>a, <1>b DEF With, RecordDecision, Fail, IsTxn, NONE, INVALID
<1>2. e.type = "DECISION_RECORDED" /\ e.decision = op.decision /\ e.refs = op.refs
      /\ e = [type |-> "DECISION_RECORDED", decision |-> e.decision, refs |-> e.refs]
  BY <1>a
<1>3. ASSUME NEW r, Mirrors(r, t.store)
      PROVE ReplayEvent(r, e) = Regenerated(r, Emit(With(r, "decisions", table), e), e)
  <2>1. r.store = t.store /\ r.error = NONE
    BY <1>3 DEF Mirrors
  <2>2. RecordDecision(r, e) = Emit(With(r, "decisions", table), e)
    BY <1>1, <1>2, <1>b, <2>1 DEF RecordDecision, With
  <2>3. ReplayEvent(r, e) = Regenerated(r, RecordDecision(r, e), e)
    BY <1>2, <2>1 DEF ReplayEvent, ReplayContinuity, Regenerated
  <2>4. QED
    BY <2>2, <2>3
<1>4. "decisions" \in Tables
  BY DEF Tables
<1>5. QED
  BY <1>1, <1>3, <1>4, ContinuityTold

LEMMA SupersedeDecisionTold ==
  ASSUME NEW t, IsTxn(t), t.error = NONE, NEW op,
         NEW u, u = SupersedeDecision(t, op), u.error = NONE
  PROVE Retold(t, u)
<1>a. PICK old : old = t.store.decisions
  OBVIOUS
<1>b. PICK target : target = old[op.target]
  OBVIOUS
<1>c. PICK closed : closed = [target EXCEPT !.status = op.disposition, !.version = @ + 1,
                                            !.by = op.decision]
  OBVIOUS
<1>d. PICK table : table = [Put(old, op.decision, NewDecision(op.refs)) EXCEPT ![op.target] = closed]
  OBVIOUS
<1>e. PICK e : e = [type |-> "DECISION_SUPERSEDED", target |-> op.target,
                    disposition |-> op.disposition, decision |-> op.decision, refs |-> op.refs,
                    from |-> target.version, to |-> target.version + 1]
  OBVIOUS
<1>1. /\ op.disposition \in Dispositions /\ op.target \in DOMAIN old /\ target.status = "ACTIVE"
      /\ op.decision \notin DOMAIN old
  BY <1>a, <1>b DEF SupersedeDecision, Fail, IsTxn, NONE, INVALID, CONFLICT
<1>2. u = Emit(With(t, "decisions", table), e)
  BY <1>1, <1>a, <1>b, <1>c, <1>d, <1>e DEF With, SupersedeDecision
<1>3. /\ e.type = "DECISION_SUPERSEDED" /\ e.target = op.target
      /\ e.disposition = op.disposition /\ e.decision = op.decision /\ e.refs = op.refs
  BY <1>e
<1>4. ASSUME NEW r, Mirrors(r, t.store)
      PROVE ReplayEvent(r, e) = Regenerated(r, Emit(With(r, "decisions", table), e), e)
  <2>1. r.store = t.store /\ r.error = NONE
    BY <1>4 DEF Mirrors
  <2>2. SupersedeDecision(r, e) = Emit(With(r, "decisions", table), e)
    BY <1>1, <1>3, <1>a, <1>b, <1>c, <1>d, <1>e, <2>1 DEF SupersedeDecision, With
  <2>3. ReplayEvent(r, e) = Regenerated(r, SupersedeDecision(r, e), e)
    BY <1>3, <2>1 DEF ReplayEvent, ReplayContinuity, Regenerated
  <2>4. QED
    BY <2>2, <2>3
<1>5. "decisions" \in Tables
  BY DEF Tables
<1>6. QED
  BY <1>2, <1>4, <1>5, ContinuityTold

LEMMA OpenQuestionTold ==
  ASSUME NEW t, IsTxn(t), t.error = NONE, NEW op,
         NEW u, u = OpenQuestion(t, op), u.error = NONE
  PROVE Retold(t, u)
<1>a. PICK e : e = [type |-> "QUESTION_OPENED", question |-> op.question, refs |-> op.refs]
  OBVIOUS
<1>b. PICK table : table = Put(t.store.questions, op.question,
                               [status |-> "OPEN", version |-> 1, answer |-> {}, refs |-> op.refs])
  OBVIOUS
<1>1. /\ u = Emit(With(t, "questions", table), e)
      /\ op.question \notin DOMAIN t.store.questions
  BY <1>a, <1>b DEF With, OpenQuestion, Fail, IsTxn, NONE, INVALID
<1>2. e.type = "QUESTION_OPENED" /\ e.question = op.question /\ e.refs = op.refs
      /\ e = [type |-> "QUESTION_OPENED", question |-> e.question, refs |-> e.refs]
  BY <1>a
<1>3. ASSUME NEW r, Mirrors(r, t.store)
      PROVE ReplayEvent(r, e) = Regenerated(r, Emit(With(r, "questions", table), e), e)
  <2>1. r.store = t.store /\ r.error = NONE
    BY <1>3 DEF Mirrors
  <2>2. OpenQuestion(r, e) = Emit(With(r, "questions", table), e)
    BY <1>1, <1>2, <1>b, <2>1 DEF OpenQuestion, With
  <2>3. ReplayEvent(r, e) = Regenerated(r, OpenQuestion(r, e), e)
    BY <1>2, <2>1 DEF ReplayEvent, ReplayContinuity, Regenerated
  <2>4. QED
    BY <2>2, <2>3
<1>4. "questions" \in Tables
  BY DEF Tables
<1>5. QED
  BY <1>1, <1>3, <1>4, ContinuityTold

LEMMA CloseQuestionTold ==
  ASSUME NEW t, IsTxn(t), t.error = NONE, NEW q, NEW status \in {"ANSWERED", "DROPPED"}, NEW answer,
         NEW u, u = CloseQuestion(t, q, status, answer), u.error = NONE
  PROVE Retold(t, u)
<1>a. PICK old : old = t.store.questions
  OBVIOUS
<1>b. PICK target : target = old[q]
  OBVIOUS
<1>c. PICK closed : closed = [target EXCEPT !.status = status, !.version = @ + 1, !.answer = answer]
  OBVIOUS
<1>d. PICK table : table = [old EXCEPT ![q] = closed]
  OBVIOUS
<1>e. PICK e : e = [type |-> IF status = "ANSWERED" THEN "QUESTION_ANSWERED" ELSE "QUESTION_DROPPED",
                    target |-> q, answer |-> answer,
                    from |-> target.version, to |-> target.version + 1]
  OBVIOUS
<1>1. q \in DOMAIN old /\ target.status = "OPEN"
  BY <1>a, <1>b DEF CloseQuestion, Fail, IsTxn, NONE, CONFLICT
<1>2. ASSUME NEW r, r.store = t.store
      PROVE CloseQuestion(r, q, status, answer) = Emit(With(r, "questions", table), e)
  <2>1. CloseQuestion(r, q, status, answer) = Emit([r EXCEPT !.store.questions[q] = closed], e)
    BY <1>1, <1>2, <1>a, <1>b, <1>c, <1>e DEF CloseQuestion
  <2>2. [r EXCEPT !.store.questions[q] = closed] = With(r, "questions", table)
    BY <1>2, <1>a, <1>d DEF With
  <2>3. QED
    BY <2>1, <2>2
<1>3. u = Emit(With(t, "questions", table), e)
  BY <1>2
<1>4. /\ e.type = IF status = "ANSWERED" THEN "QUESTION_ANSWERED" ELSE "QUESTION_DROPPED"
      /\ e.target = q /\ e.answer = answer
  BY <1>e
<1>5. ASSUME NEW r, Mirrors(r, t.store)
      PROVE ReplayEvent(r, e) = Regenerated(r, Emit(With(r, "questions", table), e), e)
  <2>1. r.store = t.store /\ r.error = NONE
    BY <1>5 DEF Mirrors
  <2>2. CloseQuestion(r, q, status, answer) = Emit(With(r, "questions", table), e)
    BY <1>2, <2>1
  <2>3. status = IF e.type = "QUESTION_ANSWERED" THEN "ANSWERED" ELSE "DROPPED"
    BY <1>4
  <2>4. ReplayEvent(r, e) = Regenerated(r, CloseQuestion(r, q, status, answer), e)
    BY <1>4, <2>1, <2>3 DEF ReplayEvent, ReplayContinuity, Regenerated
  <2>5. QED
    BY <2>2, <2>4
<1>6. "questions" \in Tables
  BY DEF Tables
<1>7. QED
  BY <1>3, <1>5, <1>6, ContinuityTold

LEMMA CreateWorkItemTold ==
  ASSUME NEW t, IsTxn(t), t.error = NONE, NEW op,
         NEW u, u = CreateWorkItem(t, op), u.error = NONE
  PROVE Retold(t, u)
<1>a. PICK e : e = [type |-> "WORK_ITEM_CREATED", item |-> op.item, refs |-> op.refs]
  OBVIOUS
<1>b. PICK table : table = Put(t.store.work, op.item,
                               [status |-> "TODO", version |-> 1, blocked |-> FALSE, refs |-> op.refs])
  OBVIOUS
<1>1. /\ u = Emit(With(t, "work", table), e)
      /\ op.item \notin DOMAIN t.store.work
  BY <1>a, <1>b DEF With, CreateWorkItem, Fail, IsTxn, NONE, INVALID
<1>2. e.type = "WORK_ITEM_CREATED" /\ e.item = op.item /\ e.refs = op.refs
      /\ e = [type |-> "WORK_ITEM_CREATED", item |-> e.item, refs |-> e.refs]
  BY <1>a
<1>3. ASSUME NEW r, Mirrors(r, t.store)
      PROVE ReplayEvent(r, e) = Regenerated(r, Emit(With(r, "work", table), e), e)
  <2>1. r.store = t.store /\ r.error = NONE
    BY <1>3 DEF Mirrors
  <2>2. CreateWorkItem(r, e) = Emit(With(r, "work", table), e)
    BY <1>1, <1>2, <1>b, <2>1 DEF CreateWorkItem, With
  <2>3. ReplayEvent(r, e) = Regenerated(r, CreateWorkItem(r, e), e)
    BY <1>2, <2>1 DEF ReplayEvent, ReplayContinuity, Regenerated
  <2>4. QED
    BY <2>2, <2>3
<1>4. "work" \in Tables
  BY DEF Tables
<1>5. QED
  BY <1>1, <1>3, <1>4, ContinuityTold

LEMMA UpdateWorkItemStatusTold ==
  ASSUME NEW t, IsTxn(t), t.error = NONE, NEW op,
         NEW u, u = UpdateWorkItemStatus(t, op), u.error = NONE
  PROVE Retold(t, u)
<1>a. PICK old : old = t.store.work
  OBVIOUS
<1>b. PICK target : target = old[op.target]
  OBVIOUS
<1>c. PICK changed : changed = [target EXCEPT !.status = op.status, !.version = @ + 1,
                                              !.blocked = op.blocked]
  OBVIOUS
<1>d. PICK table : table = [old EXCEPT ![op.target] = changed]
  OBVIOUS
<1>e. PICK e : e = [type |-> "WORK_ITEM_STATUS_UPDATED", target |-> op.target,
                    was |-> target.status, status |-> op.status, blocked |-> op.blocked,
                    from |-> target.version, to |-> target.version + 1]
  OBVIOUS
<1>1. /\ op.target \in DOMAIN old /\ op.status \in WorkItemStatuses
      /\ (op.status = "BLOCKED") = op.blocked
  BY <1>a DEF UpdateWorkItemStatus, Fail, IsTxn, NONE, CONFLICT, INVALID
<1>2. e.type = "WORK_ITEM_STATUS_UPDATED" /\ e.target = op.target /\ e.status = op.status
      /\ e.blocked = op.blocked
  BY <1>e
<1>3. ASSUME NEW r, r.store = t.store, NEW o, o.target = op.target, o.status = op.status,
             o.blocked = op.blocked
      PROVE UpdateWorkItemStatus(r, o) = Emit(With(r, "work", table), e)
  <2>1. UpdateWorkItemStatus(r, o) = Emit([r EXCEPT !.store.work[op.target] = changed], e)
    BY <1>1, <1>3, <1>a, <1>b, <1>c, <1>e DEF UpdateWorkItemStatus
  <2>2. [r EXCEPT !.store.work[op.target] = changed] = With(r, "work", table)
    BY <1>3, <1>a, <1>d DEF With
  <2>3. QED
    BY <2>1, <2>2
<1>4. u = Emit(With(t, "work", table), e)
  BY <1>3
<1>5. ASSUME NEW r, Mirrors(r, t.store)
      PROVE ReplayEvent(r, e) = Regenerated(r, Emit(With(r, "work", table), e), e)
  <2>1. r.store = t.store /\ r.error = NONE
    BY <1>5 DEF Mirrors
  <2>2. UpdateWorkItemStatus(r, e) = Emit(With(r, "work", table), e)
    BY <1>2, <1>3, <2>1
  <2>3. ReplayEvent(r, e) = Regenerated(r, UpdateWorkItemStatus(r, e), e)
    BY <1>2, <2>1 DEF ReplayEvent, ReplayContinuity, Regenerated
  <2>4. QED
    BY <2>2, <2>3
<1>6. "work" \in Tables
  BY DEF Tables
<1>7. QED
  BY <1>4, <1>5, <1>6, ContinuityTold

LEMMA RetractClaimTold ==
  ASSUME NEW t, IsTxn(t), t.error = NONE, NEW op, NEW who,
         NEW u, u = RetractClaim(t, op, who), u.error = NONE
  PROVE Retold(t, u)
<1>a. PICK e : e = [type |-> "CLAIM_RETRACTED", target |-> op.target]
  OBVIOUS
<1>1. op.target \in Active(t.store)
  BY DEF RetractClaim, Fail, IsTxn, NONE, CONFLICT, IsActive
<1>2. u = Emit([t EXCEPT !.store = Close(t.store, op.target, "RETRACTED", NONE)], e)
  BY <1>a DEF RetractClaim, Fail, IsTxn, NONE, CONFLICT, INVALID
<1>3. e.target = op.target /\ e.type = "CLAIM_RETRACTED"
  BY <1>a
<1>4. ASSUME NEW r, r.error = NONE
      PROVE ReplayEvent(r, e) = ReplayClose(r, e, "RETRACTED", NONE)
  BY <1>3, <1>4 DEF ReplayEvent
<1>5. QED
  BY <1>1, <1>2, <1>3, <1>4, CloseTold

LEMMA ResolveConflictTold ==
  ASSUME NEW t, IsTxn(t), t.error = NONE, NEW op, NEW who,
         NEW u, u = ResolveConflict(t, op, who), u.error = NONE
  PROVE Retold(t, u)
<1>a. PICK old : old = t.store.conflicts
  OBVIOUS
<1>b. PICK k : k = op.conflict
  OBVIOUS
<1>c. PICK decision : decision = {[selected |-> op.selected, rejected |-> op.rejected]}
  OBVIOUS
<1>d. PICK row : row = [old[k] EXCEPT !.status = "RESOLVED", !.version = @ + 1,
                                      !.resolution = decision]
  OBVIOUS
<1>e. PICK e : e = [type |-> "CONFLICT_RESOLVED", id |-> k, resolution |-> decision]
  OBVIOUS
<1>f. PICK table : table = [old EXCEPT ![k] = row]
  OBVIOUS
<1>1. k \in DOMAIN old /\ old[k].status = "OPEN"
  BY <1>a, <1>b DEF ResolveConflict, Fail, IsTxn, NONE, CONFLICT, INVALID
<1>2. ASSUME NEW r, r.store = t.store
      PROVE [r EXCEPT !.store.conflicts[k] = row] = With(r, "conflicts", table)
  BY <1>2, <1>a, <1>f DEF With
<1>3. u = Emit(With(t, "conflicts", table), e)
  <2>1. u = Emit([t EXCEPT !.store.conflicts[k] = row], e)
    BY <1>a, <1>b, <1>c, <1>d, <1>e DEF ResolveConflict, Fail, IsTxn, NONE, CONFLICT, INVALID
  <2>2. QED
    BY <1>2, <2>1
<1>4. "conflicts" \in Tables
  BY DEF Tables
<1>5. ASSUME NEW r, Mirrors(r, t.store) PROVE Mirrors(ReplayEvent(r, e), u.store)
  <2>1. r.store = t.store /\ r.error = NONE
    BY <1>5 DEF Mirrors
  <2>2. e.type = "CONFLICT_RESOLVED" /\ e.id = k /\ e.resolution = decision
    BY <1>e
  <2>3. ReplayEvent(r, e) = ReplayResolve(r, e)
    BY <2>1, <2>2 DEF ReplayEvent
  <2>4. ReplayResolve(r, e) = [r EXCEPT !.store.conflicts[k] = row]
    BY <1>1, <1>a, <1>d, <2>1, <2>2 DEF ReplayResolve
  <2>a. PICK v : v = With(r, "conflicts", table)
    OBVIOUS
  <2>5. Mirrors(v, u.store)
    BY <1>3, <1>4, <1>5, <2>a, MirrorWith
  <2>6. QED
    BY <1>2, <2>1, <2>3, <2>4, <2>5, <2>a
<1>6. u.events = Append(t.events, e)
  BY <1>3, <1>4, OneTable
<1>7. QED
  BY <1>5, <1>6, Told

LEMMA AttachEvidenceTold ==
  ASSUME NEW t, IsTxn(t), Rows(t.store), t.error = NONE, NEW op,
         NEW u, u = AttachEvidence(t, op), u.error = NONE
  PROVE Retold(t, u)
<1>a. PICK claim : claim = Link[op.link].claim
  OBVIOUS
<1>b. PICK row : row = [t.store.claims[claim] EXCEPT !.version = @ + 1]
  OBVIOUS
<1>c. PICK s : s = InsertEvidence([t.store EXCEPT !.claims[claim] = row], {op.link})
  OBVIOUS
<1>d. PICK e : e = [type |-> "EVIDENCE_ATTACHED", link |-> op.link]
  OBVIOUS
<1>1. IsActive(t.store, claim) /\ EvidenceFits(t.store, op.link, claim)
  BY <1>a DEF AttachEvidence, Fail, IsTxn, NONE, CONFLICT, INVALID
<1>2. ASSUME NEW r, r.store = t.store, NEW o, o.link = op.link
      PROVE AttachEvidence(r, o) = Emit([r EXCEPT !.store = s], e)
  BY <1>1, <1>2, <1>a, <1>b, <1>c, <1>d DEF AttachEvidence
<1>3. u = Emit([t EXCEPT !.store = s], e)
  BY <1>2
<1>4. IsTxn(u)
  BY AttachEvidenceDoes DEF Quiet, Follows
<1>5. u.store = s
  BY <1>3 DEF Emit, IsTxn
<1>6. Shaped(s)
  BY <1>4, <1>5 DEF IsTxn
<1>7. ASSUME NEW r, IsTxn(r), NEW v, v = Emit([r EXCEPT !.store = s], e)
      PROVE IsTxn(v) /\ v.store = s /\ v.events = Append(r.events, e) /\ v.error = r.error
  <2>1. v = Emit([store |-> s, events |-> r.events, opened |-> r.opened, error |-> r.error], e)
    BY <1>7 DEF IsTxn
  <2>2. IsTxn(v) /\ Moved(r, v, s, e)
    BY <1>6, <1>7, <2>1, EmitIs
  <2>3. QED
    BY <2>2 DEF Moved
<1>8. ASSUME NEW r, Mirrors(r, t.store) PROVE Mirrors(ReplayEvent(r, e), u.store)
  <2>1. r.store = t.store /\ r.error = NONE /\ IsTxn(r)
    BY <1>8 DEF Mirrors
  <2>2. e.type = "EVIDENCE_ATTACHED" /\ e.link = op.link
    BY <1>d
  <2>3. ReplayEvent(r, e) = AttachEvidence(r, e)
    BY <2>1, <2>2 DEF ReplayEvent
  <2>a. PICK v : v = Emit([r EXCEPT !.store = s], e)
    OBVIOUS
  <2>4. ReplayEvent(r, e) = v
    BY <1>2, <2>1, <2>2, <2>3, <2>a
  <2>5. IsTxn(v) /\ v.store = s /\ v.error = NONE
    BY <1>7, <2>1, <2>a
  <2>6. QED
    BY <1>5, <2>4, <2>5 DEF Mirrors
<1>9. u.events = Append(t.events, e)
  BY <1>3, <1>7
<1>10. QED
  BY <1>8, <1>9, Told

\* The events of an operation tell all it has done.
LEMMA OperationTold ==
  ASSUME NEW s, Rows(s), NEW D, NEW t, Progress(s, D, t, {}),
         NEW op, op.op \in OperationKinds, NEW who, NEW seq,
         NEW u, u = ApplyOperation(t, op, who, seq), u.error = NONE
  PROVE Retold(t, u)
<1>1. t.error = NONE
  BY DEF ApplyOperation
<1>2. IsTxn(t) /\ Rows(t.store)
  BY DEF Progress
<1>3. CASE op.op = "REGISTER_SOURCE_REVISION"
  <2>1. u = RegisterSource(t, op)
    BY <1>1, <1>3 DEF ApplyOperation
  <2>2. QED
    BY <1>1, <1>2, <2>1, RegisterSourceTold
<1>4. CASE op.op = "ASSERT_CLAIM"
  <2>1. u = AssertClaim(t, op.claim, op.links, {}, seq)
    BY <1>1, <1>4 DEF ApplyOperation
  <2>2. (\A k \in DOMAIN t.store.conflicts : k \subseteq DOMAIN t.store.claims) /\ Founded(t.store)
    BY DEF Progress
  <2>3. Asserted(t, u, op.claim, {})
    BY <1>1, <1>2, <2>1, <2>2, AssertClaimDoes
  <2>4. QED
    BY <2>3 DEF Asserted
<1>5. CASE op.op = "ATTACH_EVIDENCE"
  <2>1. u = AttachEvidence(t, op)
    BY <1>1, <1>5 DEF ApplyOperation
  <2>2. QED
    BY <1>1, <1>2, <2>1, AttachEvidenceTold
<1>6. CASE op.op = "SUPERSEDE_CLAIM"
  <2>1. u = SupersedeClaim(t, op, seq)
    BY <1>1, <1>6 DEF ApplyOperation
  <2>2. QED
    BY <1>1, <2>1, SupersedeClaimDoes
<1>7. CASE op.op = "RETRACT_CLAIM"
  <2>1. u = RetractClaim(t, op, who)
    BY <1>1, <1>7 DEF ApplyOperation
  <2>2. QED
    BY <1>1, <1>2, <2>1, RetractClaimTold
<1>8. CASE op.op = "RESOLVE_CONFLICT"
  <2>1. u = ResolveConflict(t, op, who)
    BY <1>1, <1>8 DEF ApplyOperation
  <2>2. QED
    BY <1>1, <1>2, <2>1, ResolveConflictTold
<1>9. CASE op.op = "RECORD_DECISION"
  <2>1. u = RecordDecision(t, op)
    BY <1>1, <1>9 DEF ApplyOperation
  <2>2. QED
    BY <1>1, <1>2, <2>1, RecordDecisionTold
<1>10. CASE op.op = "SUPERSEDE_DECISION"
  <2>1. u = SupersedeDecision(t, op)
    BY <1>1, <1>10 DEF ApplyOperation
  <2>2. QED
    BY <1>1, <1>2, <2>1, SupersedeDecisionTold
<1>11. CASE op.op = "OPEN_QUESTION"
  <2>1. u = OpenQuestion(t, op)
    BY <1>1, <1>11 DEF ApplyOperation
  <2>2. QED
    BY <1>1, <1>2, <2>1, OpenQuestionTold
<1>12. CASE op.op \in {"ANSWER_QUESTION", "DROP_QUESTION"}
  <2>1. PICK status \in {"ANSWERED", "DROPPED"}, answer \in {{op.answer}, {}} :
          u = CloseQuestion(t, op.target, status, answer)
    BY <1>1, <1>12 DEF ApplyOperation, AnswerQuestion, DropQuestion
  <2>2. QED
    BY <1>1, <1>2, <2>1, CloseQuestionTold
<1>13. CASE op.op = "CREATE_WORK_ITEM"
  <2>1. u = CreateWorkItem(t, op)
    BY <1>1, <1>13 DEF ApplyOperation
  <2>2. QED
    BY <1>1, <1>2, <2>1, CreateWorkItemTold
<1>14. CASE op.op = "UPDATE_WORK_ITEM_STATUS"
  <2>1. u = UpdateWorkItemStatus(t, op)
    BY <1>1, <1>14 DEF ApplyOperation
  <2>2. QED
    BY <1>1, <1>2, <2>1, UpdateWorkItemStatusTold
<1>15. QED
  BY <1>3, <1>4, <1>5, <1>6, <1>7, <1>8, <1>9, <1>10, <1>11, <1>12, <1>13, <1>14
     DEF OperationKinds

LEMMA RequiredReadsAre ==
  ASSUME NEW op, NEW r \in RequiredReads(op)
  PROVE r = <<r[1], r[2]>> /\ r[1] \in Aggregates
<1>1. \E id : r \in {<<"claims", id>>, <<"conflicts", id>>, <<"decisions", id>>,
                     <<"questions", id>>, <<"work", id>>}
  BY DEF RequiredReads
<1>2. QED
  BY <1>1 DEF Aggregates

\* An accepted proposal.
LEMMA EvaluateIs ==
  ASSUME NEW s, NEW D, Good(s, D), NEW p, NEW seq,
         NEW u, u = Evaluate(p, s, seq), u.error = NONE
  PROVE /\ WellFormed(p) /\ ReadsHold(s, p) /\ \A g \in p.guards : GuardHolds(s, g)
        /\ \A i \in DOMAIN p.ops : \A r \in RequiredReads(p.ops[i]) :
             r[2] \in DOMAIN s[r[1]] /\ s[r[1]][r[2]].version = p.reads[r]
        /\ Progress(s, D, u, {}) /\ ActedOn(p, s, u, Len(p.ops))
<1>1. Fail(Start(s), INVALID).error # NONE /\ Fail(Start(s), CONFLICT).error # NONE
  BY DEF Fail, Start, NONE, INVALID, CONFLICT
<1>2. /\ WellFormed(p) /\ ReadsRequired(p) /\ ReadsHold(s, p)
      /\ \A g \in p.guards : GuardHolds(s, g)
      /\ u = Transactions(p, s, seq)[Len(p.ops)]
  BY <1>1 DEF Evaluate
<1>3. ASSUME NEW i \in DOMAIN p.ops, NEW r \in RequiredReads(p.ops[i])
      PROVE r[2] \in DOMAIN s[r[1]] /\ s[r[1]][r[2]].version = p.reads[r]
  <2>1. r \in DOMAIN p.reads
    BY <1>2 DEF ReadsRequired
  <2>2. ReadHolds(s, r, p.reads[r])
    BY <1>2, <2>1 DEF ReadsHold
  <2>3. r[1] # "sources"
    BY RequiredReadsAre DEF Aggregates
  <2>4. QED
    BY <2>2, <2>3 DEF ReadHolds, RowIs
<1>4. ReadsExist(p, s)
  <2>1. DOMAIN p.ops = 1 .. Len(p.ops)
    BY <1>2 DEF WellFormed
  <2>2. QED
    BY <1>3, <2>1 DEF ReadsExist
<1>5. Progress(s, D, u, {}) /\ ActedOn(p, s, u, Len(p.ops))
  <2>a. PICK t : t = Transactions(p, s, seq)
    OBVIOUS
  <2>1. t[Len(p.ops)].error = NONE
    BY <1>2, <2>a
  <2>2. Progress(s, D, t[Len(p.ops)], {}) /\ ActedOn(p, s, t[Len(p.ops)], Len(p.ops))
    BY <1>2, <1>4, <2>a, <2>1, OperationsDo
  <2>3. QED
    BY <1>2, <2>a, <2>2
<1>6. QED
  BY <1>2, <1>3, <1>5

-----------------------------------------------------------------------------
(* The entries of the ledger.                                              *)

\* The aggregate versions a proposal acts upon, and the active claims of a
\* family it has read, or demands that there be none of.
ConsumedBy(p) ==
  {<<r, p.reads[r]>> : r \in UNION {RequiredReads(p.ops[i]) : i \in DOMAIN p.ops}}
Seen(p, f) == IF f \in DOMAIN p.sets THEN {entry[1] : entry \in p.sets[f]} ELSE {}
Demanded(p) == {g.family : g \in {h \in p.guards : h.op = "NO_ACTIVE_CLAIM"}}
Own(entry, f) == {x \in AssertedIn(entry.events) : Claim[x].family = f}

\* The claims an entry asserts in a family contradict nothing its author saw.
Careful(entry, f) ==
  \A x \in Own(entry, f), y \in Seen(entry.proposal, f) \cup Own(entry, f) :
    x = y \/ ConflictKind(Claim[x], Claim[y]) = NONE

\* What stays true of an entry.
Past(q, s) ==
  /\ q[1][1] \in Aggregates /\ q[1][2] \in DOMAIN s[q[1][1]]
  /\ q[2] \in Nat /\ s[q[1][1]][q[1][2]].version > q[2]
EntryKept(entry, s) ==
  /\ \A q \in ConsumedBy(entry.proposal) : Past(q, s)
  /\ \A k \in entry.opened :
       /\ k \in DOMAIN s.conflicts
       /\ \A f \in DOMAIN entry.proposal.sets \cup Demanded(entry.proposal) :
            Careful(entry, f) => s.conflicts[k].family # f

LEMMA EntryStays ==
  ASSUME NEW s, NEW r, Rows(s), Rows(r), Later(s, r), Kin(s.conflicts, r.conflicts),
         NEW entry, EntryKept(entry, s)
  PROVE EntryKept(entry, r)
<1>1. ASSUME NEW q \in ConsumedBy(entry.proposal)
      PROVE Past(q, r)
  <2>a. PICK n : n = q[1][1]
    OBVIOUS
  <2>b. PICK id : id = q[1][2]
    OBVIOUS
  <2>c. PICK v : v = q[2]
    OBVIOUS
  <2>1. n \in Aggregates /\ id \in DOMAIN s[n] /\ v \in Nat /\ s[n][id].version > v
    BY <2>a, <2>b, <2>c DEF EntryKept, Past
  <2>2. id \in DOMAIN r[n] /\ r[n][id].version >= s[n][id].version
    BY <2>1 DEF Later, LaterTable
  <2>3. r[n][id].version \in Nat /\ s[n][id].version \in Nat
    BY <2>1, <2>2 DEF Rows, IsTable
  <2>4. r[n][id].version > v
    BY <2>1, <2>2, <2>3
  <2>5. QED
    BY <2>1, <2>2, <2>4, <2>a, <2>b, <2>c DEF Past
<1>2. ASSUME NEW k \in entry.opened
      PROVE /\ k \in DOMAIN r.conflicts
            /\ \A f \in DOMAIN entry.proposal.sets \cup Demanded(entry.proposal) :
                 Careful(entry, f) => r.conflicts[k].family # f
  BY DEF EntryKept, Kin
<1>3. QED
  BY <1>1, <1>2 DEF EntryKept

LEMMA EntryIsNew ==
  ASSUME NEW s, NEW D, Good(s, D), NEW p, NEW seq,
         NEW u, u = Evaluate(p, s, seq), u.error = NONE,
         NEW entry, entry.proposal = p, entry.events = u.events, entry.opened = u.opened
  PROVE /\ EntryKept(entry, u.store)
        /\ \A q \in ConsumedBy(p) : ~ Past(q, s)
<1>1. /\ WellFormed(p) /\ ReadsHold(s, p) /\ \A g \in p.guards : GuardHolds(s, g)
      /\ \A i \in DOMAIN p.ops : \A r \in RequiredReads(p.ops[i]) :
           r[2] \in DOMAIN s[r[1]] /\ s[r[1]][r[2]].version = p.reads[r]
      /\ Progress(s, D, u, {}) /\ ActedOn(p, s, u, Len(p.ops))
  BY EvaluateIs
<1>2. Rows(s) /\ Rows(u.store)
  BY <1>1 DEF Good, Progress
<1>3. ASSUME NEW q \in ConsumedBy(p)
      PROVE Past(q, u.store) /\ ~ Past(q, s)
  <2>0. PICK i \in DOMAIN p.ops : \E r \in RequiredReads(p.ops[i]) : q = <<r, p.reads[r]>>
    BY DEF ConsumedBy
  <2>1. PICK r \in RequiredReads(p.ops[i]) : q = <<r, p.reads[r]>>
    BY <2>0
  <2>2. i \in 1 .. Len(p.ops)
    BY <1>1 DEF WellFormed
  <2>a. PICK n : n = r[1]
    OBVIOUS
  <2>b. PICK id : id = r[2]
    OBVIOUS
  <2>c. PICK v : v = p.reads[r]
    OBVIOUS
  <2>3. q[1][1] = n /\ q[1][2] = id /\ q[2] = v
    BY <2>1, <2>a, <2>b, <2>c
  <2>4. n \in Aggregates /\ id \in DOMAIN s[n] /\ s[n][id].version = v
    BY <1>1, <2>a, <2>b, <2>c, RequiredReadsAre
  <2>5. id \in DOMAIN u.store[n] /\ u.store[n][id].version > s[n][id].version
    BY <1>1, <2>2, <2>a, <2>b DEF ActedOn, Bumped
  <2>6. v \in Nat
    BY <1>2, <2>4 DEF Rows, IsTable
  <2>7. ~ (s[n][id].version > v)
    BY <2>4, <2>6
  <2>8. QED
    BY <2>3, <2>4, <2>5, <2>6, <2>7 DEF Past
<1>4. ASSUME NEW k \in u.opened,
             NEW f \in DOMAIN p.sets \cup Demanded(p), Careful(entry, f)
      PROVE u.store.conflicts[k].family # f
  <2> SUFFICES ASSUME u.store.conflicts[k].family = f PROVE FALSE
    OBVIOUS
  <2>1. PICK x \in AssertedIn(u.events), y \in Active(s) \cup AssertedIn(u.events) :
          Contradictory(x, y) /\ Claim[x].family = f
    BY <1>1 DEF Progress, Grounded
  <2>2. x # y /\ Claim[y].family = f /\ ConflictKind(Claim[x], Claim[y]) # NONE
    BY <2>1 DEF Contradictory
  <2>3. x \in Own(entry, f) /\ (y \in AssertedIn(u.events) => y \in Own(entry, f))
    BY <2>1, <2>2 DEF Own
  <2>4. y \notin Own(entry, f) \cup Seen(p, f)
    BY <1>4, <2>2, <2>3 DEF Careful
  <2>5. y \in ActiveFamily(s, f)
    BY <2>1, <2>2, <2>3, <2>4 DEF ActiveFamily
  <2>6. CASE f \in DOMAIN p.sets
    <3>1. p.sets[f] = ActiveSetDigest(s, f)
      BY <1>1, <2>6 DEF ReadsHold
    <3>2. <<y, s.claims[y].version>> \in p.sets[f]
      BY <2>5, <3>1 DEF ActiveSetDigest
    <3>3. y \in Seen(p, f)
      <4>1. <<y, s.claims[y].version>>[1] = y
        OBVIOUS
      <4>2. QED
        BY <2>6, <3>2, <4>1 DEF Seen
    <3>4. QED
      BY <2>4, <3>3
  <2>7. CASE f \in Demanded(p)
    <3>1. PICK g \in p.guards : g.op = "NO_ACTIVE_CLAIM" /\ g.family = f
      BY <2>7 DEF Demanded
    <3>2. GuardHolds(s, g)
      BY <1>1
    <3>3. ActiveFamily(s, f) = {}
      BY <3>1, <3>2 DEF GuardHolds
    <3>4. QED
      BY <2>5, <3>3
  <2>8. QED
    BY <2>6, <2>7
<1>5. \A k \in u.opened : k \in DOMAIN u.store.conflicts
  BY <1>1 DEF Progress
<1>6. QED
  BY <1>3, <1>4, <1>5 DEF EntryKept

-----------------------------------------------------------------------------
(* The inductive invariant.                                                *)

\* The pairs of claims that resolutions of the ledger have decided.
DecidedPairs(L) ==
  {q \in (DOMAIN Claim) \X (DOMAIN Claim) :
     \E n \in DOMAIN L : DecidedIn(L[n].events, {q[1], q[2]})}

\* What is not decided shows; what an entry says of its reads stays so; and no
\* two entries act upon one version of an aggregate.
Accounted(L, s) ==
  /\ IsList(L)
  /\ Good(s, DecidedPairs(L))
  /\ \A n \in DOMAIN L : EntryKept(L[n], s)
  /\ \A m, n \in DOMAIN L :
       m # n => ConsumedBy(L[m].proposal) \cap ConsumedBy(L[n].proposal) = {}
KernelInv == Accounted(ledger, store)

LEMMA KernelInit == Init => KernelInv
<1> SUFFICES ASSUME Init PROVE KernelInv
  OBVIOUS
<1>1. ledger = <<>> /\ IsList(ledger) /\ DOMAIN ledger = {}
  BY DEF Init, IsList
<1>2. /\ Shaped(store) /\ \A n \in Tables : DOMAIN store[n] = {}
  BY DEF Init, EmptyStore, EmptyTable, Shaped, Tables
<1>3. {"claims", "conflicts"} \subseteq Tables /\ Aggregates \subseteq Tables
  BY DEF Tables, Aggregates
<1>4. Rows(store)
  BY <1>2, <1>3 DEF Rows, IsTable
<1>5. DOMAIN store.claims = {} /\ DOMAIN store.conflicts = {} /\ Active(store) = {}
  BY <1>2, <1>3 DEF Active
<1>6. Good(store, DecidedPairs(ledger))
  BY <1>2, <1>4, <1>5 DEF Good, Founded
<1>7. QED
  BY <1>1, <1>6 DEF KernelInv, Accounted

\* The ledger and the store a commit leaves.
LEMMA CommitKeeps ==
  ASSUME NEW L, NEW s, Accounted(L, s),
         NEW p, NEW seq, NEW u, u = Evaluate(p, s, seq), u.error = NONE,
         NEW entry, entry.proposal = p, entry.events = u.events, entry.opened = u.opened,
         NEW M, M = Append(L, entry)
  PROVE Accounted(M, u.store)
<1>0. /\ IsList(L)
      /\ Good(s, DecidedPairs(L))
      /\ \A n \in DOMAIN L : EntryKept(L[n], s)
      /\ \A m, n \in DOMAIN L :
           m # n => ConsumedBy(L[m].proposal) \cap ConsumedBy(L[n].proposal) = {}
  BY DEF Accounted
<1>a. PICK D : D = DecidedPairs(L)
  OBVIOUS
<1>b. PICK last : last = Len(L) + 1
  OBVIOUS
<1>1. /\ IsList(M) /\ DOMAIN L = 1 .. Len(L) /\ Len(M) = last /\ Len(L) \in Nat
      /\ \A i \in DOMAIN L : M[i] = L[i]
      /\ M[last] = entry
  BY <1>0, <1>b, AppendToList DEF IsList
<1>2. DOMAIN M = DOMAIN L \cup {last} /\ last \notin DOMAIN L
  <2>1. DOMAIN M = 1 .. last
    BY <1>1 DEF IsList
  <2>2. QED
    BY <1>1, <1>b, <2>1
<1>3. Progress(s, D, u, {})
  BY <1>0, <1>a, EvaluateIs
<1>4. /\ EntryKept(entry, u.store)
      /\ \A q \in ConsumedBy(p) : ~ Past(q, s)
  BY <1>0, <1>a, EntryIsNew
<1>5. D \subseteq DecidedPairs(M)
  BY <1>a, <1>1, <1>2 DEF DecidedPairs
<1>6. Good(u.store, DecidedPairs(M))
  <2>1. Shaped(u.store) /\ Rows(u.store) /\ Founded(u.store) /\ DOMAIN u.store.claims \subseteq DOMAIN Claim
        /\ \A k \in DOMAIN u.store.conflicts : k \subseteq DOMAIN u.store.claims
    BY <1>3 DEF Progress, IsTxn
  <2>2. ASSUME NEW x \in Active(u.store), NEW y \in Active(u.store), Contradictory(x, y)
        PROVE \/ <<x, y>> \in DecidedPairs(M)
              \/ \E k \in DOMAIN u.store.conflicts :
                   u.store.conflicts[k].status = "OPEN"
                   /\ {x, y} \subseteq u.store.conflicts[k].members
    <3>1. Handled(D, u, x, y)
      BY <1>3, <2>2 DEF Progress
    <3>2. x \in DOMAIN Claim /\ y \in DOMAIN Claim
      BY <2>1 DEF Active
    <3>3. DecidedIn(u.events, {x, y}) => <<x, y>> \in DecidedPairs(M)
      <4> SUFFICES ASSUME DecidedIn(u.events, {x, y}) PROVE <<x, y>> \in DecidedPairs(M)
        OBVIOUS
      <4>a. PICK q : q = <<x, y>>
        OBVIOUS
      <4>1. q \in (DOMAIN Claim) \X (DOMAIN Claim) /\ q[1] = x /\ q[2] = y
        BY <3>2, <4>a
      <4>2. last \in DOMAIN M /\ DecidedIn(M[last].events, {q[1], q[2]})
        BY <1>1, <1>2, <4>1
      <4>3. QED
        BY <4>1, <4>2, <4>a DEF DecidedPairs
    <3>4. QED
      BY <1>5, <3>1, <3>3 DEF Handled
  <2>3. QED
    BY <2>1, <2>2 DEF Good
<1>7. ASSUME NEW n \in DOMAIN M PROVE EntryKept(M[n], u.store)
  <2>1. CASE n = last
    BY <1>1, <1>4, <2>1
  <2>2. CASE n \in DOMAIN L
    <3>1. Rows(s) /\ Rows(u.store) /\ Later(s, u.store) /\ Kin(s.conflicts, u.store.conflicts)
      BY <1>0, <1>3 DEF Good, Progress
    <3>2. EntryKept(L[n], u.store)
      BY <1>0, <2>2, <3>1, EntryStays
    <3>3. QED
      BY <1>1, <2>2, <3>2
  <2>3. QED
    BY <1>2, <2>1, <2>2
<1>8. ASSUME NEW n \in DOMAIN L
      PROVE ConsumedBy(L[n].proposal) \cap ConsumedBy(p) = {}
  BY <1>0, <1>4 DEF EntryKept
<1>9. ASSUME NEW m \in DOMAIN M, NEW n \in DOMAIN M, m # n
      PROVE ConsumedBy(M[m].proposal) \cap ConsumedBy(M[n].proposal) = {}
  <2>1. CASE m = last
    <3>1. n \in DOMAIN L
      BY <1>2, <1>9, <2>1
    <3>2. QED
      BY <1>1, <1>8, <2>1, <3>1
  <2>2. CASE n = last
    <3>1. m \in DOMAIN L
      BY <1>2, <1>9, <2>2
    <3>2. QED
      BY <1>1, <1>8, <2>2, <3>1
  <2>3. CASE m # last /\ n # last
    BY <1>0, <1>1, <1>2, <1>9, <2>3
  <2>4. QED
    BY <2>1, <2>2, <2>3
<1>10. QED
  BY <1>1, <1>6, <1>7, <1>9 DEF Accounted

LEMMA KernelStep == KernelInv /\ [Next]_vars => KernelInv'
<1> SUFFICES ASSUME KernelInv, [Next]_vars PROVE KernelInv'
  OBVIOUS
<1>1. CASE Next
  <2>1. PICK p \in Offered(Len(ledger), store) : Commit(p)
    BY <1>1 DEF Next
  <2>a. PICK u : u = Evaluate(p, store, Len(ledger) + 1)
    OBVIOUS
  <2>b. PICK entry : entry = [proposal |-> p, events |-> u.events, opened |-> u.opened,
                              outcome |-> IF u.opened = {} THEN "COMMITTED" ELSE "FACT_CONFLICT"]
    OBVIOUS
  <2>2. u.error = NONE /\ store' = u.store /\ ledger' = Append(ledger, entry)
    BY <2>1, <2>a, <2>b DEF Commit
  <2>3. entry.proposal = p /\ entry.events = u.events /\ entry.opened = u.opened
    BY <2>b
  <2>4. Accounted(ledger, store)
    BY DEF KernelInv
  <2>c. PICK M : M = Append(ledger, entry)
    OBVIOUS
  <2>5. Accounted(M, u.store)
    BY <2>2, <2>3, <2>4, <2>a, <2>c, CommitKeeps
  <2>6. ledger' = M /\ store' = u.store
    BY <2>2, <2>c
  <2>7. QED
    BY <2>5, <2>6 DEF KernelInv
<1>2. CASE UNCHANGED vars
  BY <1>2 DEF vars, KernelInv
<1>3. QED
  BY <1>1, <1>2

LEMMA KernelInvariant == Spec => []KernelInv
<1>1. QED
  BY KernelInit, KernelStep, PTL DEF Spec

-----------------------------------------------------------------------------
(* Theorems.                                                               *)

\* Contradictory claims remain visible: two active claims that contradict each
\* other are together in an open conflict, or in one that was resolved, whatever
\* operations batches put together and whatever callers offer.
THEOREM ContradictionsShow == Spec => []NoSilentContradiction
<1>1. KernelInv => NoSilentContradiction
  <2> SUFFICES ASSUME KernelInv, NEW x \in Active(store), NEW y \in Active(store),
                      x # y, Claim[x].family = Claim[y].family,
                      ConflictKind(Claim[x], Claim[y]) # NONE,
                      ~ \E k \in DOMAIN store.conflicts :
                          store.conflicts[k].status = "OPEN"
                          /\ {x, y} \subseteq store.conflicts[k].members
               PROVE \E at \in EventsOf({"CONFLICT_RESOLVED"}) :
                       \E r \in EventAt(at).resolution : {x, y} \subseteq r.selected \cup r.rejected
    BY DEF NoSilentContradiction
  <2>a. PICK q : q = <<x, y>>
    OBVIOUS
  <2>1. q \in DecidedPairs(ledger)
    BY <2>a DEF KernelInv, Accounted, Good, Contradictory
  <2>2. PICK n \in DOMAIN ledger : DecidedIn(ledger[n].events, {q[1], q[2]})
    BY <2>1 DEF DecidedPairs
  <2>3. q[1] = x /\ q[2] = y
    BY <2>a
  <2>4. PICK i \in DOMAIN ledger[n].events :
          /\ ledger[n].events[i].type = "CONFLICT_RESOLVED"
          /\ \E r \in ledger[n].events[i].resolution : {x, y} \subseteq r.selected \cup r.rejected
    BY <2>2, <2>3 DEF DecidedIn
  <2>b. PICK at : at = <<n, i>>
    OBVIOUS
  <2>5. at[1] = n /\ at[2] = i /\ at \in {n} \X DOMAIN ledger[n].events
    BY <2>b
  <2>6. at \in Positions
    BY <2>5 DEF Positions
  <2>7. EventAt(at) = ledger[n].events[i]
    BY <2>5 DEF EventAt
  <2>8. QED
    BY <2>4, <2>6, <2>7 DEF EventsOf
<1>2. QED
  BY <1>1, KernelInvariant, PTL

LEMMA AssertedAt ==
  ASSUME NEW n \in DOMAIN ledger
  PROVE {EventAt(at).claim : at \in {x \in EventsOf({"CLAIM_ASSERTED"}) : x[1] = n}}
          = AssertedIn(ledger[n].events)
<1> DEFINE Ats == {x \in EventsOf({"CLAIM_ASSERTED"}) : x[1] = n}
<1>1. ASSUME NEW at \in Ats
      PROVE EventAt(at).claim \in AssertedIn(ledger[n].events)
  <2>1. at \in Positions /\ at[1] = n /\ EventAt(at).type = "CLAIM_ASSERTED"
    BY DEF EventsOf
  <2>2. PICK m \in DOMAIN ledger : at \in {m} \X DOMAIN ledger[m].events
    BY <2>1 DEF Positions
  <2>3. at[1] = m /\ at[2] \in DOMAIN ledger[m].events
    BY <2>2
  <2>4. QED
    BY <2>1, <2>3 DEF EventAt, AssertedIn
<1>2. ASSUME NEW c \in AssertedIn(ledger[n].events)
      PROVE \E at \in Ats : c = EventAt(at).claim
  <2>1. PICK i \in DOMAIN ledger[n].events :
          ledger[n].events[i].type = "CLAIM_ASSERTED" /\ c = ledger[n].events[i].claim
    BY DEF AssertedIn
  <2>a. PICK at : at = <<n, i>>
    OBVIOUS
  <2>2. at[1] = n /\ at[2] = i /\ at \in {n} \X DOMAIN ledger[n].events
    BY <2>a
  <2>3. at \in Positions
    BY <2>2 DEF Positions
  <2>4. EventAt(at) = ledger[n].events[i]
    BY <2>2 DEF EventAt
  <2>5. QED
    BY <2>1, <2>2, <2>3, <2>4 DEF EventsOf
<1>3. QED
  BY <1>1, <1>2

\* What an accepted proposal read still held when it was decided: no claim slips
\* in between the read of an active set and the commit, and a version of an
\* aggregate is acted upon by one entry of the ledger at most.
THEOREM ReadsStayCurrent == Spec => []ReadsAreCurrent
<1>1. KernelInv => ReadsAreCurrent
  <2> SUFFICES ASSUME KernelInv PROVE ReadsAreCurrent
    OBVIOUS
  <2>1. \A n \in DOMAIN ledger : Consumed(n) = ConsumedBy(ledger[n].proposal)
    BY DEF Consumed, ConsumedBy
  <2>2. \A m, n \in DOMAIN ledger : m # n => Consumed(m) \cap Consumed(n) = {}
    BY <2>1 DEF KernelInv, Accounted
  <2>3. NoPhantom
    <3> SUFFICES ASSUME NEW n \in DOMAIN ledger
                 PROVE LET p == ledger[n].proposal
                           asserted == {EventAt(at).claim :
                                          at \in {x \in EventsOf({"CLAIM_ASSERTED"}) : x[1] = n}}
                           demanded == {g.family : g \in {h \in p.guards : h.op = "NO_ACTIVE_CLAIM"}}
                           seen(f) == IF f \in DOMAIN p.sets THEN {entry[1] : entry \in p.sets[f]} ELSE {}
                       IN \A f \in DOMAIN p.sets \cup demanded :
                            LET own == {x \in asserted : Claim[x].family = f}
                            IN (\A x \in own, y \in seen(f) \cup own :
                                  x = y \/ ConflictKind(Claim[x], Claim[y]) = NONE)
                               => \A k \in ledger[n].opened : store.conflicts[k].family # f
      BY DEF NoPhantom
    <3>1. EntryKept(ledger[n], store)
      BY DEF KernelInv, Accounted
    <3>2. {EventAt(at).claim : at \in {x \in EventsOf({"CLAIM_ASSERTED"}) : x[1] = n}}
            = AssertedIn(ledger[n].events)
      BY AssertedAt
    <3>3. \A f : {x \in AssertedIn(ledger[n].events) : Claim[x].family = f} = Own(ledger[n], f)
      BY DEF Own
    <3>4. QED
      BY <3>1, <3>2, <3>3 DEF EntryKept, Careful, Seen, Demanded
  <2>4. QED
    BY <2>2, <2>3 DEF ReadsAreCurrent
<1>2. QED
  BY <1>1, KernelInvariant, PTL

-----------------------------------------------------------------------------
(* The replay of the ledger.                                               *)

\* The transactions of a replay, event by event.
LEMMA ReplayedStep ==
  ASSUME NEW r, NEW E, Len(E) \in Nat
  PROVE LET t == Replayed(r, E)
        IN t[0] = r /\ \A i \in 1 .. Len(E) : t[i] = ReplayEvent(t[i - 1], E[i])
<1> DEFINE N == Len(E)
           Grows(f, n) == f = [i \in 0 .. n |-> IF i = 0 THEN r
                                               ELSE ReplayEvent(f[i - 1], E[i])]
           S == {n \in Nat : \E f : Grows(f, n)}
<1>1. Nat \subseteq S
  <2>1. 0 \in S
    <3>1. Grows([i \in 0 .. 0 |-> r], 0)
      BY Z3
    <3> QED BY <3>1
  <2>2. ASSUME NEW m \in Nat, m \in S PROVE m + 1 \in S
    <3>a. PICK n : n = m + 1
      OBVIOUS
    <3>1. n \in Nat /\ n # 0 /\ n - 1 = m
      BY <3>a
    <3>2. PICK f : Grows(f, n - 1)
      BY <2>2, <3>1
    <3> DEFINE g == [i \in 0 .. n |-> IF i = n THEN ReplayEvent(f[n - 1], E[n]) ELSE f[i]]
    <3>3. \A i \in 0 .. n - 1 : g[i] = f[i]
      BY <3>1
    <3>4. \A i \in 0 .. n : g[i] = IF i = 0 THEN r ELSE ReplayEvent(g[i - 1], E[i])
      <4> SUFFICES ASSUME NEW i \in 0 .. n
                   PROVE g[i] = IF i = 0 THEN r ELSE ReplayEvent(g[i - 1], E[i])
        OBVIOUS
      <4>1. CASE i = n
        <5>1. g[i] = ReplayEvent(f[n - 1], E[n])
          BY <4>1
        <5>2. g[i - 1] = f[n - 1]
          BY <3>1, <3>3, <4>1
        <5> QED BY <3>1, <4>1, <5>1, <5>2
      <4>2. CASE i # n
        <5>1. i \in 0 .. n - 1
          BY <3>1, <4>2
        <5>2. i # 0 => i - 1 \in 0 .. n - 1
          BY <3>1, <5>1
        <5>3. f[i] = IF i = 0 THEN r ELSE ReplayEvent(f[i - 1], E[i])
          BY <3>2, <5>1
        <5> HIDE DEF g
        <5> QED BY <3>3, <5>1, <5>2, <5>3
      <4> QED BY <4>1, <4>2
    <3>5. Grows(g, n)
      <4>1. g = [i \in 0 .. n |-> g[i]]
        OBVIOUS
      <4> HIDE DEF g
      <4> QED BY <3>4, <4>1
    <3> QED BY <3>1, <3>5, <3>a
  <2>3. QED
    <3> HIDE DEF S
    <3> QED BY <2>1, <2>2, NatSetInduction
<1>2. \E f : Grows(f, N)
  BY <1>1
<1>3. Replayed(r, E) = CHOOSE f : Grows(f, N)
  BY DEF Replayed
<1>4. Grows(Replayed(r, E), N)
  BY <1>2, <1>3
<1>5. QED
  <2> DEFINE t == Replayed(r, E)
  <2>1. \A i \in 0 .. N : t[i] = IF i = 0 THEN r ELSE ReplayEvent(t[i - 1], E[i])
    <3> HIDE DEF t
    <3> QED BY <1>4 DEF t
  <2> HIDE DEF t
  <2> QED BY <2>1 DEF t

\* The transactions of a replay, entry by entry.
LEMMA ReplayedEntriesStep ==
  ASSUME NEW L, Len(L) \in Nat
  PROVE LET t == ReplayedEntries(L)
        IN t[0] = Start(EmptyStore) /\ \A i \in 1 .. Len(L) : t[i] = ReplayEntry(t[i - 1], L[i])
<1> DEFINE N == Len(L)
           Grows(f, n) == f = [i \in 0 .. n |-> IF i = 0 THEN Start(EmptyStore)
                                               ELSE ReplayEntry(f[i - 1], L[i])]
           S == {n \in Nat : \E f : Grows(f, n)}
<1>1. Nat \subseteq S
  <2>1. 0 \in S
    <3>1. Grows([i \in 0 .. 0 |-> Start(EmptyStore)], 0)
      BY Z3
    <3> QED BY <3>1
  <2>2. ASSUME NEW m \in Nat, m \in S PROVE m + 1 \in S
    <3>a. PICK n : n = m + 1
      OBVIOUS
    <3>1. n \in Nat /\ n # 0 /\ n - 1 = m
      BY <3>a
    <3>2. PICK f : Grows(f, n - 1)
      BY <2>2, <3>1
    <3> DEFINE g == [i \in 0 .. n |-> IF i = n THEN ReplayEntry(f[n - 1], L[n]) ELSE f[i]]
    <3>3. \A i \in 0 .. n - 1 : g[i] = f[i]
      BY <3>1
    <3>4. \A i \in 0 .. n : g[i] = IF i = 0 THEN Start(EmptyStore) ELSE ReplayEntry(g[i - 1], L[i])
      <4> SUFFICES ASSUME NEW i \in 0 .. n
                   PROVE g[i] = IF i = 0 THEN Start(EmptyStore) ELSE ReplayEntry(g[i - 1], L[i])
        OBVIOUS
      <4>1. CASE i = n
        <5>1. g[i] = ReplayEntry(f[n - 1], L[n])
          BY <4>1
        <5>2. g[i - 1] = f[n - 1]
          BY <3>1, <3>3, <4>1
        <5> QED BY <3>1, <4>1, <5>1, <5>2
      <4>2. CASE i # n
        <5>1. i \in 0 .. n - 1
          BY <3>1, <4>2
        <5>2. i # 0 => i - 1 \in 0 .. n - 1
          BY <3>1, <5>1
        <5>3. f[i] = IF i = 0 THEN Start(EmptyStore) ELSE ReplayEntry(f[i - 1], L[i])
          BY <3>2, <5>1
        <5> HIDE DEF g
        <5> QED BY <3>3, <5>1, <5>2, <5>3
      <4> QED BY <4>1, <4>2
    <3>5. Grows(g, n)
      <4>1. g = [i \in 0 .. n |-> g[i]]
        OBVIOUS
      <4> HIDE DEF g
      <4> QED BY <3>4, <4>1
    <3> QED BY <3>1, <3>5, <3>a
  <2>3. QED
    <3> HIDE DEF S
    <3> QED BY <2>1, <2>2, NatSetInduction
<1>2. \E f : Grows(f, N)
  BY <1>1
<1>3. ReplayedEntries(L) = CHOOSE f : Grows(f, N)
  BY DEF ReplayedEntries
<1>4. Grows(ReplayedEntries(L), N)
  BY <1>2, <1>3
<1>5. QED
  <2> DEFINE t == ReplayedEntries(L)
  <2>1. \A i \in 0 .. N : t[i] = IF i = 0 THEN Start(EmptyStore) ELSE ReplayEntry(t[i - 1], L[i])
    <3> HIDE DEF t
    <3> QED BY <1>4 DEF t
  <2> HIDE DEF t
  <2> QED BY <2>1 DEF t

\* The events of a proposal tell all that its operations have done.
LEMMA OperationsTold ==
  ASSUME NEW s, NEW D, Good(s, D), NEW p, WellFormed(p), ReadsExist(p, s), NEW seq,
         NEW t, t = Transactions(p, s, seq), t[Len(p.ops)].error = NONE
  PROVE Retold(Start(s), t[Len(p.ops)])
<1> DEFINE N == Len(p.ops)
           S == {i \in Nat : i <= N /\ t[i].error = NONE
                               => Progress(s, D, t[i], {}) /\ Retold(Start(s), t[i])}
<1>1. N \in Nat /\ \A i \in 1 .. N : p.ops[i].op \in OperationKinds
  BY DEF WellFormed
<1>2. /\ t[0] = Start(s)
      /\ \A i \in 1 .. N : t[i] = ApplyOperation(t[i - 1], p.ops[i], p.proposer, seq)
  BY <1>1, TransactionsStep
<1>3. Rows(s)
  BY DEF Good
<1>4. 0 \in S
  BY <1>2, StartIs, RetoldReflexive
<1>5. ASSUME NEW n \in Nat, n \in S PROVE n + 1 \in S
  <2>a. PICK i : i = n + 1
    OBVIOUS
  <2> SUFFICES ASSUME i <= N, t[i].error = NONE
               PROVE Progress(s, D, t[i], {}) /\ Retold(Start(s), t[i])
    BY <2>a
  <2>b. PICK op : op = p.ops[i]
    OBVIOUS
  <2>c. PICK v : v = t[n]
    OBVIOUS
  <2>d. PICK u : u = t[i]
    OBVIOUS
  <2>1. i \in 1 .. N /\ i - 1 = n /\ n <= N
    BY <1>1, <2>a
  <2>2. u = ApplyOperation(v, op, p.proposer, seq) /\ u.error = NONE /\ op.op \in OperationKinds
    BY <1>1, <1>2, <2>1, <2>b, <2>c, <2>d
  <2>3. v.error = NONE
    BY <2>2 DEF ApplyOperation
  <2>4. Progress(s, D, v, {}) /\ Retold(Start(s), v)
    BY <1>5, <2>1, <2>3, <2>c
  <2>5. Advances(s, D, v, u, op)
    BY <1>3, <2>2, <2>4, OperationDoes
  <2>6. Retold(v, u)
    BY <1>3, <2>2, <2>4, OperationTold
  <2>7. Progress(s, D, u, {}) /\ Extends(v.events, u.events)
    BY <2>5 DEF Advances, Follows
  <2>8. Retold(Start(s), u)
    BY <2>4, <2>6, <2>7, RetoldTransitive
  <2>9. QED
    BY <2>7, <2>8, <2>d
<1>6. Nat \subseteq S
  <2> HIDE DEF S
  <2> QED BY <1>4, <1>5, NatSetInduction
<1>7. N \in S
  BY <1>1, <1>6
<1>8. QED
  BY <1>1, <1>7

LEMMA EvaluateTold ==
  ASSUME NEW s, NEW D, Good(s, D), NEW p, NEW seq,
         NEW u, u = Evaluate(p, s, seq), u.error = NONE
  PROVE ReferencesResolve(s, p.ops) /\ Retold(Start(s), u)
<1>1. Fail(Start(s), INVALID).error # NONE /\ Fail(Start(s), CONFLICT).error # NONE
  BY DEF Fail, Start, NONE, INVALID, CONFLICT
<1>2. ReferencesResolve(s, p.ops) /\ u = Transactions(p, s, seq)[Len(p.ops)]
  BY <1>1 DEF Evaluate
<1>3. /\ WellFormed(p)
      /\ \A i \in DOMAIN p.ops : \A r \in RequiredReads(p.ops[i]) : r[2] \in DOMAIN s[r[1]]
  BY EvaluateIs
<1>4. ReadsExist(p, s)
  BY <1>3 DEF ReadsExist, WellFormed
<1>a. PICK t : t = Transactions(p, s, seq)
  OBVIOUS
<1>5. t[Len(p.ops)].error = NONE
  BY <1>2, <1>a
<1>6. Retold(Start(s), t[Len(p.ops)])
  BY <1>3, <1>4, <1>a, <1>5, OperationsTold
<1>7. QED
  BY <1>2, <1>6, <1>a

\* A replay that mirrors the store a proposal was evaluated against mirrors the
\* one it left once the entry is replayed.
LEMMA EntryReplayed ==
  ASSUME NEW s, NEW D, Good(s, D), NEW p, NEW seq,
         NEW u, u = Evaluate(p, s, seq), u.error = NONE,
         NEW entry, entry.proposal = p, entry.events = u.events,
         NEW r, Mirrors(r, s)
  PROVE Mirrors(ReplayEntry(r, entry), u.store)
<1>a. PICK E : E = u.events
  OBVIOUS
<1>b. PICK R : R = Replayed(r, E)
  OBVIOUS
<1>1. ReferencesResolve(s, p.ops) /\ Retold(Start(s), u)
  BY EvaluateTold
<1>2. IsList(E) /\ Len(E) \in Nat
  <2>1. Progress(s, D, u, {})
    BY EvaluateIs
  <2>2. QED
    BY <2>1, <1>a DEF Progress, IsTxn, IsList
<1>3. R[0] = r /\ Replays(R, E)
  BY <1>2, <1>b, ReplayedStep DEF Replays
<1>4. Extends(u.events, E)
  BY <1>a DEF Extends
<1>5. Start(s).store = s /\ Len(Start(s).events) = 0
  BY DEF Start
<1>6. Mirrors(R[Len(E)], u.store)
  BY <1>1, <1>2, <1>3, <1>4, <1>5, <1>a DEF Retold
<1>7. r.store = s /\ r.error = NONE
  BY DEF Mirrors
<1>8. ReplayEntry(r, entry) = R[Len(E)]
  BY <1>1, <1>7, <1>a, <1>b DEF ReplayEntry
<1>9. QED
  BY <1>6, <1>8

\* An entry more is replayed after the others.
LEMMA ReplayGrows ==
  ASSUME NEW L, IsList(L), NEW entry, NEW M, M = Append(L, entry)
  PROVE ReplayedEntries(M)[Len(M)] = ReplayEntry(ReplayedEntries(L)[Len(L)], entry)
<1>a. PICK f : f = ReplayedEntries(L)
  OBVIOUS
<1>b. PICK g : g = ReplayedEntries(M)
  OBVIOUS
<1>c. PICK k : k = Len(L)
  OBVIOUS
<1>1. /\ k \in Nat /\ Len(M) = k + 1 /\ M[k + 1] = entry
      /\ \A i \in 1 .. k : M[i] = L[i]
  BY <1>c, AppendToList DEF IsList
<1>2. /\ f[0] = Start(EmptyStore)
      /\ \A i \in 1 .. k : f[i] = ReplayEntry(f[i - 1], L[i])
  BY <1>1, <1>a, <1>c, ReplayedEntriesStep
<1>3. /\ g[0] = Start(EmptyStore)
      /\ \A i \in 1 .. k + 1 : g[i] = ReplayEntry(g[i - 1], M[i])
  <2>1. Len(M) \in Nat
    BY <1>1
  <2>2. g[0] = Start(EmptyStore) /\ \A i \in 1 .. Len(M) : g[i] = ReplayEntry(g[i - 1], M[i])
    BY <2>1, <1>b, ReplayedEntriesStep
  <2>3. QED
    BY <1>1, <2>2
<1> DEFINE S == {i \in Nat : i <= k => g[i] = f[i]}
<1>4. 0 \in S
  BY <1>2, <1>3
<1>5. ASSUME NEW n \in Nat, n \in S PROVE n + 1 \in S
  <2>a. PICK i : i = n + 1
    OBVIOUS
  <2> SUFFICES ASSUME i <= k PROVE g[i] = f[i]
    BY <2>a
  <2>1. i \in 1 .. k /\ i \in 1 .. k + 1 /\ i - 1 = n /\ n <= k
    BY <1>1, <2>a
  <2>2. g[n] = f[n]
    BY <1>5, <2>1
  <2>3. g[i] = ReplayEntry(g[n], M[i]) /\ f[i] = ReplayEntry(f[n], L[i]) /\ M[i] = L[i]
    BY <1>1, <1>2, <1>3, <2>1
  <2>4. QED
    BY <2>2, <2>3
<1>6. Nat \subseteq S
  <2> HIDE DEF S
  <2> QED BY <1>4, <1>5, NatSetInduction
<1>7. g[k] = f[k]
  BY <1>1, <1>6
<1>8. k + 1 \in 1 .. k + 1 /\ (k + 1) - 1 = k
  BY <1>1
<1>9. g[k + 1] = ReplayEntry(g[k], M[k + 1])
  BY <1>3, <1>8
<1>10. QED
  BY <1>1, <1>7, <1>9, <1>a, <1>b, <1>c

\* What the replay of the ledger has come to.
ReplayInv == Mirrors(Replay, store)

LEMMA ReplayInit == Init => ReplayInv
<1> SUFFICES ASSUME Init PROVE ReplayInv
  OBVIOUS
<1>1. ledger = <<>> /\ store = EmptyStore /\ Len(ledger) = 0
  BY DEF Init
<1>2. Replay = Start(EmptyStore)
  <2>1. ReplayedEntries(ledger)[0] = Start(EmptyStore)
    BY <1>1, ReplayedEntriesStep
  <2>2. QED
    BY <1>1, <2>1 DEF Replay
<1>a. PICK s : s = EmptyStore
  OBVIOUS
<1>b. PICK t : t = Start(s)
  OBVIOUS
<1>3. Shaped(s)
  BY <1>a DEF EmptyStore, Shaped, Tables
<1>4. IsList(<<>>)
  BY DEF IsList
<1>5. /\ t = [store |-> s, events |-> <<>>, opened |-> {}, error |-> NONE]
      /\ t.store = s /\ t.events = <<>> /\ t.opened = {} /\ t.error = NONE
  BY <1>b DEF Start
<1>6. IsTxn(t)
  BY <1>3, <1>4, <1>5 DEF IsTxn
<1>7. QED
  BY <1>1, <1>2, <1>5, <1>6, <1>a, <1>b DEF ReplayInv, Mirrors

LEMMA ReplayStep == KernelInv /\ ReplayInv /\ [Next]_vars => ReplayInv'
<1> SUFFICES ASSUME KernelInv, ReplayInv, [Next]_vars PROVE ReplayInv'
  OBVIOUS
<1>1. CASE Next
  <2>1. PICK p \in Offered(Len(ledger), store) : Commit(p)
    BY <1>1 DEF Next
  <2>a. PICK u : u = Evaluate(p, store, Len(ledger) + 1)
    OBVIOUS
  <2>b. PICK entry : entry = [proposal |-> p, events |-> u.events, opened |-> u.opened,
                              outcome |-> IF u.opened = {} THEN "COMMITTED" ELSE "FACT_CONFLICT"]
    OBVIOUS
  <2>c. PICK M : M = Append(ledger, entry)
    OBVIOUS
  <2>2. u.error = NONE /\ store' = u.store /\ ledger' = M
    BY <2>1, <2>a, <2>b, <2>c DEF Commit
  <2>3. entry.proposal = p /\ entry.events = u.events
    BY <2>b
  <2>4. IsList(ledger) /\ Good(store, DecidedPairs(ledger))
    BY DEF KernelInv, Accounted
  <2>5. Mirrors(Replay, store)
    BY DEF ReplayInv
  <2>d. PICK r : r = Replay
    OBVIOUS
  <2>6. Mirrors(ReplayEntry(r, entry), u.store)
    BY <2>2, <2>3, <2>4, <2>5, <2>a, <2>d, EntryReplayed
  <2>7. ReplayedEntries(M)[Len(M)] = ReplayEntry(r, entry)
    BY <2>4, <2>c, <2>d, ReplayGrows DEF Replay
  <2>8. Replay' = ReplayedEntries(M)[Len(M)]
    BY <2>2 DEF Replay
  <2>9. QED
    BY <2>2, <2>6, <2>7, <2>8 DEF ReplayInv
<1>2. CASE UNCHANGED vars
  BY <1>2 DEF vars, ReplayInv, Replay
<1>3. QED
  BY <1>1, <1>2

\* Replaying the events of the ledger into an empty workspace succeeds and
\* rebuilds the very tables the operations produced: each operation is told in
\* full by the events it emits, although other code reads them.
THEOREM ReplayIsFaithful == Spec => []ReplayParity
<1>1. KernelInv /\ ReplayInv => ReplayParity
  BY DEF ReplayInv, Mirrors, ReplayParity
<1>2. Spec => []ReplayInv
  BY KernelInvariant, ReplayInit, ReplayStep, PTL DEF Spec
<1>3. QED
  BY <1>1, <1>2, KernelInvariant, PTL

-----------------------------------------------------------------------------
(* What is foreseen of a batch before it runs.                             *)

\* The forecasts of a batch, one after the other.
LEMMA ForecastsStep ==
  ASSUME NEW s, NEW ops, Len(ops) \in Nat
  PROVE LET t == Forecasts(s, ops)
        IN /\ t[0] = Unforeseen(s)
           /\ \A i \in 1 .. Len(ops) : t[i] = Predict(t[i - 1], ops[i])
<1> DEFINE N == Len(ops)
           Grows(f, n) == f = [i \in 0 .. n |-> IF i = 0 THEN Unforeseen(s)
                                  ELSE Predict(f[i - 1], ops[i])]
           S == {n \in Nat : \E f : Grows(f, n)}
<1>1. Nat \subseteq S
  <2>1. 0 \in S
    <3>1. Grows([i \in 0 .. 0 |-> Unforeseen(s)], 0)
      BY Z3
    <3> QED BY <3>1
  <2>2. ASSUME NEW m \in Nat, m \in S PROVE m + 1 \in S
    <3>a. PICK n : n = m + 1
      OBVIOUS
    <3>1. n \in Nat /\ n # 0 /\ n - 1 = m
      BY <3>a
    <3>2. PICK f : Grows(f, n - 1)
      BY <2>2, <3>1
    <3> DEFINE g == [i \in 0 .. n |-> IF i = n THEN Predict(f[n - 1], ops[n])
                                       ELSE f[i]]
    <3>3. \A i \in 0 .. n - 1 : g[i] = f[i]
      BY <3>1
    <3>4. \A i \in 0 .. n : g[i] = IF i = 0 THEN Unforeseen(s)
                                  ELSE Predict(g[i - 1], ops[i])
      <4> SUFFICES ASSUME NEW i \in 0 .. n
                   PROVE g[i] = IF i = 0 THEN Unforeseen(s)
                                ELSE Predict(g[i - 1], ops[i])
        OBVIOUS
      <4>1. CASE i = n
        <5>1. g[i] = Predict(f[n - 1], ops[n])
          BY <4>1
        <5>2. g[i - 1] = f[n - 1]
          BY <3>1, <3>3, <4>1
        <5> QED BY <3>1, <4>1, <5>1, <5>2
      <4>2. CASE i # n
        <5>1. i \in 0 .. n - 1
          BY <3>1, <4>2
        <5>2. i # 0 => i - 1 \in 0 .. n - 1
          BY <3>1, <5>1
        <5>3. f[i] = IF i = 0 THEN Unforeseen(s) ELSE Predict(f[i - 1], ops[i])
          BY <3>2, <5>1
        <5> HIDE DEF g
        <5> QED BY <3>3, <5>1, <5>2, <5>3
      <4> QED BY <4>1, <4>2
    <3>5. Grows(g, n)
      <4>1. g = [i \in 0 .. n |-> g[i]]
        OBVIOUS
      <4> HIDE DEF g
      <4> QED BY <3>4, <4>1
    <3> QED BY <3>1, <3>5, <3>a
  <2>3. QED
    <3> HIDE DEF S
    <3> QED BY <2>1, <2>2, NatSetInduction
<1>2. \E f : Grows(f, N)
  BY <1>1
<1>3. Forecasts(s, ops) = CHOOSE f : Grows(f, N)
  BY DEF Forecasts
<1>4. Grows(Forecasts(s, ops), N)
  BY <1>2, <1>3
<1>5. QED
  <2> DEFINE t == Forecasts(s, ops)
  <2>1. \A i \in 0 .. N : t[i] = IF i = 0 THEN Unforeseen(s)
                                  ELSE Predict(t[i - 1], ops[i])
    <3> HIDE DEF t
    <3> QED BY <1>4 DEF t
  <2> HIDE DEF t
  <2> QED BY <2>1 DEF t

\* One conflict for each family and kind, and where it is catalogued.
Catalogue(ep, table) ==
  /\ \A k \in DOMAIN table : <<table[k].family, table[k].kind>> \in DOMAIN ep
                             /\ ep[<<table[k].family, table[k].kind>>] = k
  /\ \A key \in DOMAIN ep : ep[key] \in DOMAIN table
                            /\ key = <<table[ep[key]].family, table[ep[key]].kind>>
Sole(table) ==
  \A j, k \in DOMAIN table :
    table[j].family = table[k].family /\ table[j].kind = table[k].kind => j = k

LEMMA CatalogueIsSole ==
  ASSUME NEW ep, NEW table, Catalogue(ep, table) PROVE Sole(table)
<1> SUFFICES ASSUME NEW j \in DOMAIN table, NEW k \in DOMAIN table,
                    table[j].family = table[k].family, table[j].kind = table[k].kind
             PROVE j = k
  BY DEF Sole
<1>1. ep[<<table[j].family, table[j].kind>>] = j /\ ep[<<table[k].family, table[k].kind>>] = k
  BY DEF Catalogue
<1>2. QED
  BY <1>1

\* Rows changed but for their families and kinds.
LEMMA CatalogueStays ==
  ASSUME NEW ep, NEW old, Catalogue(ep, old), NEW new, DOMAIN new = DOMAIN old,
         \A k \in DOMAIN old : new[k].family = old[k].family /\ new[k].kind = old[k].kind
  PROVE Catalogue(ep, new)
BY DEF Catalogue

IsForecast(g) == g = [active |-> g.active, episodes |-> g.episodes, ids |-> g.ids]

\* A forecast that is right so far.
Foreseen(g, t) ==
  /\ IsForecast(g)
  /\ g.active = Active(t.store)
  /\ Catalogue(g.episodes, t.store.conflicts)
  /\ g.ids = t.opened

LEMMA NothingForeseen ==
  ASSUME NEW s, Sole(s.conflicts) PROVE Foreseen(Unforeseen(s), Start(s))
<1>a. PICK table : table = s.conflicts
  OBVIOUS
<1>b. PICK keys : keys = {<<table[k].family, table[k].kind>> : k \in DOMAIN table}
  OBVIOUS
<1>c. PICK ep : ep = [key \in keys |-> CHOOSE k \in DOMAIN table :
                                         <<table[k].family, table[k].kind>> = key]
  OBVIOUS
<1>1. Unforeseen(s) = [active |-> Active(s), episodes |-> ep, ids |-> {}]
  BY <1>a, <1>b, <1>c DEF Unforeseen
<1>2. ASSUME NEW key \in keys
      PROVE ep[key] \in DOMAIN table /\ <<table[ep[key]].family, table[ep[key]].kind>> = key
  <2>1. \E k \in DOMAIN table : <<table[k].family, table[k].kind>> = key
    BY <1>b
  <2>2. QED
    BY <2>1, <1>c
<1>3. ASSUME NEW k \in DOMAIN table
      PROVE <<table[k].family, table[k].kind>> \in keys /\ ep[<<table[k].family, table[k].kind>>] = k
  <2>a. PICK key : key = <<table[k].family, table[k].kind>>
    OBVIOUS
  <2>1. key \in keys
    BY <1>b, <2>a
  <2>2. ep[key] \in DOMAIN table /\ <<table[ep[key]].family, table[ep[key]].kind>> = key
    BY <1>2, <2>1
  <2>3. table[ep[key]].family = table[k].family /\ table[ep[key]].kind = table[k].kind
    BY <2>2, <2>a
  <2>4. QED
    BY <2>1, <2>2, <2>3, <2>a, <1>a DEF Sole
<1>4. Catalogue(ep, table)
  BY <1>2, <1>3, <1>c DEF Catalogue
<1>5. Start(s).store = s /\ Start(s).opened = {}
  BY DEF Start
<1>6. QED
  BY <1>1, <1>4, <1>5, <1>a DEF Foreseen, IsForecast

\* The conflict a contradiction is put in.
LEMMA OpenedRowFor ==
  ASSUME NEW s, Rows(s), NEW claim, NEW parties, NEW sort, NEW seq,
         NEW ep, Catalogue(ep, s.conflicts),
         NEW pair, pair = <<Claim[claim].family, sort>>,
         NEW key, key = OpenedRow(s, claim, parties, sort, seq)[1],
         NEW val, val = OpenedRow(s, claim, parties, sort, seq)[2]
  PROVE /\ val.family = Claim[claim].family /\ val.kind = sort
        /\ key = IF pair \in DOMAIN ep THEN ep[pair] ELSE parties
        /\ pair \in DOMAIN ep => key \in DOMAIN s.conflicts
<1>a. PICK old : old = s.conflicts
  OBVIOUS
<1>b. PICK f : f = Claim[claim].family
  OBVIOUS
<1> DEFINE existing == Episodes(s, f, sort)
<1>1. existing = {k \in DOMAIN old : old[k].family = f /\ old[k].kind = sort}
  BY <1>a DEF Episodes
<1>2. CASE pair \notin DOMAIN ep
  <2>1. existing = {}
    BY <1>1, <1>2, <1>a, <1>b DEF Catalogue
  <2>2. key = parties /\ val = FirstEpisode(f, sort, parties, seq)
    BY <2>1, <1>b DEF OpenedRow
  <2>3. QED
    BY <2>2, <1>2, <1>b DEF FirstEpisode
<1>3. CASE pair \in DOMAIN ep
  <2>a. PICK k : k = ep[pair]
    OBVIOUS
  <2>1. k \in DOMAIN old /\ <<f, sort>> = <<old[k].family, old[k].kind>>
    BY <1>3, <1>a, <1>b, <2>a DEF Catalogue
  <2>2. k \in existing
    BY <1>1, <2>1
  <2>3. ASSUME NEW j \in existing PROVE j = k
    <3>1. j \in DOMAIN old /\ <<old[j].family, old[j].kind>> = pair
      BY <1>1, <1>b, <2>3
    <3>2. QED
      BY <3>1, <1>a, <2>a DEF Catalogue
  <2>4. /\ key = CHOOSE j \in existing : TRUE
        /\ val = IF old[key].status = "OPEN" THEN Joined(old[key], parties)
                 ELSE Reopened(old[key], parties, seq)
    BY <2>2, <1>a, <1>b DEF OpenedRow
  <2>b. PICK row : row = old[k]
    OBVIOUS
  <2>5. key = k /\ val = IF row.status = "OPEN" THEN Joined(row, parties) ELSE Reopened(row, parties, seq)
    <3> HIDE DEF existing
    <3>1. key \in existing
      BY <2>2, <2>4
    <3>2. QED
      BY <2>3, <2>4, <3>1, <2>b
  <2>6. DOMAIN row = Fields["conflicts"]
    BY <2>1, <1>a, <2>b DEF Rows, IsTable, Aggregates
  <2>7. val.family = row.family /\ val.kind = row.kind
    BY <2>5, <2>6 DEF Joined, Reopened, Fields
  <2>8. QED
    BY <1>3, <2>1, <2>5, <2>7, <1>a, <1>b, <2>a, <2>b
<1>4. QED
  BY <1>2, <1>3

\* A catalogue with another conflict, if there are others to contradict.
Entered(ep, key, others, claim) ==
  IF others = {} THEN ep
  ELSE [x \in DOMAIN ep \cup {key} |-> IF x \in DOMAIN ep THEN ep[x] ELSE others \cup {claim}]

\* A contradiction adds one conflict, under the id the catalogue gives it.
OpensAs(t, u, others, pair, new) ==
  /\ Catalogue(new, u.store.conflicts)
  /\ u.opened = t.opened \cup (IF others = {} THEN {} ELSE {new[pair]})

LEMMA OpensAsEntered ==
  ASSUME NEW t, IsTxn(t), Rows(t.store), NEW claim, NEW others, NEW sort, NEW seq,
         others \cup {claim} \notin DOMAIN t.store.conflicts,
         NEW u, u = OpenConflict(t, claim, others, sort, seq),
         NEW ep, Catalogue(ep, t.store.conflicts),
         NEW pair, pair = <<Claim[claim].family, sort>>,
         NEW new, new = Entered(ep, pair, others, claim)
  PROVE OpensAs(t, u, others, pair, new)
<1>1. CASE others = {}
  BY <1>1 DEF OpenConflict, Entered, OpensAs
<1>2. CASE others # {}
  <2>a. PICK parties : parties = others \cup {claim}
    OBVIOUS
  <2>b. PICK key : key = OpenedRow(t.store, claim, parties, sort, seq)[1]
    OBVIOUS
  <2>c. PICK val : val = OpenedRow(t.store, claim, parties, sort, seq)[2]
    OBVIOUS
  <2>d. PICK old, table : old = t.store.conflicts /\ table = u.store.conflicts
    OBVIOUS
  <2>1. Filed(t, u, key, val)
    BY <1>2, <2>a, <2>b, <2>c, OpenConflictIs
  <2>2. u.opened = t.opened \cup {key} /\ table = Put(old, key, val)
    BY <2>1, <2>d DEF Filed
  <2>3. /\ <<val.family, val.kind>> = pair
        /\ key = IF pair \in DOMAIN ep THEN ep[pair] ELSE parties
        /\ pair \in DOMAIN ep => key \in DOMAIN old
    <3>1. /\ val.family = Claim[claim].family /\ val.kind = sort
          /\ key = IF pair \in DOMAIN ep THEN ep[pair] ELSE parties
          /\ pair \in DOMAIN ep => key \in DOMAIN t.store.conflicts
      BY <2>b, <2>c, OpenedRowFor
    <3>2. QED
      BY <3>1, <2>d
  <2>4. /\ DOMAIN table = DOMAIN old \cup {key} /\ table[key] = val
        /\ \A k \in DOMAIN old \ {key} : table[k] = old[k]
    BY <2>2 DEF Put
  <2>5. /\ DOMAIN new = DOMAIN ep \cup {pair} /\ new[pair] = key
        /\ \A x \in DOMAIN ep : new[x] = ep[x]
    BY <1>2, <2>3, <2>a DEF Entered
  <2>6. pair \notin DOMAIN ep => key \notin DOMAIN old
    BY <2>3, <2>a, <2>d
  <2>7. ASSUME NEW k \in DOMAIN table
        PROVE <<table[k].family, table[k].kind>> \in DOMAIN new
              /\ new[<<table[k].family, table[k].kind>>] = k
    <3>1. CASE k = key
      BY <2>3, <2>4, <2>5, <3>1
    <3>2. CASE k # key
      <4>1. k \in DOMAIN old /\ table[k] = old[k]
        BY <2>4, <2>7, <3>2
      <4>2. <<old[k].family, old[k].kind>> \in DOMAIN ep /\ ep[<<old[k].family, old[k].kind>>] = k
        BY <4>1, <2>d DEF Catalogue
      <4>3. QED
        BY <4>1, <4>2, <2>5
    <3>3. QED
      BY <3>1, <3>2
  <2>8. ASSUME NEW x \in DOMAIN new
        PROVE new[x] \in DOMAIN table /\ x = <<table[new[x]].family, table[new[x]].kind>>
    <3>1. CASE x = pair
      BY <2>3, <2>4, <2>5, <3>1
    <3>2. CASE x # pair
      <4>a. PICK k : k = ep[x]
        OBVIOUS
      <4>1. x \in DOMAIN ep /\ new[x] = k
        BY <2>5, <2>8, <3>2, <4>a
      <4>2. k \in DOMAIN old /\ x = <<old[k].family, old[k].kind>>
        BY <4>1, <2>d, <4>a DEF Catalogue
      <4>3. k # key
        <5>1. CASE pair \in DOMAIN ep
          <6>1. pair = <<old[key].family, old[key].kind>>
            BY <5>1, <2>3, <2>d DEF Catalogue
          <6>2. QED
            BY <6>1, <4>2, <3>2
        <5>2. CASE pair \notin DOMAIN ep
          BY <5>2, <2>6, <4>2
        <5>3. QED
          BY <5>1, <5>2
      <4>4. table[k] = old[k] /\ k \in DOMAIN table
        BY <2>4, <4>2, <4>3
      <4>5. QED
        BY <4>1, <4>2, <4>4
    <3>3. QED
      BY <3>1, <3>2
  <2>9. Catalogue(new, table)
    BY <2>7, <2>8 DEF Catalogue
  <2>10. QED
    BY <1>2, <2>2, <2>5, <2>9, <2>d DEF OpensAs
<1>3. QED
  BY <1>1, <1>2

\* The active claims that contradict one in a given way.
RivalsIn(active, claim, sort) ==
  {c \in active : Claim[c].family = Claim[claim].family
                  /\ ConflictKind(Claim[claim], Claim[c]) = sort}

\* What a forecast of an assertion comes to.
PredictedAs(g, h, claim, out, X, P, x, p, e1, e2) ==
  /\ IsForecast(h)
  /\ h.active = (g.active \cup {claim}) \ out
  /\ DOMAIN h.episodes = DOMAIN e2
  /\ \A key \in DOMAIN e2 : h.episodes[key] = e2[key]
  /\ h.ids = (g.ids \cup (IF X = {} THEN {} ELSE {e1[x]})) \cup (IF P = {} THEN {} ELSE {e2[p]})

LEMMA PredictIs ==
  ASSUME NEW g, IsForecast(g),
         NEW op, op.op \in {"ASSERT_CLAIM", "SUPERSEDE_CLAIM"},
         NEW claim, claim = op.claim, NEW out, out = Leaving(op),
         NEW X, X = RivalsIn(g.active \ out, claim, "EXCLUSIVE_VALUE_CONFLICT"),
         NEW P, P = RivalsIn(g.active \ out, claim, "POLARITY_CONFLICT"),
         NEW x, x = <<Claim[claim].family, "EXCLUSIVE_VALUE_CONFLICT">>,
         NEW p, p = <<Claim[claim].family, "POLARITY_CONFLICT">>,
         NEW e1, e1 = Entered(g.episodes, x, X, claim),
         NEW e2, e2 = Entered(e1, p, P, claim),
         NEW h, h = Predict(g, op)
  PROVE PredictedAs(g, h, claim, out, X, P, x, p, e1, e2)
<1> DEFINE rivals(kind) ==
             {c \in g.active \ Leaving(op) :
                Claim[c].family = Claim[op.claim].family /\ ConflictKind(Claim[op.claim], Claim[c]) = kind}
           opened == {kind \in {"EXCLUSIVE_VALUE_CONFLICT", "POLARITY_CONFLICT"} : rivals(kind) # {}}
           known == DOMAIN g.episodes
           episodes == [key \in known \cup {<<Claim[op.claim].family, kind>> : kind \in opened} |->
                          IF key \in known THEN g.episodes[key] ELSE rivals(key[2]) \cup {op.claim}]
<1>1. h = [active |-> (g.active \cup {op.claim}) \ Leaving(op),
           episodes |-> episodes,
           ids |-> g.ids \cup {episodes[<<Claim[op.claim].family, kind>>] : kind \in opened}]
  BY DEF Predict
<1>2. X = rivals("EXCLUSIVE_VALUE_CONFLICT") /\ P = rivals("POLARITY_CONFLICT")
  BY DEF RivalsIn
<1> HIDE DEF rivals
<1>a. PICK ep, on : ep = episodes /\ on = opened
  OBVIOUS
<1>3. \A sort : sort \in on <=> \/ sort = "EXCLUSIVE_VALUE_CONFLICT" /\ X # {}
                                \/ sort = "POLARITY_CONFLICT" /\ P # {}
  BY <1>2, <1>a
<1>4. /\ DOMAIN ep = known \cup {<<Claim[claim].family, sort>> : sort \in on}
      /\ \A key \in known : ep[key] = g.episodes[key]
      /\ \A key \in DOMAIN ep \ known : ep[key] = rivals(key[2]) \cup {claim}
  BY <1>a
<1> HIDE DEF known, opened, episodes
<1>5. /\ h.active = (g.active \cup {claim}) \ out /\ h.episodes = ep
      /\ h.ids = g.ids \cup {ep[<<Claim[claim].family, sort>>] : sort \in on}
      /\ IsForecast(h)
  <2>1. h = [active |-> (g.active \cup {claim}) \ out, episodes |-> ep,
             ids |-> g.ids \cup {ep[<<Claim[claim].family, sort>>] : sort \in on}]
    BY <1>1, <1>a
  <2>2. h.active = (g.active \cup {claim}) \ out /\ h.episodes = ep
        /\ h.ids = g.ids \cup {ep[<<Claim[claim].family, sort>>] : sort \in on}
    BY <2>1
  <2>3. h = [active |-> h.active, episodes |-> h.episodes, ids |-> h.ids]
    BY <2>1, <2>2
  <2>4. QED
    BY <2>2, <2>3 DEF IsForecast
<1>6. DOMAIN ep = (known \cup (IF X = {} THEN {} ELSE {x})) \cup (IF P = {} THEN {} ELSE {p})
  <2>a. PICK S : S = {<<Claim[claim].family, sort>> : sort \in on}
    OBVIOUS
  <2>1. \A key : key \in S <=> (X # {} /\ key = x) \/ (P # {} /\ key = p)
    BY <1>3, <2>a
  <2>2. DOMAIN ep = known \cup S
    BY <1>4, <2>a
  <2>3. QED
    BY <2>1, <2>2
<1>7. DOMAIN e1 = known \cup (IF X = {} THEN {} ELSE {x})
      /\ DOMAIN e2 = DOMAIN e1 \cup (IF P = {} THEN {} ELSE {p})
  BY DEF Entered, known
<1>8a. \A key \in known : e1[key] = g.episodes[key]
  BY DEF Entered, known
<1>8b. \A key \in DOMAIN e1 : e2[key] = e1[key]
  BY DEF Entered
<1>8. /\ X # {} /\ x \notin known => e1[x] = X \cup {claim}
      /\ P # {} /\ p \notin DOMAIN e1 => e2[p] = P \cup {claim}
  BY DEF Entered, known
<1>9. x # p /\ x[2] = "EXCLUSIVE_VALUE_CONFLICT" /\ p[2] = "POLARITY_CONFLICT"
  OBVIOUS
<1>10. ASSUME NEW key \in DOMAIN e2 PROVE ep[key] = e2[key]
  <2>1. CASE key \in known
    <3>1. key \in DOMAIN e1
      BY <1>7, <2>1
    <3>2. ep[key] = g.episodes[key]
      BY <1>4, <2>1
    <3>3. e1[key] = g.episodes[key]
      BY <1>8a, <2>1
    <3>4. e2[key] = e1[key]
      BY <1>8b, <3>1
    <3>5. QED
      BY <3>2, <3>3, <3>4
  <2>2. CASE key \notin known /\ key = x
    <3>1. X # {} /\ key \in DOMAIN e1 /\ key \in DOMAIN ep
      BY <1>6, <1>7, <1>9, <1>10, <2>2
    <3>2. e2[key] = X \cup {claim} /\ ep[key] = rivals(key[2]) \cup {claim}
      BY <1>4, <1>8b, <1>8, <2>2, <3>1
    <3>3. QED
      BY <1>2, <1>9, <2>2, <3>2
  <2>3. CASE key \notin known /\ key # x
    <3>1. P # {} /\ key = p /\ key \notin DOMAIN e1 /\ key \in DOMAIN ep
      BY <1>6, <1>7, <1>10, <2>3
    <3>2. e2[key] = P \cup {claim} /\ ep[key] = rivals(key[2]) \cup {claim}
      BY <1>4, <1>8, <2>3, <3>1
    <3>3. QED
      BY <1>2, <1>9, <3>1, <3>2
  <2>4. QED
    BY <2>1, <2>2, <2>3
<1>11. {ep[<<Claim[claim].family, sort>>] : sort \in on}
         = (IF X = {} THEN {} ELSE {e1[x]}) \cup (IF P = {} THEN {} ELSE {e2[p]})
  <2>1. X # {} => ep[x] = e1[x]
    <3>1. X # {} => x \in DOMAIN e1 /\ x \in DOMAIN e2
      BY <1>7
    <3>2. X # {} => ep[x] = e2[x]
      BY <1>10, <3>1
    <3>3. X # {} => e2[x] = e1[x]
      BY <1>8b, <3>1
    <3>4. QED
      BY <3>2, <3>3
  <2>2. P # {} => ep[p] = e2[p]
    <3>1. P # {} => p \in DOMAIN e2
      BY <1>7
    <3>2. QED
      BY <1>10, <3>1
  <2>3. {ep[<<Claim[claim].family, sort>>] : sort \in on}
          = (IF X = {} THEN {} ELSE {ep[x]}) \cup (IF P = {} THEN {} ELSE {ep[p]})
    BY <1>3
  <2>4. QED
    BY <2>1, <2>2, <2>3
<1>12. DOMAIN h.episodes = DOMAIN e2
  BY <1>5, <1>6, <1>7
<1>b. h.episodes = ep
  BY <1>5
<1>13. \A key \in DOMAIN e2 : h.episodes[key] = e2[key]
  BY <1>b, <1>10
<1>14. h.ids = (g.ids \cup (IF X = {} THEN {} ELSE {e1[x]})) \cup (IF P = {} THEN {} ELSE {e2[p]})
  BY <1>5, <1>11
<1>15. QED
  BY <1>5, <1>12, <1>13, <1>14 DEF PredictedAs, IsForecast

\* An assertion is foreseen; the claims that are about to leave are gone already.
LEMMA AssertForeseen ==
  ASSUME NEW t, NEW u, NEW claim, NEW out, NEW seq,
         Asserted(t, u, claim, out), InTwoSteps(t, u, claim, out, seq),
         NEW g, Foreseen(g, t),
         NEW op, op.op \in {"ASSERT_CLAIM", "SUPERSEDE_CLAIM"}, op.claim = claim, Leaving(op) = out,
         NEW h, h = Predict(g, op)
  PROVE /\ IsForecast(h)
        /\ h.active = Active(u.store) \ out
        /\ Catalogue(h.episodes, u.store.conflicts)
        /\ h.ids = u.opened
<1>1. PICK w, x :
        LET X == Against(w.store, claim, out, "EXCLUSIVE_VALUE_CONFLICT")
            P == Against(w.store, claim, out, "POLARITY_CONFLICT")
        IN /\ IsTxn(w) /\ Rows(w.store) /\ w.opened = t.opened
           /\ w.store.claims = Put(t.store.claims, claim, NewClaim)
           /\ w.store.conflicts = t.store.conflicts
           /\ X \cup {claim} \notin DOMAIN w.store.conflicts
           /\ x = OpenConflict(w, claim, X, "EXCLUSIVE_VALUE_CONFLICT", seq)
           /\ IsTxn(x) /\ Rows(x.store)
           /\ P \cup {claim} \notin DOMAIN x.store.conflicts
           /\ u = OpenConflict(x, claim, P, "POLARITY_CONFLICT", seq)
           /\ \A n \in Records : u.store[n] = t.store[n]
  BY DEF InTwoSteps
<1>a. PICK X : X = Against(w.store, claim, out, "EXCLUSIVE_VALUE_CONFLICT")
  OBVIOUS
<1>b. PICK P : P = Against(w.store, claim, out, "POLARITY_CONFLICT")
  OBVIOUS
<1>c. PICK active : active = Active(t.store)
  OBVIOUS
<1>2. /\ claim \notin DOMAIN t.store.claims /\ active \subseteq DOMAIN t.store.claims
      /\ Active(w.store) = active \cup {claim} /\ Active(u.store) = active \cup {claim}
  <2>1. claim \notin DOMAIN t.store.claims /\ u.store.claims = Put(t.store.claims, claim, NewClaim)
    BY DEF Asserted
  <2>2. w.store.claims = Put(t.store.claims, claim, NewClaim)
    BY <1>1
  <2>a. PICK s, su, sw : s = t.store /\ su = u.store /\ sw = w.store
    OBVIOUS
  <2>b. /\ claim \notin DOMAIN s.claims /\ su.claims = Put(s.claims, claim, NewClaim)
        /\ sw.claims = Put(s.claims, claim, NewClaim)
    BY <2>1, <2>2, <2>a
  <2>3. Active(su) = Active(s) \cup {claim} /\ Active(s) \subseteq DOMAIN s.claims
    BY <2>b, ActiveWithClaim
  <2>4. Active(sw) = Active(s) \cup {claim}
    BY <2>b, ActiveWithClaim
  <2>5. QED
    BY <2>1, <2>3, <2>4, <2>a, <1>c
<1>3. /\ X = RivalsIn(active \ out, claim, "EXCLUSIVE_VALUE_CONFLICT")
      /\ P = RivalsIn(active \ out, claim, "POLARITY_CONFLICT")
  BY <1>2, <1>a, <1>b DEF Against, ActiveFamily, RivalsIn
<1>4. /\ IsForecast(g)
      /\ g.active = active /\ Catalogue(g.episodes, w.store.conflicts) /\ g.ids = w.opened
  BY <1>1, <1>c DEF Foreseen
<1>d. PICK xkey, pkey : /\ xkey = <<Claim[claim].family, "EXCLUSIVE_VALUE_CONFLICT">>
                        /\ pkey = <<Claim[claim].family, "POLARITY_CONFLICT">>
  OBVIOUS
<1>g. PICK ep : ep = g.episodes
  OBVIOUS
<1>e. PICK e1 : e1 = Entered(ep, xkey, X, claim)
  OBVIOUS
<1>f. PICK e2 : e2 = Entered(e1, pkey, P, claim)
  OBVIOUS
<1>5. /\ X \cup {claim} \notin DOMAIN w.store.conflicts
      /\ x = OpenConflict(w, claim, X, "EXCLUSIVE_VALUE_CONFLICT", seq)
      /\ P \cup {claim} \notin DOMAIN x.store.conflicts
      /\ u = OpenConflict(x, claim, P, "POLARITY_CONFLICT", seq)
      /\ IsTxn(w) /\ Rows(w.store) /\ IsTxn(x) /\ Rows(x.store)
  BY <1>1, <1>a, <1>b
<1>6. /\ Catalogue(e1, x.store.conflicts)
      /\ x.opened = w.opened \cup (IF X = {} THEN {} ELSE {e1[xkey]})
  <2>1. Catalogue(ep, w.store.conflicts)
    BY <1>4, <1>g
  <2>2. OpensAs(w, x, X, xkey, e1)
    BY <1>5, <1>d, <1>e, <2>1, OpensAsEntered
  <2>3. QED
    BY <2>2 DEF OpensAs
<1>7. /\ Catalogue(e2, u.store.conflicts)
      /\ u.opened = x.opened \cup (IF P = {} THEN {} ELSE {e2[pkey]})
  <2>1. OpensAs(x, u, P, pkey, e2)
    BY <1>5, <1>6, <1>d, <1>f, OpensAsEntered
  <2>2. QED
    BY <2>1 DEF OpensAs
<1>8. PredictedAs(g, h, claim, out, X, P, xkey, pkey, e1, e2)
  <2>1. /\ X = RivalsIn(g.active \ out, claim, "EXCLUSIVE_VALUE_CONFLICT")
        /\ P = RivalsIn(g.active \ out, claim, "POLARITY_CONFLICT")
        /\ e1 = Entered(g.episodes, xkey, X, claim)
    BY <1>3, <1>4, <1>e, <1>g
  <2>2. IsForecast(g)
    BY <1>4
  <2>3. claim = op.claim /\ out = Leaving(op)
    OBVIOUS
  <2>4. QED
    BY <2>1, <2>2, <2>3, <1>d, <1>f, PredictIs
<1>9. Catalogue(h.episodes, u.store.conflicts)
  BY <1>7, <1>8 DEF Catalogue, PredictedAs
<1>10. QED
  BY <1>2, <1>4, <1>6, <1>7, <1>8, <1>9 DEF PredictedAs

-----------------------------------------------------------------------------
(* What is foreseen of an operation, and what records link to.             *)

LEMMA OtherwisePredicted ==
  ASSUME NEW g, IsForecast(g), NEW op, op.op \notin {"ASSERT_CLAIM", "SUPERSEDE_CLAIM"},
         NEW h, h = Predict(g, op)
  PROVE /\ IsForecast(h) /\ h.active = g.active \ Leaving(op)
        /\ h.episodes = g.episodes /\ h.ids = g.ids
<1>1. g = [active |-> g.active, episodes |-> g.episodes, ids |-> g.ids]
  BY DEF IsForecast
<1>2. h = [g EXCEPT !.active = @ \ Leaving(op)]
  BY DEF Predict
<1>3. h.active = g.active \ Leaving(op) /\ h.episodes = g.episodes /\ h.ids = g.ids
  BY <1>1, <1>2
<1>4. h = [active |-> h.active, episodes |-> h.episodes, ids |-> h.ids]
  BY <1>1, <1>2
<1>5. QED
  BY <1>3, <1>4 DEF IsForecast

\* An operation that lets no claim in opens nothing.
LEMMA QuietForeseen ==
  ASSUME NEW t, NEW u, Quiet(t, u), NEW g, Foreseen(g, t),
         NEW op, op.op \notin {"ASSERT_CLAIM", "SUPERSEDE_CLAIM"},
         Active(u.store) = Active(t.store) \ Leaving(op),
         NEW h, h = Predict(g, op)
  PROVE Foreseen(h, u)
<1>a. PICK old, new : old = t.store.conflicts /\ new = u.store.conflicts
  OBVIOUS
<1>1. /\ IsForecast(g) /\ g.active = Active(t.store)
      /\ Catalogue(g.episodes, old) /\ g.ids = t.opened
  BY <1>a DEF Foreseen
<1>2. /\ IsForecast(h) /\ h.active = g.active \ Leaving(op)
      /\ h.episodes = g.episodes /\ h.ids = g.ids
  BY <1>1, OtherwisePredicted
<1>3. DOMAIN new = DOMAIN old /\ \A k \in DOMAIN old :
                                   new[k].family = old[k].family /\ new[k].kind = old[k].kind
  BY <1>a DEF Quiet
<1>4. Catalogue(g.episodes, new)
  BY <1>1, <1>3, CatalogueStays
<1>5. u.opened = t.opened
  BY DEF Quiet
<1>6. QED
  BY <1>1, <1>2, <1>4, <1>5, <1>a DEF Foreseen

\* The links of the records are in a set of names, and each successor of a
\* decision is one.
Linking == {"decisions", "questions", "work"}
Linked(s, names) ==
  /\ \A n \in Linking : \A id \in DOMAIN s[n] : Pointed(n, s[n][id]) \subseteq names
  /\ \A d \in DOMAIN s.decisions : s.decisions[d].by \in DOMAIN s.decisions \cup {NONE}
Names(s) == UNION {{<<t, id>> : id \in DOMAIN s[t]} : t \in Referable}

\* What an operation does to the records and the names there are.
Links(t, u, op, names) ==
  /\ Linked(u.store, names)
  /\ Names(t.store) \cup NewIds(op) \subseteq Names(u.store)

LEMMA NameOf ==
  ASSUME NEW s, NEW n \in Referable, NEW id
  PROVE <<n, id>> \in Names(s) <=> id \in DOMAIN s[n]
BY DEF Names

LEMMA NamesStay ==
  ASSUME NEW s, NEW r, Later(s, r), DOMAIN s.sources \subseteq DOMAIN r.sources
  PROVE Names(s) \subseteq Names(r)
<1>1. ASSUME NEW n \in Referable PROVE DOMAIN s[n] \subseteq DOMAIN r[n]
  <2>1. n = "sources" \/ n \in Aggregates
    BY DEF Referable, Aggregates
  <2>2. QED
    BY <2>1 DEF Later, LaterTable
<1>2. QED
  BY <1>1 DEF Names

\* No record changes.
LEMMA OthersLink ==
  ASSUME NEW t, NEW u, \A n \in Linking : u.store[n] = t.store[n],
         NEW names, Linked(t.store, names)
  PROVE Linked(u.store, names)
BY DEF Linked, Linking

\* One table of records changes.
LEMMA RecordsLink ==
  ASSUME NEW n \in Linking, NEW t, NEW u, FollowsIn(n, t, u),
         NEW ids, NEW refs, Points(n, t.store[n], u.store[n], ids, refs),
         NEW names, Linked(t.store, names), refs \subseteq names,
         NEW op, NewIds(op) \subseteq {<<n, id>> : id \in ids}
  PROVE Links(t, u, op, names)
<1>a. PICK old, new : old = t.store[n] /\ new = u.store[n]
  OBVIOUS
<1>1. /\ DOMAIN new = DOMAIN old \cup ids
      /\ \A k \in DOMAIN new :
           Pointed(n, new[k]) \subseteq refs \cup (IF k \in DOMAIN old THEN Pointed(n, old[k]) ELSE {})
      /\ n = "decisions" =>
           \A k \in DOMAIN new :
             new[k].by \in ids \cup {NONE} \cup (IF k \in DOMAIN old THEN {old[k].by} ELSE {})
  BY <1>a DEF Points
<1>2. \A m \in Linking \ {n} : u.store[m] = t.store[m]
  BY DEF FollowsIn, Linking, Tables
<1>3. \A k \in DOMAIN old : Pointed(n, old[k]) \subseteq names
  BY <1>a DEF Linked
<1>4. \A k \in DOMAIN new : Pointed(n, new[k]) \subseteq names
  BY <1>1, <1>3
<1>5. \A m \in Linking : \A id \in DOMAIN u.store[m] : Pointed(m, u.store[m][id]) \subseteq names
  BY <1>2, <1>4, <1>a DEF Linked
<1>6. \A d \in DOMAIN u.store.decisions :
        u.store.decisions[d].by \in DOMAIN u.store.decisions \cup {NONE}
  <2>1. CASE n = "decisions"
    <3>1. \A k \in DOMAIN old : old[k].by \in DOMAIN old \cup {NONE}
      BY <2>1, <1>a DEF Linked
    <3>2. \A k \in DOMAIN new : new[k].by \in DOMAIN new \cup {NONE}
      BY <1>1, <2>1, <3>1
    <3>3. QED
      BY <3>2, <2>1, <1>a
  <2>2. CASE n # "decisions"
    <3>1. u.store.decisions = t.store.decisions
      BY <1>2, <2>2 DEF Linking
    <3>2. QED
      BY <3>1 DEF Linked
  <2>3. QED
    BY <2>1, <2>2
<1>7. Names(t.store) \subseteq Names(u.store)
  <2>1. Later(t.store, u.store) /\ u.store.sources = t.store.sources
    BY DEF FollowsIn, Follows, Tables, Linking
  <2>2. QED
    BY <2>1, NamesStay
<1>8. NewIds(op) \subseteq Names(u.store)
  <2>1. n \in Referable
    BY DEF Linking, Referable
  <2>2. \A id \in ids : <<n, id>> \in Names(u.store)
    BY <1>1, <1>a, <2>1, NameOf
  <2>3. QED
    BY <2>2
<1>9. QED
  BY <1>5, <1>6, <1>7, <1>8 DEF Links, Linked

\* No record changes, and no claim or source goes.
LEMMA ClaimsLink ==
  ASSUME NEW t, NEW u, Follows(t, u), \A n \in Records : u.store[n] = t.store[n],
         NEW names, Linked(t.store, names),
         NEW op, NewIds(op) \subseteq {<<"claims", c>> : c \in DOMAIN u.store.claims}
  PROVE Links(t, u, op, names)
<1>1. Linked(u.store, names)
  BY OthersLink DEF Linking, Records
<1>2. Names(t.store) \subseteq Names(u.store)
  BY NamesStay DEF Follows, Records
<1>3. \A c \in DOMAIN u.store.claims : <<"claims", c>> \in Names(u.store)
  BY NameOf DEF Referable
<1>4. QED
  BY <1>1, <1>2, <1>3 DEF Links

\* What a supersession, foreseen as h, leaves.
SupersededAs(t, u, op, h) ==
  /\ Foreseen(h, u)
  /\ op.claim \in DOMAIN u.store.claims /\ \A n \in Records : u.store[n] = t.store[n]

LEMMA SupersessionForeseen ==
  ASSUME NEW t, NEW u, NEW op, op.op = "SUPERSEDE_CLAIM", NEW seq,
         Superseded(t, u, op.claim, op.target, seq),
         NEW g, Foreseen(g, t), NEW h, h = Predict(g, op)
  PROVE SupersededAs(t, u, op, h)
<1>a. PICK claim, target, out : claim = op.claim /\ target = op.target /\ out = {target}
  OBVIOUS
<1>1. PICK v : /\ Asserted(t, v, claim, out) /\ InTwoSteps(t, v, claim, out, seq)
               /\ Closes(v, u, target)
  BY <1>a DEF Superseded
<1>2. Leaving(op) = out
  BY <1>a DEF Leaving
<1>3. /\ IsForecast(h)
      /\ h.active = Active(v.store) \ out
      /\ Catalogue(h.episodes, v.store.conflicts)
      /\ h.ids = v.opened
  <2>1. Asserted(t, v, claim, out) /\ InTwoSteps(t, v, claim, out, seq)
    BY <1>1
  <2>2. op.claim = claim
    BY <1>a
  <2>3. QED
    BY <1>2, <2>1, <2>2, AssertForeseen
<1>4. Quiet(v, u) /\ Lets(v, u, out)
  BY <1>1, <1>a DEF Closes
<1>b. PICK old, new : old = v.store.conflicts /\ new = u.store.conflicts
  OBVIOUS
<1>5. DOMAIN new = DOMAIN old /\ \A k \in DOMAIN old :
                                   new[k].family = old[k].family /\ new[k].kind = old[k].kind
  BY <1>4, <1>b DEF Quiet
<1>6. Catalogue(h.episodes, new)
  BY <1>3, <1>5, <1>b, CatalogueStays
<1>7. u.opened = v.opened /\ Active(u.store) = Active(v.store) \ out
  BY <1>4 DEF Quiet, Lets
<1>8. Foreseen(h, u)
  BY <1>3, <1>6, <1>7, <1>b DEF Foreseen
<1>9. \A n \in Records : v.store[n] = t.store[n]
  BY <1>1 DEF InTwoSteps
<1>10. \A n \in Records : u.store[n] = t.store[n]
  BY <1>4, <1>9 DEF Lets
<1>11. claim \in DOMAIN u.store.claims
  <2>1. v.store.claims = Put(t.store.claims, claim, NewClaim) /\ DOMAIN u.store.claims = DOMAIN v.store.claims
    BY <1>1, <1>4 DEF Asserted, Quiet
  <2>2. QED
    BY <2>1 DEF Put
<1>12. QED
  BY <1>8, <1>10, <1>11, <1>a DEF SupersededAs

\* An operation is foreseen, and keeps the links.
Foretold(t, u, g, op, names) ==
  Foreseen(Predict(g, op), u) /\ Links(t, u, op, names)

\* Operations on records and sources.
LEMMA ElsewhereForetold ==
  ASSUME NEW t, NEW u, NEW n \in Tables \ {"claims", "conflicts"}, FollowsIn(n, t, u),
         NEW g, Foreseen(g, t),
         NEW op, op.op \notin {"ASSERT_CLAIM", "SUPERSEDE_CLAIM", "RETRACT_CLAIM"},
         NEW names, Links(t, u, op, names)
  PROVE Foretold(t, u, g, op, names)
<1>1. Quiet(t, u)
  BY ElsewhereIsQuiet
<1>2. u.store.claims = t.store.claims /\ Leaving(op) = {}
  BY DEF FollowsIn, Tables, Leaving
<1>3. Active(u.store) = Active(t.store) \ Leaving(op)
  BY <1>2 DEF Active
<1>4. Foreseen(Predict(g, op), u)
  BY <1>1, <1>3, QuietForeseen
<1>5. QED
  BY <1>4 DEF Foretold

\* Operations on claims and conflicts that let no claim in.
LEMMA LetsForetold ==
  ASSUME NEW t, NEW u, Quiet(t, u), NEW out, Lets(t, u, out), NEW g, Foreseen(g, t),
         NEW op, op.op \notin {"ASSERT_CLAIM", "SUPERSEDE_CLAIM"}, Leaving(op) = out,
         NewIds(op) = {}, NEW names, Linked(t.store, names)
  PROVE Foretold(t, u, g, op, names)
<1>1. Active(u.store) = Active(t.store) \ Leaving(op) /\ \A n \in Records : u.store[n] = t.store[n]
  BY DEF Lets
<1>2. Foreseen(Predict(g, op), u)
  BY <1>1, QuietForeseen
<1>3. Follows(t, u) /\ NewIds(op) \subseteq {<<"claims", c>> : c \in DOMAIN u.store.claims}
  BY DEF Quiet
<1>4. Links(t, u, op, names)
  BY <1>1, <1>3, ClaimsLink
<1>5. QED
  BY <1>2, <1>4 DEF Foretold

LEMMA OperationForetold ==
  ASSUME NEW s, NEW D, NEW t, Progress(s, D, t, {}), Rows(s),
         NEW op, op.op \in OperationKinds, NEW who, NEW seq,
         NEW u, u = ApplyOperation(t, op, who, seq), u.error = NONE,
         NEW g, Foreseen(g, t), NEW names, Linked(t.store, names), References(op) \subseteq names
  PROVE Foretold(t, u, g, op, names)
<1>1. t.error = NONE
  BY DEF ApplyOperation
<1>2. IsTxn(t) /\ Rows(t.store)
  BY DEF Progress
<1>3. /\ "sources" \in Tables \ {"claims", "conflicts"} /\ "decisions" \in Tables \ {"claims", "conflicts"}
      /\ "questions" \in Tables \ {"claims", "conflicts"} /\ "work" \in Tables \ {"claims", "conflicts"}
      /\ Linking = {"decisions", "questions", "work"}
  BY DEF Tables, Linking
<1>4. CASE op.op = "REGISTER_SOURCE_REVISION"
  <2>1. u = RegisterSource(t, op) /\ NewIds(op) = {<<"sources", op.source>>}
    BY <1>1, <1>4 DEF ApplyOperation, NewIds
  <2>2. FollowsIn("sources", t, u) /\ DOMAIN u.store.sources = DOMAIN t.store.sources \cup {op.source}
    BY <1>1, <1>2, <2>1, RegisterSourceDoes
  <2>3. Linked(u.store, names)
    <3>1. \A n \in Linking : u.store[n] = t.store[n]
      BY <2>2 DEF FollowsIn, Tables, Linking
    <3>2. QED
      BY <3>1, OthersLink
  <2>4. Names(t.store) \subseteq Names(u.store)
    BY <2>2, NamesStay DEF FollowsIn, Follows
  <2>5. <<"sources", op.source>> \in Names(u.store)
    BY <2>2, NameOf DEF Referable
  <2>6. Links(t, u, op, names)
    BY <2>1, <2>3, <2>4, <2>5 DEF Links
  <2>7. QED
    BY <1>3, <1>4, <2>2, <2>6, ElsewhereForetold
<1>5. CASE op.op = "ASSERT_CLAIM"
  <2>1. u = AssertClaim(t, op.claim, op.links, {}, seq) /\ NewIds(op) = {<<"claims", op.claim>>}
        /\ Leaving(op) = {}
    BY <1>1, <1>5 DEF ApplyOperation, NewIds, Leaving
  <2>0. (\A k \in DOMAIN t.store.conflicts : k \subseteq DOMAIN t.store.claims) /\ Founded(t.store)
    BY DEF Progress
  <2>2. Asserted(t, u, op.claim, {}) /\ InTwoSteps(t, u, op.claim, {}, seq)
    BY <1>1, <1>2, <2>0, <2>1, AssertClaimDoes
  <2>3. PICK h : h = Predict(g, op)
    OBVIOUS
  <2>4. /\ IsForecast(h) /\ h.active = Active(u.store)
        /\ Catalogue(h.episodes, u.store.conflicts) /\ h.ids = u.opened
    <3>b. PICK act : act = Active(u.store)
      OBVIOUS
    <3>a. PICK claim, out : claim = op.claim /\ out = {}
      OBVIOUS
    <3>1. Asserted(t, u, claim, out) /\ InTwoSteps(t, u, claim, out, seq)
          /\ op.claim = claim /\ Leaving(op) = out
      BY <2>1, <2>2, <3>a
    <3>2. /\ IsForecast(h) /\ h.active = Active(u.store) \ out
          /\ Catalogue(h.episodes, u.store.conflicts) /\ h.ids = u.opened
      BY <1>5, <2>3, <3>1, AssertForeseen
    <3>3. act \ out = act
      BY <3>a
    <3>4. QED
      BY <3>2, <3>3, <3>b
  <2>5. Foreseen(h, u)
    BY <2>4 DEF Foreseen
  <2>6. Follows(t, u) /\ (\A n \in Records : u.store[n] = t.store[n]) /\ op.claim \in DOMAIN u.store.claims
    BY <2>2 DEF Asserted, InTwoSteps, Put
  <2>7. Links(t, u, op, names)
    BY <2>1, <2>6, ClaimsLink
  <2>8. QED
    BY <2>3, <2>5, <2>7 DEF Foretold
<1>6. CASE op.op = "ATTACH_EVIDENCE"
  <2>1. u = AttachEvidence(t, op) /\ NewIds(op) = {} /\ Leaving(op) = {}
    BY <1>1, <1>6 DEF ApplyOperation, NewIds, Leaving
  <2>2. Quiet(t, u) /\ Lets(t, u, {})
    BY <1>1, <1>2, <2>1, AttachEvidenceDoes
  <2>3. QED
    BY <1>6, <2>1, <2>2, LetsForetold
<1>7. CASE op.op = "SUPERSEDE_CLAIM"
  <2>1. u = SupersedeClaim(t, op, seq) /\ NewIds(op) = {<<"claims", op.claim>>}
    BY <1>1, <1>7 DEF ApplyOperation, NewIds
  <2>2. Superseded(t, u, op.claim, op.target, seq) /\ Follows(t, u)
    BY <1>1, <2>1, SupersedeClaimDoes
  <2>3. SupersededAs(t, u, op, Predict(g, op))
    BY <1>7, <2>2, SupersessionForeseen
  <2>4. Links(t, u, op, names)
    BY <2>1, <2>2, <2>3, ClaimsLink DEF SupersededAs
  <2>5. QED
    BY <2>3, <2>4 DEF Foretold, SupersededAs
<1>8. CASE op.op = "RETRACT_CLAIM"
  <2>1. u = RetractClaim(t, op, who) /\ NewIds(op) = {} /\ Leaving(op) = {op.target}
    BY <1>1, <1>8 DEF ApplyOperation, NewIds, Leaving
  <2>2. Quiet(t, u) /\ Lets(t, u, {op.target})
    BY <1>1, <1>2, <2>1, RetractClaimDoes
  <2>3. QED
    BY <1>8, <2>1, <2>2, LetsForetold
<1>9. CASE op.op = "RESOLVE_CONFLICT"
  <2>1. u = ResolveConflict(t, op, who) /\ NewIds(op) = {} /\ Leaving(op) = {}
    BY <1>1, <1>9 DEF ApplyOperation, NewIds, Leaving
  <2>2. Quiet(t, u) /\ Lets(t, u, {})
    BY <1>1, <1>2, <2>1, ResolveConflictDoes
  <2>3. QED
    BY <1>9, <2>1, <2>2, LetsForetold
<1>10. CASE op.op = "RECORD_DECISION"
  <2>1. u = RecordDecision(t, op) /\ NewIds(op) = {<<"decisions", op.decision>>}
        /\ References(op) = op.refs
    BY <1>1, <1>10 DEF ApplyOperation, NewIds, References
  <2>2. FollowsIn("decisions", t, u)
        /\ Points("decisions", t.store.decisions, u.store.decisions, {op.decision}, op.refs)
    BY <1>1, <1>2, <2>1, RecordDecisionDoes
  <2>3. Links(t, u, op, names)
    BY <1>3, <2>1, <2>2, RecordsLink
  <2>4. QED
    BY <1>3, <1>10, <2>2, <2>3, ElsewhereForetold
<1>11. CASE op.op = "SUPERSEDE_DECISION"
  <2>1. u = SupersedeDecision(t, op) /\ NewIds(op) = {<<"decisions", op.decision>>}
        /\ References(op) = op.refs
    BY <1>1, <1>11 DEF ApplyOperation, NewIds, References
  <2>2. FollowsIn("decisions", t, u)
        /\ Points("decisions", t.store.decisions, u.store.decisions, {op.decision}, op.refs)
    BY <1>1, <1>2, <2>1, SupersedeDecisionDoes
  <2>3. Links(t, u, op, names)
    BY <1>3, <2>1, <2>2, RecordsLink
  <2>4. QED
    BY <1>3, <1>11, <2>2, <2>3, ElsewhereForetold
<1>12. CASE op.op = "OPEN_QUESTION"
  <2>1. u = OpenQuestion(t, op) /\ NewIds(op) = {<<"questions", op.question>>}
        /\ References(op) = op.refs
    BY <1>1, <1>12 DEF ApplyOperation, NewIds, References
  <2>2. FollowsIn("questions", t, u)
        /\ Points("questions", t.store.questions, u.store.questions, {op.question}, op.refs)
    BY <1>1, <1>2, <2>1, OpenQuestionDoes
  <2>3. Links(t, u, op, names)
    BY <1>3, <2>1, <2>2, RecordsLink
  <2>4. QED
    BY <1>3, <1>12, <2>2, <2>3, ElsewhereForetold
<1>13. CASE op.op \in {"ANSWER_QUESTION", "DROP_QUESTION"}
  <2>1. PICK status, answer : u = CloseQuestion(t, op.target, status, answer)
                              /\ answer \subseteq References(op)
    BY <1>1, <1>13 DEF ApplyOperation, AnswerQuestion, DropQuestion, References
  <2>2. NewIds(op) = {}
    BY <1>13 DEF NewIds
  <2>3. FollowsIn("questions", t, u)
        /\ Points("questions", t.store.questions, u.store.questions, {}, answer)
    BY <1>1, <1>2, <2>1, CloseQuestionDoes
  <2>4. Links(t, u, op, names)
    BY <1>3, <2>1, <2>2, <2>3, RecordsLink
  <2>5. QED
    BY <1>3, <1>13, <2>3, <2>4, ElsewhereForetold
<1>14. CASE op.op = "CREATE_WORK_ITEM"
  <2>1. u = CreateWorkItem(t, op) /\ NewIds(op) = {<<"work", op.item>>}
        /\ References(op) = op.refs
    BY <1>1, <1>14 DEF ApplyOperation, NewIds, References
  <2>2. FollowsIn("work", t, u)
        /\ Points("work", t.store.work, u.store.work, {op.item}, op.refs)
    BY <1>1, <1>2, <2>1, CreateWorkItemDoes
  <2>3. Links(t, u, op, names)
    BY <1>3, <2>1, <2>2, RecordsLink
  <2>4. QED
    BY <1>3, <1>14, <2>2, <2>3, ElsewhereForetold
<1>15. CASE op.op = "UPDATE_WORK_ITEM_STATUS"
  <2>1. u = UpdateWorkItemStatus(t, op) /\ NewIds(op) = {}
    BY <1>1, <1>15 DEF ApplyOperation, NewIds
  <2>2. FollowsIn("work", t, u)
        /\ Points("work", t.store.work, u.store.work, {}, {})
    BY <1>1, <1>2, <2>1, UpdateWorkItemStatusDoes
  <2>3. Links(t, u, op, names)
    BY <1>3, <2>1, <2>2, RecordsLink
  <2>4. QED
    BY <1>3, <1>15, <2>2, <2>3, ElsewhereForetold
<1>16. QED
  BY <1>4, <1>5, <1>6, <1>7, <1>8, <1>9, <1>10, <1>11, <1>12, <1>13, <1>14, <1>15
     DEF OperationKinds

-----------------------------------------------------------------------------
(* The links of a proposal, and the invariant.                             *)

\* The first i operations are foreseen, and what they link to is there.
ForetoldUpTo(g, t, s, p, names, i) ==
  /\ Foreseen(g, t) /\ Linked(t.store, names)
  /\ Names(s) \subseteq Names(t.store)
  /\ \A j \in 1 .. i : NewIds(p.ops[j]) \subseteq Names(t.store)

LEMMA OperationsForetold ==
  ASSUME NEW s, NEW D, Good(s, D), Sole(s.conflicts), NEW p, WellFormed(p), ReadsExist(p, s),
         NEW seq, NEW t, t = Transactions(p, s, seq), NEW g, g = Forecasts(s, p.ops),
         t[Len(p.ops)].error = NONE,
         NEW names, Linked(s, names),
         \A i \in 1 .. Len(p.ops) : References(p.ops[i]) \subseteq names
  PROVE ForetoldUpTo(g[Len(p.ops)], t[Len(p.ops)], s, p, names, Len(p.ops))
<1> DEFINE N == Len(p.ops)
           S == {i \in Nat : i <= N /\ t[i].error = NONE
                               => Progress(s, D, t[i], {}) /\ ForetoldUpTo(g[i], t[i], s, p, names, i)}
<1>1. N \in Nat /\ \A i \in 1 .. N : p.ops[i].op \in OperationKinds
  BY DEF WellFormed
<1>2. /\ t[0] = Start(s)
      /\ \A i \in 1 .. N : t[i] = ApplyOperation(t[i - 1], p.ops[i], p.proposer, seq)
  BY <1>1, TransactionsStep
<1>3. /\ g[0] = Unforeseen(s)
      /\ \A i \in 1 .. N : g[i] = Predict(g[i - 1], p.ops[i])
  BY <1>1, ForecastsStep
<1>r. Rows(s)
  BY DEF Good
<1>4. 0 \in S
  <2>1. Progress(s, D, t[0], {})
    BY <1>2, StartIs
  <2>2. Foreseen(g[0], t[0])
    BY <1>2, <1>3, NothingForeseen
  <2>3. t[0].store = s
    BY <1>2 DEF Start
  <2>4. \A j \in 1 .. 0 : NewIds(p.ops[j]) \subseteq Names(t[0].store)
    OBVIOUS
  <2>5. ForetoldUpTo(g[0], t[0], s, p, names, 0)
    BY <2>2, <2>3, <2>4 DEF ForetoldUpTo
  <2>6. QED
    BY <2>1, <2>5
<1>5. ASSUME NEW n \in Nat, n \in S PROVE n + 1 \in S
  <2>a. PICK i : i = n + 1
    OBVIOUS
  <2> SUFFICES ASSUME i <= N, t[i].error = NONE
               PROVE Progress(s, D, t[i], {}) /\ ForetoldUpTo(g[i], t[i], s, p, names, i)
    BY <2>a
  <2>b. PICK op : op = p.ops[i]
    OBVIOUS
  <2>c. PICK v, h : v = t[n] /\ h = g[n]
    OBVIOUS
  <2>d. PICK u : u = t[i]
    OBVIOUS
  <2>1. i \in 1 .. N /\ i - 1 = n /\ n <= N
    BY <1>1, <2>a
  <2>2. u = ApplyOperation(v, op, p.proposer, seq) /\ u.error = NONE /\ op.op \in OperationKinds
        /\ References(op) \subseteq names
    BY <1>1, <1>2, <2>1, <2>b, <2>c, <2>d
  <2>3. v.error = NONE
    BY <2>2 DEF ApplyOperation
  <2>4. Progress(s, D, v, {}) /\ ForetoldUpTo(h, v, s, p, names, n)
    BY <1>5, <2>1, <2>3, <2>c
  <2>5. Progress(s, D, u, {})
    BY <1>r, <2>2, <2>4, OperationDoes DEF Advances
  <2>6. Foretold(v, u, h, op, names)
    BY <1>r, <2>2, <2>4, OperationForetold DEF ForetoldUpTo
  <2>7. g[i] = Predict(h, op)
    BY <1>3, <2>1, <2>b, <2>c
  <2>8. Foreseen(g[i], u) /\ Linked(u.store, names) /\ Names(v.store) \cup NewIds(op) \subseteq Names(u.store)
    BY <2>6, <2>7 DEF Foretold, Links
  <2>9. Names(s) \subseteq Names(u.store)
    BY <2>4, <2>8 DEF ForetoldUpTo
  <2>10. ASSUME NEW j \in 1 .. i PROVE NewIds(p.ops[j]) \subseteq Names(u.store)
    <3>1. CASE j = i
      BY <2>8, <2>b, <3>1
    <3>2. CASE j # i
      <4>1. j \in 1 .. n
        BY <2>a, <3>2
      <4>2. QED
        BY <2>4, <2>8, <4>1 DEF ForetoldUpTo
    <3>3. QED
      BY <3>1, <3>2
  <2>11. QED
    BY <2>5, <2>8, <2>9, <2>10, <2>d DEF ForetoldUpTo
<1>6. Nat \subseteq S
  <2> HIDE DEF S
  <2> QED BY <1>4, <1>5, NatSetInduction
<1>7. N \in S
  BY <1>1, <1>6
<1>8. QED
  BY <1>1, <1>7

\* What the properties say of links, in the words of the proofs.
LinkInv == Sole(store.conflicts) /\ Linked(store, Names(store))

LEMMA LinkInit == Init => LinkInv
<1> SUFFICES ASSUME Init PROVE LinkInv
  OBVIOUS
<1>1. \A n \in Tables : DOMAIN store[n] = {}
  BY DEF Init, EmptyStore, EmptyTable, Tables
<1>2. {"conflicts", "decisions"} \subseteq Tables /\ Linking \subseteq Tables
  BY DEF Tables, Linking
<1>3. QED
  BY <1>1, <1>2 DEF LinkInv, Sole, Linked

\* An accepted proposal opens the conflicts foreseen, and what it links to exists.
LEMMA EvaluateForetold ==
  ASSUME NEW s, NEW D, Good(s, D), Sole(s.conflicts), Linked(s, Names(s)),
         NEW p, NEW seq, NEW u, u = Evaluate(p, s, seq), u.error = NONE
  PROVE /\ u.opened = PredictedConflicts(s, p.ops)
        /\ Sole(u.store.conflicts) /\ Linked(u.store, Names(u.store))
<1>1. Fail(Start(s), INVALID).error # NONE /\ Fail(Start(s), CONFLICT).error # NONE
  BY DEF Fail, Start, NONE, INVALID, CONFLICT
<1>2. WellFormed(p) /\ ReferencesResolve(s, p.ops) /\ u = Transactions(p, s, seq)[Len(p.ops)]
  BY <1>1 DEF Evaluate
<1>3. DOMAIN p.ops = 1 .. Len(p.ops)
  BY <1>2 DEF WellFormed
<1>4. ReadsExist(p, s) /\ Progress(s, D, u, {})
  <2>1. /\ \A i \in DOMAIN p.ops : \A r \in RequiredReads(p.ops[i]) :
             r[2] \in DOMAIN s[r[1]] /\ s[r[1]][r[2]].version = p.reads[r]
        /\ Progress(s, D, u, {})
    BY EvaluateIs
  <2>2. QED
    BY <1>3, <2>1 DEF ReadsExist
<1>a. PICK names : names = Namespace(s, p.ops)
  OBVIOUS
<1>b. PICK predicted : predicted = PredictedConflicts(s, p.ops)
  OBVIOUS
<1>5. \A r : r \in names <=>
             \/ r \in Names(s)
             \/ \E k \in predicted : r = <<"conflicts", k>>
             \/ \E i \in DOMAIN p.ops : r \in NewIds(p.ops[i])
  <2> DEFINE there == UNION {{<<t, id>> : id \in DOMAIN s[t]} : t \in Referable}
             opened == {<<"conflicts", k>> : k \in PredictedConflicts(s, p.ops)}
             created == UNION {NewIds(p.ops[i]) : i \in DOMAIN p.ops}
  <2>1. Namespace(s, p.ops) = there \cup opened \cup created
    BY DEF Namespace
  <2>2. there = Names(s)
    BY DEF Names
  <2>3. \A r : r \in opened <=> \E k \in predicted : r = <<"conflicts", k>>
    BY <1>b
  <2>4. \A r : r \in created <=> \E i \in DOMAIN p.ops : r \in NewIds(p.ops[i])
    OBVIOUS
  <2> HIDE DEF there, opened, created
  <2>5. QED
    BY <1>a, <2>1, <2>2, <2>3, <2>4
<1>6. Linked(s, names)
  BY <1>5 DEF Linked
<1>7. \A i \in 1 .. Len(p.ops) : References(p.ops[i]) \subseteq names
  BY <1>2, <1>3, <1>a DEF ReferencesResolve
<1>c. PICK g, h : g = Forecasts(s, p.ops) /\ h = g[Len(p.ops)]
  OBVIOUS
<1>8. ForetoldUpTo(h, u, s, p, names, Len(p.ops))
  <2>a. PICK t : t = Transactions(p, s, seq)
    OBVIOUS
  <2>1. t[Len(p.ops)] = u
    BY <1>2, <2>a
  <2>2. ForetoldUpTo(g[Len(p.ops)], t[Len(p.ops)], s, p, names, Len(p.ops))
    BY <1>2, <1>4, <1>6, <1>7, <1>c, <2>a, <2>1, OperationsForetold
  <2>3. QED
    BY <1>c, <2>1, <2>2
<1>9. predicted = h.ids
  BY <1>b, <1>c DEF PredictedConflicts
<1>10. u.opened = predicted /\ Sole(u.store.conflicts)
  BY <1>8, <1>9, CatalogueIsSole DEF ForetoldUpTo, Foreseen
<1>11. names \subseteq Names(u.store)
  <2>1. Names(s) \subseteq Names(u.store) /\ \A i \in DOMAIN p.ops : NewIds(p.ops[i]) \subseteq Names(u.store)
    BY <1>3, <1>8 DEF ForetoldUpTo
  <2>2. \A k \in predicted : <<"conflicts", k>> \in Names(u.store)
    <3>1. \A k \in predicted : k \in DOMAIN u.store.conflicts
      BY <1>4, <1>10 DEF Progress
    <3>2. QED
      BY <3>1, NameOf DEF Referable
  <2>3. QED
    BY <1>5, <2>1, <2>2
<1>12. Linked(u.store, Names(u.store))
  <2>1. Linked(u.store, names)
    BY <1>8 DEF ForetoldUpTo
  <2>2. QED
    BY <1>11, <2>1 DEF Linked
<1>13. QED
  BY <1>10, <1>12, <1>b

LEMMA LinkStep == KernelInv /\ LinkInv /\ [Next]_vars => LinkInv'
<1> SUFFICES ASSUME KernelInv, LinkInv, [Next]_vars PROVE LinkInv'
  OBVIOUS
<1>1. CASE Next
  <2>1. PICK p \in Offered(Len(ledger), store) : Commit(p)
    BY <1>1 DEF Next
  <2>a. PICK u : u = Evaluate(p, store, Len(ledger) + 1)
    OBVIOUS
  <2>2. u.error = NONE /\ store' = u.store
    BY <2>1, <2>a DEF Commit
  <2>3. Good(store, DecidedPairs(ledger)) /\ Sole(store.conflicts) /\ Linked(store, Names(store))
    BY DEF KernelInv, Accounted, LinkInv
  <2>4. Sole(u.store.conflicts) /\ Linked(u.store, Names(u.store))
    BY <2>2, <2>3, <2>a, EvaluateForetold
  <2>5. QED
    BY <2>2, <2>4 DEF LinkInv
<1>2. CASE UNCHANGED vars
  BY <1>2 DEF vars, LinkInv
<1>3. QED
  BY <1>1, <1>2

\* Links are checked before the batch that creates their targets runs: whatever
\* a caller offers and the operations accept, the conflicts foreseen are those
\* the operations open, and whatever a record points at exists.
THEOREM LinksAreKept == Spec => []LinksResolve
<1>1. KernelInv /\ LinkInv => LinksResolve
  <2> SUFFICES ASSUME KernelInv, LinkInv PROVE LinksResolve
    OBVIOUS
  <2>1. Good(store, DecidedPairs(ledger)) /\ Sole(store.conflicts) /\ Linked(store, Names(store))
    BY DEF KernelInv, Accounted, LinkInv
  <2>2. ASSUME NEW p, NEW txn, txn = Evaluate(p, store, Len(ledger) + 1), txn.error = NONE
        PROVE txn.opened = PredictedConflicts(store, p.ops)
    BY <2>1, <2>2, EvaluateForetold
  <2>3. \A r \in Names(store) : r[2] \in DOMAIN store[r[1]]
    BY DEF Names
  <2> DEFINE D == UNION {store.decisions[d].refs : d \in DOMAIN store.decisions}
             Q == UNION {store.questions[q].refs \cup store.questions[q].answer :
                           q \in DOMAIN store.questions}
             W == UNION {store.work[w].refs : w \in DOMAIN store.work}
  <2>4. D \subseteq Names(store) /\ Q \subseteq Names(store) /\ W \subseteq Names(store)
    <3>1. /\ \A d \in DOMAIN store.decisions : store.decisions[d].refs \subseteq Names(store)
          /\ \A q \in DOMAIN store.questions :
               store.questions[q].refs \cup store.questions[q].answer \subseteq Names(store)
          /\ \A w \in DOMAIN store.work : store.work[w].refs \subseteq Names(store)
      BY <2>1 DEF Linked, Linking, Pointed
    <3>2. QED
      BY <3>1
  <2>5. \A d \in DOMAIN store.decisions : store.decisions[d].by \in DOMAIN store.decisions \cup {NONE}
    BY <2>1 DEF Linked
  <2>6. \A r \in D \cup Q \cup W : r[2] \in DOMAIN store[r[1]]
    <3> HIDE DEF D, Q, W
    <3> QED BY <2>3, <2>4
  <2>7. QED
    BY <2>2, <2>5, <2>6 DEF LinksResolve
<1>2. Spec => []LinkInv
  BY LinkInit, LinkStep, KernelInvariant, PTL DEF Spec
<1>3. QED
  BY <1>1, <1>2, KernelInvariant, PTL

-----------------------------------------------------------------------------
(* The history of one conflict: where it was opened, and where resolved.   *)

\* The places of events, and the resolutions before an opening.
IsPlace(x) == x = <<x[1], x[2]>> /\ x[1] \in Nat /\ x[2] \in Nat
EarlierThan(x, resolved) == {r \in resolved : Precedes(r, x)}

\* The numbers of a row count its openings and its resolutions, and it is opened
\* since the first opening that follows all the resolutions of other episodes.
RowTells(row, opened, resolved) ==
  /\ IsFiniteSet(opened) /\ IsFiniteSet(resolved)
  /\ \A x \in opened \cup resolved : IsPlace(x)
  /\ row.version = Cardinality(opened) + Cardinality(resolved)
  /\ row.episode = Cardinality(resolved) + (IF row.status = "OPEN" THEN 1 ELSE 0)
  /\ \E x \in opened : x[1] = row.opened /\ Cardinality(EarlierThan(x, resolved)) = row.episode - 1
  /\ \A x \in opened :
       Cardinality(EarlierThan(x, resolved)) = row.episode - 1 => row.opened <= x[1]
  /\ row.status # "OPEN" => \E r \in resolved : \A x \in opened : ~ Precedes(r, x)

\* A place after all those of a conflict.
IsLast(z, opened, resolved) ==
  IsPlace(z) /\ \A x \in opened \cup resolved : Precedes(x, z) /\ ~ Precedes(z, x) /\ x # z

LEMMA AllAreEarlier ==
  ASSUME NEW opened, NEW resolved, NEW z, IsLast(z, opened, resolved)
  PROVE EarlierThan(z, resolved) = resolved
BY DEF IsLast, EarlierThan

\* The first opening.
LEMMA FirstTells ==
  ASSUME NEW row, NEW z, IsPlace(z), row.version = 1, row.episode = 1, row.status = "OPEN",
         row.opened = z[1]
  PROVE RowTells(row, {z}, {})
<1>1. IsFiniteSet({z}) /\ Cardinality({z}) = 1 /\ IsFiniteSet({}) /\ Cardinality({}) = 0
  BY FS_Singleton, FS_EmptySet
<1>2. EarlierThan(z, {}) = {}
  BY DEF EarlierThan
<1>3. z[1] <= z[1]
  BY DEF IsPlace
<1>4. QED
  BY <1>1, <1>2, <1>3 DEF RowTells

\* An opening of a conflict that is open: the episode goes on.
LEMMA JoinTells ==
  ASSUME NEW row, NEW opened, NEW resolved, RowTells(row, opened, resolved),
         row.status = "OPEN", NEW z, IsLast(z, opened, resolved),
         NEW new, new.version = row.version + 1, new.episode = row.episode,
         new.status = "OPEN", new.opened = row.opened
  PROVE RowTells(new, opened \cup {z}, resolved)
<1>1. IsFiniteSet(opened) /\ IsFiniteSet(resolved) /\ z \notin opened
  BY DEF RowTells, IsLast
<1>a. PICK m, n : m = Cardinality(opened) /\ n = Cardinality(resolved)
  OBVIOUS
<1>2. m \in Nat /\ n \in Nat
  BY <1>1, <1>a, FS_CardinalityType
<1>3. IsFiniteSet(opened \cup {z}) /\ Cardinality(opened \cup {z}) = m + 1
  BY <1>1, <1>a, FS_AddElement
<1>4. row.version = m + n /\ row.episode = n + 1
  BY <1>a DEF RowTells
<1>5. new.version = Cardinality(opened \cup {z}) + Cardinality(resolved) /\ new.episode = n + 1
  BY <1>2, <1>3, <1>4, <1>a
<1>6. PICK x \in opened : x[1] = row.opened /\ Cardinality(EarlierThan(x, resolved)) = row.episode - 1
  BY DEF RowTells
<1>7. row.opened <= z[1]
  <2>1. IsPlace(x) /\ IsPlace(z) /\ Precedes(x, z)
    BY <1>6 DEF RowTells, IsLast
  <2>2. QED
    BY <1>6, <2>1 DEF IsPlace, Precedes
<1>8. \A y \in opened \cup {z} :
        Cardinality(EarlierThan(y, resolved)) = new.episode - 1 => new.opened <= y[1]
  BY <1>7 DEF RowTells
<1>9. \A y \in opened \cup {z} \cup resolved : IsPlace(y)
  BY DEF RowTells, IsLast
<1>10. QED
  BY <1>1, <1>3, <1>5, <1>6, <1>8, <1>9, <1>a DEF RowTells

\* An opening of a conflict that is resolved: the last resolution precedes it
\* alone.
LEMMA ReopenTells ==
  ASSUME NEW row, NEW opened, NEW resolved, RowTells(row, opened, resolved),
         row.status # "OPEN", NEW z, IsLast(z, opened, resolved),
         NEW new, new.version = row.version + 1, new.episode = row.episode + 1,
         new.status = "OPEN", new.opened = z[1]
  PROVE RowTells(new, opened \cup {z}, resolved)
<1>1. IsFiniteSet(opened) /\ IsFiniteSet(resolved) /\ z \notin opened
  BY DEF RowTells, IsLast
<1>a. PICK m, n : m = Cardinality(opened) /\ n = Cardinality(resolved)
  OBVIOUS
<1>2. m \in Nat /\ n \in Nat
  BY <1>1, <1>a, FS_CardinalityType
<1>3. IsFiniteSet(opened \cup {z}) /\ Cardinality(opened \cup {z}) = m + 1
  BY <1>1, <1>a, FS_AddElement
<1>4. row.version = m + n /\ row.episode = n
  BY <1>a, <1>2 DEF RowTells
<1>5. /\ new.version = Cardinality(opened \cup {z}) + Cardinality(resolved)
      /\ new.episode = n + 1 /\ new.episode - 1 = n
  BY <1>2, <1>3, <1>4, <1>a
<1>6. PICK r \in resolved : \A x \in opened : ~ Precedes(r, x)
  BY DEF RowTells
<1>7. ASSUME NEW x \in opened PROVE Cardinality(EarlierThan(x, resolved)) # n
  <2>1. EarlierThan(x, resolved) \in SUBSET resolved /\ r \notin EarlierThan(x, resolved)
    BY <1>6 DEF EarlierThan
  <2>2. Cardinality(resolved) = Cardinality(EarlierThan(x, resolved))
          => resolved = EarlierThan(x, resolved)
    BY <1>1, <2>1, FS_Subset
  <2>3. QED
    BY <1>6, <1>a, <2>1, <2>2
<1>8. EarlierThan(z, resolved) = resolved
  BY AllAreEarlier
<1>9. z[1] <= z[1] /\ \A y \in opened \cup {z} \cup resolved : IsPlace(y)
  BY DEF RowTells, IsLast, IsPlace
<1>10. \A y \in opened \cup {z} :
         Cardinality(EarlierThan(y, resolved)) = new.episode - 1 => new.opened <= y[1]
  BY <1>5, <1>7, <1>9
<1>11. \E y \in opened \cup {z} :
         y[1] = new.opened /\ Cardinality(EarlierThan(y, resolved)) = new.episode - 1
  BY <1>5, <1>8, <1>a
<1>12. QED
  BY <1>1, <1>3, <1>5, <1>9, <1>10, <1>11, <1>a DEF RowTells

\* A resolution, after all the openings.
LEMMA ResolveTells ==
  ASSUME NEW row, NEW opened, NEW resolved, RowTells(row, opened, resolved),
         row.status = "OPEN", NEW z, IsLast(z, opened, resolved),
         NEW new, new.version = row.version + 1, new.episode = row.episode,
         new.status # "OPEN", new.opened = row.opened
  PROVE RowTells(new, opened, resolved \cup {z})
<1>1. IsFiniteSet(opened) /\ IsFiniteSet(resolved) /\ z \notin resolved
  BY DEF RowTells, IsLast
<1>a. PICK m, n : m = Cardinality(opened) /\ n = Cardinality(resolved)
  OBVIOUS
<1>2. m \in Nat /\ n \in Nat
  BY <1>1, <1>a, FS_CardinalityType
<1>3. IsFiniteSet(resolved \cup {z}) /\ Cardinality(resolved \cup {z}) = n + 1
  BY <1>1, <1>a, FS_AddElement
<1>4. row.version = m + n /\ row.episode = n + 1
  BY <1>a DEF RowTells
<1>5. /\ new.version = Cardinality(opened) + Cardinality(resolved \cup {z})
      /\ new.episode = Cardinality(resolved \cup {z}) + 0
  BY <1>2, <1>3, <1>4, <1>a
<1>6. \A x \in opened : ~ Precedes(z, x)
  BY DEF IsLast
<1>7. \A x \in opened : EarlierThan(x, resolved \cup {z}) = EarlierThan(x, resolved)
  BY <1>6 DEF EarlierThan
<1>8. \A y \in opened \cup (resolved \cup {z}) : IsPlace(y)
  BY DEF RowTells, IsLast
<1>9. /\ \E x \in opened : /\ x[1] = new.opened
                           /\ Cardinality(EarlierThan(x, resolved \cup {z})) = new.episode - 1
      /\ \A x \in opened : Cardinality(EarlierThan(x, resolved \cup {z})) = new.episode - 1
                             => new.opened <= x[1]
  BY <1>7 DEF RowTells
<1>10. QED
  BY <1>1, <1>3, <1>5, <1>6, <1>8, <1>9 DEF RowTells

-----------------------------------------------------------------------------
(* The events of a ledger, and what they say of the conflicts of a store.  *)

\* Lists of events, one for each entry; the places of the events; and where a
\* conflict was opened and resolved.
PlacesIn(B) == UNION {{n} \X DOMAIN B[n] : n \in DOMAIN B}
EventIn(B, x) == B[x[1]][x[2]]
OpenedAt(B, k) ==
  {x \in PlacesIn(B) : EventIn(B, x).type = "CONFLICT_OPENED" /\ EventIn(B, x).id = k}
ResolvedAt(B, k) ==
  {x \in PlacesIn(B) : EventIn(B, x).type = "CONFLICT_RESOLVED" /\ EventIn(B, x).id = k}

\* The last of some openings names the members of the conflict.
LastNames(B, opened, members) ==
  \E x \in opened : /\ \A y \in opened : y = x \/ Precedes(y, x)
                    /\ EventIn(B, x).conflict.members = members
\* A resolution decides the members that the last opening before it names.
DecidesAll(B, x) ==
  \E o \in {y \in OpenedAt(B, EventIn(B, x).id) : Precedes(y, x)} :
    /\ \A y \in OpenedAt(B, EventIn(B, x).id) : Precedes(y, x) => y = o \/ Precedes(y, o)
    /\ \A r \in EventIn(B, x).resolution :
         r.selected \cup r.rejected = EventIn(B, o).conflict.members

Chronicled(B, table) ==
  /\ \A k \in DOMAIN table :
       /\ RowTells(table[k], OpenedAt(B, k), ResolvedAt(B, k))
       /\ LastNames(B, OpenedAt(B, k), table[k].members)
  /\ \A x \in PlacesIn(B) : EventIn(B, x).type \in AboutConflicts => EventIn(B, x).id \in DOMAIN table
  /\ \A x \in PlacesIn(B) : EventIn(B, x).type = "CONFLICT_RESOLVED" => DecidesAll(B, x)

\* One more event is written at the end.
Written(B, C, z, e) ==
  /\ PlacesIn(C) = PlacesIn(B) \cup {z}
  /\ EventIn(C, z) = e
  /\ IsPlace(z)
  /\ \A x \in PlacesIn(B) : /\ EventIn(C, x) = EventIn(B, x)
                            /\ Precedes(x, z) /\ ~ Precedes(z, x) /\ x # z

LEMMA WrittenAdds ==
  ASSUME NEW B, NEW C, NEW z, NEW e, Written(B, C, z, e), NEW k
  PROVE /\ (e.type = "CONFLICT_OPENED" /\ e.id = k) => OpenedAt(C, k) = OpenedAt(B, k) \cup {z}
        /\ ~ (e.type = "CONFLICT_OPENED" /\ e.id = k) => OpenedAt(C, k) = OpenedAt(B, k)
        /\ (e.type = "CONFLICT_RESOLVED" /\ e.id = k) => ResolvedAt(C, k) = ResolvedAt(B, k) \cup {z}
        /\ ~ (e.type = "CONFLICT_RESOLVED" /\ e.id = k) => ResolvedAt(C, k) = ResolvedAt(B, k)
        /\ IsLast(z, OpenedAt(B, k), ResolvedAt(B, k))
<1>1. \A x : x \in OpenedAt(C, k) <=>
               x \in OpenedAt(B, k) \/ (x = z /\ e.type = "CONFLICT_OPENED" /\ e.id = k)
  BY DEF Written, OpenedAt
<1>2. \A x : x \in ResolvedAt(C, k) <=>
               x \in ResolvedAt(B, k) \/ (x = z /\ e.type = "CONFLICT_RESOLVED" /\ e.id = k)
  BY DEF Written, ResolvedAt
<1>3. IsLast(z, OpenedAt(B, k), ResolvedAt(B, k))
  BY DEF Written, OpenedAt, ResolvedAt, IsLast
<1>4. QED
  BY <1>1, <1>2, <1>3

\* What the events before it say stays said.
LEMMA DecisionsStay ==
  ASSUME NEW B, NEW C, NEW z, NEW e, Written(B, C, z, e),
         NEW x \in PlacesIn(B), EventIn(B, x).type = "CONFLICT_RESOLVED", DecidesAll(B, x)
  PROVE DecidesAll(C, x)
<1>a. PICK k : k = EventIn(B, x).id
  OBVIOUS
<1>1. EventIn(C, x) = EventIn(B, x) /\ ~ Precedes(z, x)
  BY DEF Written
<1>2. PICK o \in OpenedAt(B, k) :
        /\ Precedes(o, x)
        /\ \A y \in OpenedAt(B, k) : Precedes(y, x) => y = o \/ Precedes(y, o)
        /\ \A r \in EventIn(B, x).resolution :
             r.selected \cup r.rejected = EventIn(B, o).conflict.members
  BY <1>a DEF DecidesAll
<1>3. o \in PlacesIn(B) /\ EventIn(C, o) = EventIn(B, o)
  BY DEF Written, OpenedAt
<1>4. o \in OpenedAt(C, k) /\ \A y \in OpenedAt(C, k) : y \in OpenedAt(B, k) \/ y = z
  BY WrittenAdds
<1>5. QED
  BY <1>1, <1>2, <1>3, <1>4, <1>a DEF DecidesAll

LEMMA NamesLast ==
  ASSUME NEW B, NEW C, NEW z, NEW e, Written(B, C, z, e), NEW k, NEW members,
         LastNames(B, OpenedAt(B, k), members)
  PROVE LastNames(C, OpenedAt(B, k), members)
BY DEF Written, LastNames, OpenedAt

\* An event about something else.
LEMMA OtherEvent ==
  ASSUME NEW B, NEW C, NEW z, NEW e, Written(B, C, z, e), e.type \notin AboutConflicts,
         NEW table, Chronicled(B, table)
  PROVE Chronicled(C, table)
<1>1. \A k : OpenedAt(C, k) = OpenedAt(B, k) /\ ResolvedAt(C, k) = ResolvedAt(B, k)
  BY WrittenAdds DEF AboutConflicts
<1>2. ASSUME NEW k \in DOMAIN table
      PROVE /\ RowTells(table[k], OpenedAt(C, k), ResolvedAt(C, k))
            /\ LastNames(C, OpenedAt(C, k), table[k].members)
  BY <1>1, NamesLast DEF Chronicled
<1>3. ASSUME NEW x \in PlacesIn(C), EventIn(C, x).type \in AboutConflicts
      PROVE /\ EventIn(C, x).id \in DOMAIN table
            /\ EventIn(C, x).type = "CONFLICT_RESOLVED" => DecidesAll(C, x)
  <2>1. x \in PlacesIn(B) /\ EventIn(C, x) = EventIn(B, x)
    BY <1>3 DEF Written
  <2>2. QED
    BY <1>3, <2>1, DecisionsStay DEF Chronicled
<1>4. QED
  BY <1>2, <1>3 DEF Chronicled, AboutConflicts

\* The conflict an opening leaves: its first episode, one that goes on with more
\* members, or another.
Succeeds(old, key, val, seq) ==
  \/ /\ key \notin DOMAIN old
     /\ val.version = 1 /\ val.episode = 1 /\ val.status = "OPEN" /\ val.opened = seq
  \/ /\ key \in DOMAIN old /\ old[key].status = "OPEN"
     /\ val.version = old[key].version + 1 /\ val.episode = old[key].episode
     /\ val.status = "OPEN" /\ val.opened = old[key].opened
  \/ /\ key \in DOMAIN old /\ old[key].status # "OPEN"
     /\ val.version = old[key].version + 1 /\ val.episode = old[key].episode + 1
     /\ val.status = "OPEN" /\ val.opened = seq

LEMMA OpeningEvent ==
  ASSUME NEW B, NEW C, NEW z, NEW e, Written(B, C, z, e), NEW old, Chronicled(B, old),
         NEW key, NEW val, e.type = "CONFLICT_OPENED", e.id = key, e.conflict.members = val.members,
         Succeeds(old, key, val, z[1]),
         NEW table, table = Put(old, key, val)
  PROVE Chronicled(C, table)
<1>1. /\ DOMAIN table = DOMAIN old \cup {key} /\ table[key] = val
      /\ \A k \in DOMAIN old \ {key} : table[k] = old[k]
  BY DEF Put
<1>2. /\ \A k : ResolvedAt(C, k) = ResolvedAt(B, k)
      /\ \A k : k # key => OpenedAt(C, k) = OpenedAt(B, k)
      /\ OpenedAt(C, key) = OpenedAt(B, key) \cup {z}
      /\ IsLast(z, OpenedAt(B, key), ResolvedAt(B, key))
  BY WrittenAdds
<1>3. ASSUME NEW k \in DOMAIN old, k # key
      PROVE /\ RowTells(table[k], OpenedAt(C, k), ResolvedAt(C, k))
            /\ LastNames(C, OpenedAt(C, k), table[k].members)
  <2>1. table[k] = old[k] /\ OpenedAt(C, k) = OpenedAt(B, k) /\ ResolvedAt(C, k) = ResolvedAt(B, k)
    BY <1>1, <1>2, <1>3
  <2>2. RowTells(old[k], OpenedAt(B, k), ResolvedAt(B, k)) /\ LastNames(B, OpenedAt(B, k), old[k].members)
    BY DEF Chronicled
  <2>3. LastNames(C, OpenedAt(B, k), old[k].members)
    BY <2>2, NamesLast
  <2>4. QED
    BY <2>1, <2>2, <2>3
<1>4. RowTells(val, OpenedAt(B, key) \cup {z}, ResolvedAt(B, key))
  <2>a. PICK opened, resolved : opened = OpenedAt(B, key) /\ resolved = ResolvedAt(B, key)
    OBVIOUS
  <2>0. IsPlace(z) /\ IsLast(z, opened, resolved)
    BY <1>2, <2>a DEF Written
  <2>1. CASE key \notin DOMAIN old
    <3>1. opened = {} /\ resolved = {}
      BY <2>1, <2>a DEF Chronicled, AboutConflicts, OpenedAt, ResolvedAt
    <3>2. val.version = 1 /\ val.episode = 1 /\ val.status = "OPEN" /\ val.opened = z[1]
      BY <2>1 DEF Succeeds
    <3>3. RowTells(val, {z}, {})
      BY <2>0, <3>2, FirstTells
    <3>4. opened \cup {z} = {z}
      BY <3>1
    <3>5. QED
      BY <3>1, <3>3, <3>4, <2>a
  <2>2. CASE key \in DOMAIN old
    <3>a. PICK row : row = old[key]
      OBVIOUS
    <3>1. RowTells(row, opened, resolved)
      BY <2>2, <2>a, <3>a DEF Chronicled
    <3>2. CASE row.status = "OPEN"
      <4>1. val.version = row.version + 1 /\ val.episode = row.episode
            /\ val.status = "OPEN" /\ val.opened = row.opened
        BY <2>2, <3>2, <3>a DEF Succeeds
      <4>2. RowTells(val, opened \cup {z}, resolved)
        BY <2>0, <3>1, <3>2, <4>1, JoinTells
      <4>3. QED
        BY <4>2, <2>a
    <3>3. CASE row.status # "OPEN"
      <4>1. val.version = row.version + 1 /\ val.episode = row.episode + 1
            /\ val.status = "OPEN" /\ val.opened = z[1]
        BY <2>2, <3>3, <3>a DEF Succeeds
      <4>2. RowTells(val, opened \cup {z}, resolved)
        BY <2>0, <3>1, <3>3, <4>1, ReopenTells
      <4>3. QED
        BY <4>2, <2>a
    <3>4. QED
      BY <3>2, <3>3
  <2>3. QED
    BY <2>1, <2>2
<1>5. LastNames(C, OpenedAt(C, key), val.members)
  <2>1. \A y \in OpenedAt(C, key) : y = z \/ Precedes(y, z)
    BY <1>2 DEF IsLast
  <2>2. EventIn(C, z).conflict.members = val.members /\ z \in OpenedAt(C, key)
    BY <1>2 DEF Written
  <2>3. QED
    BY <2>1, <2>2 DEF LastNames
<1>6. ASSUME NEW k \in DOMAIN table
      PROVE /\ RowTells(table[k], OpenedAt(C, k), ResolvedAt(C, k))
            /\ LastNames(C, OpenedAt(C, k), table[k].members)
  <2>1. CASE k = key
    <3>1. table[k] = val /\ OpenedAt(C, k) = OpenedAt(B, key) \cup {z} /\ ResolvedAt(C, k) = ResolvedAt(B, key)
      BY <1>1, <1>2, <2>1
    <3>2. QED
      BY <1>4, <1>5, <2>1, <3>1
  <2>2. CASE k # key
    BY <1>1, <1>3, <2>2
  <2>3. QED
    BY <2>1, <2>2
<1>7. ASSUME NEW x \in PlacesIn(C), EventIn(C, x).type \in AboutConflicts
      PROVE /\ EventIn(C, x).id \in DOMAIN table
            /\ EventIn(C, x).type = "CONFLICT_RESOLVED" => DecidesAll(C, x)
  <2>1. CASE x = z
    <3>1. EventIn(C, x) = e
      BY <2>1 DEF Written
    <3>2. QED
      BY <1>1, <3>1
  <2>2. CASE x # z
    <3>1. x \in PlacesIn(B) /\ EventIn(C, x) = EventIn(B, x)
      BY <1>7, <2>2 DEF Written
    <3>2. QED
      BY <1>1, <1>7, <3>1, DecisionsStay DEF Chronicled
  <2>3. QED
    BY <2>1, <2>2
<1>8. QED
  BY <1>6, <1>7 DEF Chronicled, AboutConflicts

\* A resolution ends an episode.
Settles(row, val, resolution) ==
  /\ \A r \in resolution : r.selected \cup r.rejected = row.members
  /\ row.status = "OPEN" /\ val.status # "OPEN" /\ val.members = row.members
  /\ val.version = row.version + 1 /\ val.episode = row.episode /\ val.opened = row.opened

LEMMA ResolvingEvent ==
  ASSUME NEW B, NEW C, NEW z, NEW e, Written(B, C, z, e), NEW old, Chronicled(B, old),
         NEW key \in DOMAIN old, NEW val, e.type = "CONFLICT_RESOLVED", e.id = key,
         Settles(old[key], val, e.resolution),
         NEW table, table = [old EXCEPT ![key] = val]
  PROVE Chronicled(C, table)
<1>1. /\ DOMAIN table = DOMAIN old /\ table[key] = val
      /\ \A k \in DOMAIN old \ {key} : table[k] = old[k]
  OBVIOUS
<1>2. /\ \A k : OpenedAt(C, k) = OpenedAt(B, k)
      /\ \A k : k # key => ResolvedAt(C, k) = ResolvedAt(B, k)
      /\ ResolvedAt(C, key) = ResolvedAt(B, key) \cup {z}
      /\ IsLast(z, OpenedAt(B, key), ResolvedAt(B, key))
  BY WrittenAdds
<1>3. ASSUME NEW k \in DOMAIN old, k # key
      PROVE RowTells(table[k], OpenedAt(C, k), ResolvedAt(C, k))
  BY <1>1, <1>2, <1>3 DEF Chronicled
<1>4. RowTells(val, OpenedAt(B, key), ResolvedAt(B, key) \cup {z})
  <2>a. PICK opened, resolved : opened = OpenedAt(B, key) /\ resolved = ResolvedAt(B, key)
    OBVIOUS
  <2>b. PICK row : row = old[key]
    OBVIOUS
  <2>1. RowTells(row, opened, resolved) /\ IsLast(z, opened, resolved) /\ row.status = "OPEN"
    BY <1>2, <2>a, <2>b DEF Chronicled, Settles
  <2>2. val.status # "OPEN" /\ val.version = row.version + 1 /\ val.episode = row.episode
        /\ val.opened = row.opened
    BY <2>b DEF Settles
  <2>3. RowTells(val, opened, resolved \cup {z})
    BY <2>1, <2>2, ResolveTells
  <2>4. QED
    BY <2>3, <2>a
<1>5. ASSUME NEW k \in DOMAIN table
      PROVE /\ RowTells(table[k], OpenedAt(C, k), ResolvedAt(C, k))
            /\ LastNames(C, OpenedAt(C, k), table[k].members)
  <2>1. LastNames(B, OpenedAt(B, k), old[k].members)
    BY <1>1 DEF Chronicled
  <2>2. LastNames(C, OpenedAt(B, k), old[k].members)
    BY <2>1, NamesLast
  <2>3. table[k].members = old[k].members
    BY <1>1 DEF Settles
  <2>4. RowTells(table[k], OpenedAt(C, k), ResolvedAt(C, k))
    <3>1. CASE k = key
      <4>1. table[k] = val /\ OpenedAt(C, k) = OpenedAt(B, key) /\ ResolvedAt(C, k) = ResolvedAt(B, key) \cup {z}
        BY <1>1, <1>2, <3>1
      <4>2. QED
        BY <1>4, <4>1
    <3>2. CASE k # key
      BY <1>1, <1>3, <3>2
    <3>3. QED
      BY <3>1, <3>2
  <2>5. QED
    BY <1>2, <2>2, <2>3, <2>4
<1>6. DecidesAll(C, z)
  <2>1. PICK o \in OpenedAt(B, key) :
          /\ \A y \in OpenedAt(B, key) : y = o \/ Precedes(y, o)
          /\ EventIn(B, o).conflict.members = old[key].members
    BY DEF Chronicled, LastNames
  <2>2. EventIn(C, z) = e /\ Precedes(o, z) /\ EventIn(C, o) = EventIn(B, o)
    BY DEF Written, OpenedAt
  <2>3. o \in {y \in OpenedAt(C, key) : Precedes(y, z)}
        /\ \A y \in OpenedAt(C, key) : Precedes(y, z) => y = o \/ Precedes(y, o)
    BY <1>2, <2>1, <2>2
  <2>4. \A r \in EventIn(C, z).resolution :
          r.selected \cup r.rejected = EventIn(C, o).conflict.members
    BY <2>1, <2>2 DEF Settles
  <2>5. EventIn(C, z).id = key
    BY <2>2
  <2>6. QED
    BY <2>3, <2>4, <2>5 DEF DecidesAll
<1>7. ASSUME NEW x \in PlacesIn(C), EventIn(C, x).type \in AboutConflicts
      PROVE /\ EventIn(C, x).id \in DOMAIN table
            /\ EventIn(C, x).type = "CONFLICT_RESOLVED" => DecidesAll(C, x)
  <2>1. CASE x = z
    <3>1. EventIn(C, x) = e
      BY <2>1 DEF Written
    <3>2. QED
      BY <1>1, <1>6, <2>1, <3>1
  <2>2. CASE x # z
    <3>1. x \in PlacesIn(B) /\ EventIn(C, x) = EventIn(B, x)
      BY <1>7, <2>2 DEF Written
    <3>2. QED
      BY <1>1, <1>7, <3>1, DecisionsStay DEF Chronicled
  <2>3. QED
    BY <2>1, <2>2
<1>8. QED
  BY <1>5, <1>7 DEF Chronicled, AboutConflicts

\* The events of some entries, and those of the transaction after them.
Pages(L, E) == [n \in 1 .. Len(L) + 1 |-> IF n <= Len(L) THEN L[n].events ELSE E]
Paged(L) == Len(L) \in Nat /\ \A n \in 1 .. Len(L) : IsList(L[n].events)

LEMMA PagesWritten ==
  ASSUME NEW L, Paged(L), NEW E, IsList(E), NEW e
  PROVE Written(Pages(L, E), Pages(L, Append(E, e)), <<Len(L) + 1, Len(E) + 1>>, e)
<1>a. PICK F : F = Append(E, e)
  OBVIOUS
<1>b. PICK m : m = Len(L)
  OBVIOUS
<1>c. PICK n : n = Len(E)
  OBVIOUS
<1>d. PICK B : B = Pages(L, E)
  OBVIOUS
<1>e. PICK C : C = Pages(L, F)
  OBVIOUS
<1>f. PICK z : z = <<m + 1, n + 1>>
  OBVIOUS
<1>1. m \in Nat /\ n \in Nat /\ DOMAIN E = 1 .. n
  BY <1>b, <1>c DEF Paged, IsList
<1>2. /\ DOMAIN F = 1 .. n + 1 /\ F[n + 1] = e
      /\ \A i \in 1 .. n : F[i] = E[i]
  <2>1. IsList(F) /\ Len(F) = n + 1 /\ F[n + 1] = e /\ \A i \in DOMAIN E : F[i] = E[i]
    BY <1>a, <1>c, AppendToList
  <2>2. QED
    BY <1>1, <2>1 DEF IsList
<1>3. /\ DOMAIN B = 1 .. m + 1 /\ B[m + 1] = E
      /\ \A k \in 1 .. m : B[k] = L[k].events
  BY <1>1, <1>b, <1>d DEF Pages
<1>4. /\ DOMAIN C = 1 .. m + 1 /\ C[m + 1] = F
      /\ \A k \in 1 .. m : C[k] = L[k].events
  BY <1>1, <1>b, <1>e DEF Pages
<1>5. \A k \in 1 .. m : DOMAIN L[k].events \subseteq Nat
  BY <1>b DEF Paged, IsList
<1>6. \A k \in 1 .. m : k \in 1 .. m + 1 /\ k < m + 1 /\ k # m + 1 /\ ~ (m + 1 < k)
  BY <1>1
<1>7. m + 1 \in 1 .. m + 1 /\ n + 1 \in 1 .. n + 1
      /\ (\A k \in 1 .. m + 1 : k \in 1 .. m \/ k = m + 1)
      /\ (\A i \in 1 .. n + 1 : i \in 1 .. n \/ i = n + 1)
  BY <1>1
<1>8. z[1] = m + 1 /\ z[2] = n + 1 /\ IsPlace(z)
  <2>1. z[1] = m + 1 /\ z[2] = n + 1
    BY <1>f
  <2>2. QED
    BY <1>1, <1>f, <2>1 DEF IsPlace
<1>9. \A k, i : <<k, i>> \in PlacesIn(B) <=> k \in DOMAIN B /\ i \in DOMAIN B[k]
  BY DEF PlacesIn
<1>10. \A k, i : <<k, i>> \in PlacesIn(C) <=> k \in DOMAIN C /\ i \in DOMAIN C[k]
  BY DEF PlacesIn
<1>11. ASSUME NEW x \in PlacesIn(B) \cup PlacesIn(C) PROVE x = <<x[1], x[2]>>
  BY DEF PlacesIn
<1>12. z \in PlacesIn(C) /\ EventIn(C, z) = e
  <2>1. <<m + 1, n + 1>> \in PlacesIn(C)
    BY <1>2, <1>4, <1>7, <1>10
  <2>2. QED
    BY <1>2, <1>4, <1>8, <1>f, <2>1 DEF EventIn
<1>13. ASSUME NEW k, NEW i, <<k, i>> \in PlacesIn(B)
       PROVE /\ <<k, i>> \in PlacesIn(C) /\ C[k][i] = B[k][i]
             /\ k < m + 1 \/ (k = m + 1 /\ i < n + 1)
             /\ ~ (m + 1 < k \/ (m + 1 = k /\ n + 1 < i))
             /\ k # m + 1 \/ i # n + 1
  <2>1. k \in 1 .. m + 1 /\ i \in DOMAIN B[k]
    BY <1>3, <1>9, <1>13
  <2>2. CASE k \in 1 .. m
    <3>1. C[k] = B[k] /\ k \in DOMAIN C
      BY <1>3, <1>4, <1>6, <2>2
    <3>2. <<k, i>> \in PlacesIn(C)
      BY <1>10, <2>1, <3>1
    <3>3. k < m + 1 /\ k # m + 1 /\ ~ (m + 1 < k)
      BY <1>6, <2>2
    <3>4. QED
      BY <3>1, <3>2, <3>3
  <2>3. CASE k = m + 1
    <3>1. i \in 1 .. n
      BY <1>1, <1>3, <2>1, <2>3
    <3>2. i \in 1 .. n + 1 /\ i < n + 1 /\ i # n + 1 /\ ~ (n + 1 < i) /\ ~ (m + 1 < m + 1)
      BY <1>1, <3>1
    <3>3. C[k][i] = B[k][i] /\ k \in DOMAIN C /\ i \in DOMAIN C[k]
      BY <1>2, <1>3, <1>4, <1>7, <2>3, <3>1, <3>2
    <3>4. <<k, i>> \in PlacesIn(C)
      BY <1>10, <3>3
    <3>5. QED
      BY <2>3, <3>2, <3>3, <3>4
  <2>4. QED
    BY <1>7, <2>1, <2>2, <2>3
<1>14. ASSUME NEW x \in PlacesIn(B)
       PROVE /\ x \in PlacesIn(C) /\ EventIn(C, x) = EventIn(B, x)
             /\ Precedes(x, z) /\ ~ Precedes(z, x) /\ x # z
  <2>1. x = <<x[1], x[2]>>
    BY <1>11
  <2>2. <<x[1], x[2]>> \in PlacesIn(B)
    BY <2>1
  <2>3. QED
    BY <1>8, <1>13, <2>1, <2>2 DEF EventIn, Precedes
<1>15. ASSUME NEW x \in PlacesIn(C), x # z PROVE x \in PlacesIn(B)
  <2>a. PICK k, i : k = x[1] /\ i = x[2]
    OBVIOUS
  <2>1. x = <<k, i>>
    BY <1>11, <2>a
  <2>2. k \in 1 .. m + 1 /\ i \in DOMAIN C[k]
    BY <1>4, <1>10, <2>1
  <2>3. CASE k \in 1 .. m
    BY <1>3, <1>4, <1>9, <2>1, <2>2, <2>3
  <2>4. CASE k = m + 1
    <3>1. i \in 1 .. n + 1 /\ i # n + 1
      BY <1>2, <1>4, <1>15, <1>f, <2>1, <2>2, <2>4
    <3>2. i \in DOMAIN B[k] /\ k \in DOMAIN B
      BY <1>1, <1>3, <1>7, <2>2, <2>4, <3>1
    <3>3. QED
      BY <1>9, <2>1, <3>2
  <2>5. QED
    BY <1>7, <2>2, <2>3, <2>4
<1>16. PlacesIn(C) = PlacesIn(B) \cup {z}
  BY <1>12, <1>14, <1>15
<1>17. Written(B, C, z, e)
  BY <1>8, <1>12, <1>14, <1>16 DEF Written
<1>18. QED
  BY <1>17, <1>a, <1>b, <1>c, <1>d, <1>e, <1>f

-----------------------------------------------------------------------------
(* What the operations write keeps the history true.                       *)

\* The history of the conflicts, with the events of the transaction under way.
Chronicle(L, t) == Chronicled(Pages(L, t.events), t.store.conflicts)

LEMMA ElsewhereHistory ==
  ASSUME NEW L, Paged(L), NEW t, IsTxn(t), Chronicle(L, t), NEW u, Elsewhere(t, u)
  PROVE Chronicle(L, u)
<1>1. PICK e : u.events = Append(t.events, e) /\ e.type \notin AboutConflicts
  BY DEF Elsewhere
<1>a. PICK B, C, z : /\ B = Pages(L, t.events) /\ C = Pages(L, Append(t.events, e))
                     /\ z = <<Len(L) + 1, Len(t.events) + 1>>
  OBVIOUS
<1>2. Written(B, C, z, e)
  BY <1>a, PagesWritten DEF IsTxn
<1>b. PICK table : table = t.store.conflicts
  OBVIOUS
<1>3. Chronicled(B, table)
  BY <1>a, <1>b DEF Chronicle
<1>4. Chronicled(C, table)
  BY <1>1, <1>2, <1>3, OtherEvent
<1>5. QED
  BY <1>1, <1>4, <1>a, <1>b DEF Chronicle, Elsewhere

LEMMA OpenedRowSucceeds ==
  ASSUME NEW s, Rows(s), NEW claim, NEW parties, NEW sort, NEW seq,
         parties \notin DOMAIN s.conflicts,
         NEW key, key = OpenedRow(s, claim, parties, sort, seq)[1],
         NEW val, val = OpenedRow(s, claim, parties, sort, seq)[2]
  PROVE Succeeds(s.conflicts, key, val, seq)
<1>a. PICK old : old = s.conflicts
  OBVIOUS
<1>b. PICK f : f = Claim[claim].family
  OBVIOUS
<1> DEFINE existing == Episodes(s, f, sort)
<1>1. IsTable("conflicts", old)
  BY <1>a DEF Rows, Aggregates
<1>2. CASE existing = {}
  <2>1. key = parties /\ val = FirstEpisode(f, sort, parties, seq)
    BY <1>2, <1>b DEF OpenedRow
  <2>2. val.version = 1 /\ val.episode = 1 /\ val.status = "OPEN" /\ val.opened = seq
    BY <2>1 DEF FirstEpisode
  <2>3. QED
    BY <2>1, <2>2 DEF Succeeds
<1>3. CASE existing # {}
  <2>1. /\ key = CHOOSE k \in existing : TRUE
        /\ val = IF old[key].status = "OPEN" THEN Joined(old[key], parties)
                 ELSE Reopened(old[key], parties, seq)
    BY <1>3, <1>a, <1>b DEF OpenedRow
  <2>2. key \in DOMAIN old
    BY <1>3, <1>a, <2>1 DEF Episodes
  <2>a. PICK row : row = old[key]
    OBVIOUS
  <2>3. DOMAIN row = Fields["conflicts"]
    BY <1>1, <2>2, <2>a DEF IsTable
  <2>4. {"version", "episode", "status", "opened"} \subseteq DOMAIN row
    BY <2>3 DEF Fields
  <2>5. CASE row.status = "OPEN"
    <3>1. val = Joined(row, parties)
      BY <2>1, <2>5, <2>a
    <3>2. val.version = row.version + 1 /\ val.episode = row.episode
          /\ val.status = row.status /\ val.opened = row.opened
      BY <2>4, <3>1 DEF Joined
    <3>3. QED
      BY <1>a, <2>2, <2>5, <2>a, <3>2 DEF Succeeds
  <2>6. CASE row.status # "OPEN"
    <3>1. val = Reopened(row, parties, seq)
      BY <2>1, <2>6, <2>a
    <3>2. val.version = row.version + 1 /\ val.episode = row.episode + 1
          /\ val.status = "OPEN" /\ val.opened = seq
      BY <2>4, <3>1 DEF Reopened
    <3>3. QED
      BY <1>a, <2>2, <2>6, <2>a, <3>2 DEF Succeeds
  <2>7. QED
    BY <2>5, <2>6
<1>4. QED
  BY <1>2, <1>3

LEMMA OpenConflictHistory ==
  ASSUME NEW L, Paged(L), NEW t, IsTxn(t), Rows(t.store), Chronicle(L, t),
         NEW claim, NEW others, NEW sort, others \cup {claim} \notin DOMAIN t.store.conflicts,
         NEW u, u = OpenConflict(t, claim, others, sort, Len(L) + 1)
  PROVE Chronicle(L, u)
<1>1. CASE others = {}
  BY <1>1 DEF OpenConflict
<1>2. CASE others # {}
  <2>a. PICK parties, seq : parties = others \cup {claim} /\ seq = Len(L) + 1
    OBVIOUS
  <2>b. PICK key : key = OpenedRow(t.store, claim, parties, sort, seq)[1]
    OBVIOUS
  <2>c. PICK val : val = OpenedRow(t.store, claim, parties, sort, seq)[2]
    OBVIOUS
  <2>d. PICK old : old = t.store.conflicts
    OBVIOUS
  <2>1. Filed(t, u, key, val)
    BY <1>2, <2>a, <2>b, <2>c, OpenConflictIs
  <2>2. Succeeds(old, key, val, seq)
    BY <2>a, <2>b, <2>c, <2>d, OpenedRowSucceeds
  <2>e. PICK e : e = [type |-> "CONFLICT_OPENED", id |-> key, conflict |-> Document(val)]
    OBVIOUS
  <2>3. e.type = "CONFLICT_OPENED" /\ e.id = key /\ e.conflict.members = val.members
    BY <2>e DEF Document
  <2>4. u.events = Append(t.events, e) /\ u.store.conflicts = Put(old, key, val)
    BY <2>1, <2>d, <2>e DEF Filed
  <2>f. PICK B, C, z : /\ B = Pages(L, t.events) /\ C = Pages(L, Append(t.events, e))
                       /\ z = <<Len(L) + 1, Len(t.events) + 1>>
    OBVIOUS
  <2>5. Written(B, C, z, e)
    BY <2>f, PagesWritten DEF IsTxn
  <2>6. Chronicled(B, old) /\ z[1] = seq
    BY <2>a, <2>d, <2>f DEF Chronicle
  <2>g. PICK table : table = Put(old, key, val)
    OBVIOUS
  <2>7. Succeeds(old, key, val, z[1])
    BY <2>2, <2>6
  <2>8. Chronicled(C, table)
    BY <2>3, <2>5, <2>6, <2>7, <2>g, OpeningEvent
  <2>9. QED
    BY <2>4, <2>8, <2>f, <2>g DEF Chronicle
<1>3. QED
  BY <1>1, <1>2

LEMMA AssertHistory ==
  ASSUME NEW L, Paged(L), NEW t, IsTxn(t), Chronicle(L, t),
         NEW claim, NEW ignored, NEW u, InTwoSteps(t, u, claim, ignored, Len(L) + 1)
  PROVE Chronicle(L, u)
<1>1. PICK w, x :
        LET X == Against(w.store, claim, ignored, "EXCLUSIVE_VALUE_CONFLICT")
            P == Against(w.store, claim, ignored, "POLARITY_CONFLICT")
        IN /\ IsTxn(w) /\ Rows(w.store) /\ Elsewhere(t, w)
           /\ X \cup {claim} \notin DOMAIN w.store.conflicts
           /\ x = OpenConflict(w, claim, X, "EXCLUSIVE_VALUE_CONFLICT", Len(L) + 1)
           /\ IsTxn(x) /\ Rows(x.store)
           /\ P \cup {claim} \notin DOMAIN x.store.conflicts
           /\ u = OpenConflict(x, claim, P, "POLARITY_CONFLICT", Len(L) + 1)
  BY DEF InTwoSteps
<1>2. Chronicle(L, w)
  BY <1>1, ElsewhereHistory
<1>3. Chronicle(L, x)
  BY <1>1, <1>2, OpenConflictHistory
<1>4. QED
  BY <1>1, <1>3, OpenConflictHistory

LEMMA ResolveConflictHistory ==
  ASSUME NEW L, Paged(L), NEW t, IsTxn(t), Rows(t.store), t.error = NONE, Chronicle(L, t),
         NEW op, NEW who, NEW u, u = ResolveConflict(t, op, who), u.error = NONE
  PROVE Chronicle(L, u)
<1>a. PICK old : old = t.store.conflicts
  OBVIOUS
<1>b. PICK k : k = op.conflict
  OBVIOUS
<1>c. PICK decision : decision = {[selected |-> op.selected, rejected |-> op.rejected]}
  OBVIOUS
<1>d. PICK row : row = [old[k] EXCEPT !.status = "RESOLVED", !.version = @ + 1,
                                      !.resolution = decision]
  OBVIOUS
<1>e. PICK e : e = [type |-> "CONFLICT_RESOLVED", id |-> k, resolution |-> decision]
  OBVIOUS
<1>f. PICK table : table = [old EXCEPT ![k] = row]
  OBVIOUS
<1>1. k \in DOMAIN old /\ old[k].status = "OPEN" /\ op.selected \cup op.rejected = old[k].members
  BY <1>a, <1>b DEF ResolveConflict, Fail, IsTxn, NONE, CONFLICT, INVALID
<1>2. u = Emit(With(t, "conflicts", table), e)
  <2>1. u = Emit([t EXCEPT !.store.conflicts[k] = row], e)
    BY <1>a, <1>b, <1>c, <1>d, <1>e DEF ResolveConflict, Fail, IsTxn, NONE, CONFLICT, INVALID
  <2>2. [t EXCEPT !.store.conflicts[k] = row] = With(t, "conflicts", table)
    BY <1>a, <1>f DEF With
  <2>3. QED
    BY <2>1, <2>2
<1>3. u.events = Append(t.events, e) /\ u.store.conflicts = table
  <2>1. "conflicts" \in Tables
    BY DEF Tables
  <2>2. u.events = Append(t.events, e) /\ u.store["conflicts"] = table
    BY <1>2, <2>1, OneTable
  <2>3. QED
    BY <2>2
<1>4. /\ row.status # "OPEN" /\ row.members = old[k].members
      /\ row.version = old[k].version + 1 /\ row.episode = old[k].episode
      /\ row.opened = old[k].opened
  <2>1. DOMAIN old[k] = Fields["conflicts"]
    BY <1>1, <1>a DEF Rows, IsTable, Aggregates
  <2>2. {"status", "members", "version", "episode", "opened", "resolution"} \subseteq DOMAIN old[k]
    BY <2>1 DEF Fields
  <2>3. QED
    BY <2>2, <1>d
<1>5. e.type = "CONFLICT_RESOLVED" /\ e.id = k
      /\ \A r \in e.resolution : r.selected \cup r.rejected = old[k].members
  BY <1>1, <1>c, <1>e
<1>g. PICK B, C, z : /\ B = Pages(L, t.events) /\ C = Pages(L, Append(t.events, e))
                     /\ z = <<Len(L) + 1, Len(t.events) + 1>>
  OBVIOUS
<1>6. Written(B, C, z, e)
  BY <1>g, PagesWritten DEF IsTxn
<1>7. Chronicled(B, old)
  BY <1>a, <1>g DEF Chronicle
<1>8. Chronicled(C, table)
  <2>1. Settles(old[k], row, e.resolution)
    BY <1>1, <1>4, <1>5 DEF Settles
  <2>2. QED
    BY <1>1, <1>5, <1>6, <1>7, <1>f, <2>1, ResolvingEvent
<1>9. QED
  BY <1>3, <1>8, <1>g DEF Chronicle

LEMMA OperationHistory ==
  ASSUME NEW s, Rows(s), NEW D, NEW t, Progress(s, D, t, {}), NEW L, Paged(L), Chronicle(L, t),
         NEW op, op.op \in OperationKinds, NEW who,
         NEW u, u = ApplyOperation(t, op, who, Len(L) + 1), u.error = NONE
  PROVE Chronicle(L, u)
<1>1. t.error = NONE
  BY DEF ApplyOperation
<1>2. IsTxn(t) /\ Rows(t.store)
  BY DEF Progress
<1>3. SUFFICES ASSUME op.op \notin {"ASSERT_CLAIM", "SUPERSEDE_CLAIM", "RESOLVE_CONFLICT"}
               PROVE Elsewhere(t, u)
  <2>1. CASE op.op = "ASSERT_CLAIM"
    <3>1. u = AssertClaim(t, op.claim, op.links, {}, Len(L) + 1)
      BY <1>1, <2>1 DEF ApplyOperation
    <3>2. (\A k \in DOMAIN t.store.conflicts : k \subseteq DOMAIN t.store.claims) /\ Founded(t.store)
      BY DEF Progress
    <3>3. InTwoSteps(t, u, op.claim, {}, Len(L) + 1)
      BY <1>1, <1>2, <3>1, <3>2, AssertClaimDoes
    <3>4. QED
      BY <1>2, <3>3, AssertHistory
  <2>2. CASE op.op = "SUPERSEDE_CLAIM"
    <3>1. u = SupersedeClaim(t, op, Len(L) + 1)
      BY <1>1, <2>2 DEF ApplyOperation
    <3>2. Superseded(t, u, op.claim, op.target, Len(L) + 1)
      BY <1>1, <3>1, SupersedeClaimDoes
    <3>3. PICK v : /\ Asserted(t, v, op.claim, {op.target}) /\ Elsewhere(v, u)
                   /\ InTwoSteps(t, v, op.claim, {op.target}, Len(L) + 1)
      BY <3>2 DEF Superseded
    <3>4. IsTxn(v)
      BY <3>3 DEF Asserted, Follows
    <3>5. Chronicle(L, v)
      BY <1>2, <3>3, AssertHistory
    <3>6. QED
      BY <3>3, <3>4, <3>5, ElsewhereHistory
  <2>3. CASE op.op = "RESOLVE_CONFLICT"
    <3>1. u = ResolveConflict(t, op, who)
      BY <1>1, <2>3 DEF ApplyOperation
    <3>2. QED
      BY <1>1, <1>2, <3>1, ResolveConflictHistory
  <2>4. CASE Elsewhere(t, u)
    BY <1>2, <2>4, ElsewhereHistory
  <2>5. QED
    BY <1>3, <2>1, <2>2, <2>3, <2>4
<1>4. CASE op.op = "REGISTER_SOURCE_REVISION"
  <2>1. u = RegisterSource(t, op)
    BY <1>1, <1>4 DEF ApplyOperation
  <2>2. QED
    BY <1>1, <1>2, <2>1, RegisterSourceDoes
<1>5. CASE op.op = "ATTACH_EVIDENCE"
  <2>1. u = AttachEvidence(t, op)
    BY <1>1, <1>5 DEF ApplyOperation
  <2>2. QED
    BY <1>1, <1>2, <2>1, AttachEvidenceDoes
<1>6. CASE op.op = "RETRACT_CLAIM"
  <2>1. u = RetractClaim(t, op, who)
    BY <1>1, <1>6 DEF ApplyOperation
  <2>2. QED
    BY <1>1, <1>2, <2>1, RetractClaimDoes
<1>7. CASE op.op = "RECORD_DECISION"
  <2>1. u = RecordDecision(t, op)
    BY <1>1, <1>7 DEF ApplyOperation
  <2>2. QED
    BY <1>1, <1>2, <2>1, RecordDecisionDoes
<1>8. CASE op.op = "SUPERSEDE_DECISION"
  <2>1. u = SupersedeDecision(t, op)
    BY <1>1, <1>8 DEF ApplyOperation
  <2>2. QED
    BY <1>1, <1>2, <2>1, SupersedeDecisionDoes
<1>9. CASE op.op = "OPEN_QUESTION"
  <2>1. u = OpenQuestion(t, op)
    BY <1>1, <1>9 DEF ApplyOperation
  <2>2. QED
    BY <1>1, <1>2, <2>1, OpenQuestionDoes
<1>10. CASE op.op \in {"ANSWER_QUESTION", "DROP_QUESTION"}
  <2>1. \E status, answer : u = CloseQuestion(t, op.target, status, answer)
    BY <1>1, <1>10 DEF ApplyOperation, AnswerQuestion, DropQuestion
  <2>2. QED
    BY <1>1, <1>2, <2>1, CloseQuestionDoes
<1>11. CASE op.op = "CREATE_WORK_ITEM"
  <2>1. u = CreateWorkItem(t, op)
    BY <1>1, <1>11 DEF ApplyOperation
  <2>2. QED
    BY <1>1, <1>2, <2>1, CreateWorkItemDoes
<1>12. CASE op.op = "UPDATE_WORK_ITEM_STATUS"
  <2>1. u = UpdateWorkItemStatus(t, op)
    BY <1>1, <1>12 DEF ApplyOperation
  <2>2. QED
    BY <1>1, <1>2, <2>1, UpdateWorkItemStatusDoes
<1>13. QED
  BY <1>3, <1>4, <1>5, <1>6, <1>7, <1>8, <1>9, <1>10, <1>11, <1>12 DEF OperationKinds

LEMMA OperationsHistory ==
  ASSUME NEW s, NEW D, Good(s, D), NEW p, WellFormed(p), NEW L, Paged(L),
         Chronicled(Pages(L, <<>>), s.conflicts),
         NEW t, t = Transactions(p, s, Len(L) + 1), t[Len(p.ops)].error = NONE
  PROVE Chronicle(L, t[Len(p.ops)])
<1> DEFINE N == Len(p.ops)
           S == {i \in Nat : i <= N /\ t[i].error = NONE
                               => Progress(s, D, t[i], {}) /\ Chronicle(L, t[i])}
<1>1. N \in Nat /\ \A i \in 1 .. N : p.ops[i].op \in OperationKinds
  BY DEF WellFormed
<1>2. /\ t[0] = Start(s)
      /\ \A i \in 1 .. N : t[i] = ApplyOperation(t[i - 1], p.ops[i], p.proposer, Len(L) + 1)
  BY <1>1, TransactionsStep
<1>r. Rows(s)
  BY DEF Good
<1>4. 0 \in S
  <2>1. Progress(s, D, t[0], {})
    BY <1>2, StartIs
  <2>2. t[0].store = s /\ t[0].events = <<>>
    BY <1>2 DEF Start
  <2>3. Chronicle(L, t[0])
    BY <2>2 DEF Chronicle
  <2>4. QED
    BY <2>1, <2>3
<1>5. ASSUME NEW n \in Nat, n \in S PROVE n + 1 \in S
  <2>a. PICK i : i = n + 1
    OBVIOUS
  <2> SUFFICES ASSUME i <= N, t[i].error = NONE
               PROVE Progress(s, D, t[i], {}) /\ Chronicle(L, t[i])
    BY <2>a
  <2>b. PICK op : op = p.ops[i]
    OBVIOUS
  <2>c. PICK v : v = t[n]
    OBVIOUS
  <2>d. PICK u : u = t[i]
    OBVIOUS
  <2>1. i \in 1 .. N /\ i - 1 = n /\ n <= N
    BY <1>1, <2>a
  <2>2. u = ApplyOperation(v, op, p.proposer, Len(L) + 1) /\ u.error = NONE
        /\ op.op \in OperationKinds
    BY <1>1, <1>2, <2>1, <2>b, <2>c, <2>d
  <2>3. v.error = NONE
    BY <2>2 DEF ApplyOperation
  <2>4. Progress(s, D, v, {}) /\ Chronicle(L, v)
    BY <1>5, <2>1, <2>3, <2>c
  <2>5. Progress(s, D, u, {})
    BY <1>r, <2>2, <2>4, OperationDoes DEF Advances
  <2>6. Chronicle(L, u)
    BY <1>r, <2>2, <2>4, OperationHistory
  <2>7. QED
    BY <2>5, <2>6, <2>d
<1>6. Nat \subseteq S
  <2> HIDE DEF S
  <2> QED BY <1>4, <1>5, NatSetInduction
<1>7. N \in S
  BY <1>1, <1>6
<1>8. QED
  BY <1>1, <1>7

-----------------------------------------------------------------------------
(* The history the ledger tells.                                           *)

\* The events of the entries, and the invariant.
Book(L) == [n \in 1 .. Len(L) |-> L[n].events]
HistoryInv == Paged(ledger) /\ Chronicled(Book(ledger), store.conflicts)

\* An empty page at the end tells nothing.
LEMMA BlankPage ==
  ASSUME NEW L, Paged(L), NEW table, Chronicled(Book(L), table)
  PROVE Chronicled(Pages(L, <<>>), table)
<1>a. PICK B, C : B = Book(L) /\ C = Pages(L, <<>>)
  OBVIOUS
<1>b. PICK m : m = Len(L)
  OBVIOUS
<1>1. m \in Nat /\ DOMAIN B = 1 .. m /\ DOMAIN C = 1 .. m + 1 /\ C[m + 1] = <<>>
      /\ \A n \in 1 .. m : C[n] = B[n]
  BY <1>a, <1>b DEF Book, Pages, Paged
<1>2. DOMAIN <<>> = {}
  OBVIOUS
<1>3. \A k, i : <<k, i>> \in PlacesIn(B) <=> k \in DOMAIN B /\ i \in DOMAIN B[k]
  BY DEF PlacesIn
<1>4. \A k, i : <<k, i>> \in PlacesIn(C) <=> k \in DOMAIN C /\ i \in DOMAIN C[k]
  BY DEF PlacesIn
<1>5. \A k : k \in 1 .. m + 1 <=> k \in 1 .. m \/ k = m + 1
  BY <1>1
<1>6. \A k, i : <<k, i>> \in PlacesIn(B) <=> <<k, i>> \in PlacesIn(C)
  BY <1>1, <1>2, <1>3, <1>4, <1>5
<1>7. \A x \in PlacesIn(B) \cup PlacesIn(C) : x = <<x[1], x[2]>>
  BY DEF PlacesIn
<1>8. PlacesIn(B) = PlacesIn(C)
  BY <1>6, <1>7
<1>9. \A x \in PlacesIn(B) : EventIn(C, x) = EventIn(B, x)
  BY <1>1 DEF PlacesIn, EventIn
<1>10. \A k : OpenedAt(C, k) = OpenedAt(B, k) /\ ResolvedAt(C, k) = ResolvedAt(B, k)
  BY <1>8, <1>9 DEF OpenedAt, ResolvedAt
<1>11. \A k : OpenedAt(B, k) \subseteq PlacesIn(B)
  BY DEF OpenedAt
<1>12. Chronicled(B, table)
  BY <1>a
<1>13. ASSUME NEW k, NEW members, LastNames(B, OpenedAt(B, k), members)
       PROVE LastNames(C, OpenedAt(C, k), members)
  BY <1>9, <1>10, <1>11, <1>13 DEF LastNames
<1>14. ASSUME NEW x \in PlacesIn(B), DecidesAll(B, x) PROVE DecidesAll(C, x)
  <2>1. EventIn(C, x) = EventIn(B, x)
    BY <1>9
  <2>a. PICK k : k = EventIn(B, x).id
    OBVIOUS
  <2>2. PICK o \in OpenedAt(B, k) :
          /\ Precedes(o, x)
          /\ \A y \in OpenedAt(B, k) : Precedes(y, x) => y = o \/ Precedes(y, o)
          /\ \A r \in EventIn(B, x).resolution :
               r.selected \cup r.rejected = EventIn(B, o).conflict.members
    BY <1>14, <2>a DEF DecidesAll
  <2>3. EventIn(C, o) = EventIn(B, o)
    BY <1>9, <1>11
  <2>4. QED
    BY <1>10, <2>1, <2>2, <2>3, <2>a DEF DecidesAll
<1>15. Chronicled(C, table)
  BY <1>8, <1>9, <1>10, <1>12, <1>13, <1>14 DEF Chronicled
<1>16. QED
  BY <1>15, <1>a

LEMMA HistoryInit == Init => HistoryInv
<1> SUFFICES ASSUME Init PROVE HistoryInv
  OBVIOUS
<1>1. ledger = <<>> /\ Len(ledger) = 0 /\ store = EmptyStore
  BY DEF Init
<1>2. DOMAIN store.conflicts = {}
  BY <1>1 DEF EmptyStore, EmptyTable
<1>3. Paged(ledger)
  BY <1>1 DEF Paged
<1>4. DOMAIN Book(ledger) = {}
  BY <1>1 DEF Book
<1>5. PlacesIn(Book(ledger)) = {}
  BY <1>4 DEF PlacesIn
<1>6. QED
  BY <1>2, <1>3, <1>5 DEF HistoryInv, Chronicled

LEMMA HistoryStep == KernelInv /\ HistoryInv /\ [Next]_vars => HistoryInv'
<1> SUFFICES ASSUME KernelInv, HistoryInv, [Next]_vars PROVE HistoryInv'
  OBVIOUS
<1>1. CASE Next
  <2>1. PICK p \in Offered(Len(ledger), store) : Commit(p)
    BY <1>1 DEF Next
  <2>a. PICK u : u = Evaluate(p, store, Len(ledger) + 1)
    OBVIOUS
  <2>b. PICK entry : entry = [proposal |-> p, events |-> u.events, opened |-> u.opened,
                              outcome |-> IF u.opened = {} THEN "COMMITTED" ELSE "FACT_CONFLICT"]
    OBVIOUS
  <2>2. u.error = NONE /\ store' = u.store /\ ledger' = Append(ledger, entry)
    BY <2>1, <2>a, <2>b DEF Commit
  <2>3. IsList(ledger) /\ Good(store, DecidedPairs(ledger))
    BY DEF KernelInv, Accounted
  <2>c. PICK D : D = DecidedPairs(ledger)
    OBVIOUS
  <2>d. PICK L, s : L = ledger /\ s = store
    OBVIOUS
  <2>e. PICK M : M = Append(L, entry)
    OBVIOUS
  <2>4. Paged(L) /\ Chronicled(Book(L), s.conflicts)
    BY <2>d DEF HistoryInv
  <2>5. Chronicled(Pages(L, <<>>), s.conflicts)
    BY <2>4, BlankPage
  <2>6. WellFormed(p) /\ Progress(s, D, u, {}) /\ u = Transactions(p, s, Len(L) + 1)[Len(p.ops)]
    <3>1. Fail(Start(s), INVALID).error # NONE /\ Fail(Start(s), CONFLICT).error # NONE
      BY DEF Fail, Start, NONE, INVALID, CONFLICT
    <3>2. u = Transactions(p, s, Len(L) + 1)[Len(p.ops)]
      BY <2>2, <2>a, <2>d, <3>1 DEF Evaluate
    <3>3. WellFormed(p) /\ Progress(s, D, u, {})
      BY <2>2, <2>3, <2>a, <2>c, <2>d, EvaluateIs
    <3>4. QED
      BY <3>2, <3>3
  <2>7. Chronicle(L, u)
    <3>a. PICK t : t = Transactions(p, s, Len(L) + 1)
      OBVIOUS
    <3>1. u = t[Len(p.ops)] /\ Good(s, D)
      BY <2>3, <2>6, <2>c, <2>d, <3>a
    <3>2. t[Len(p.ops)].error = NONE
      BY <2>2, <3>1
    <3>3. Chronicle(L, t[Len(p.ops)])
      BY <2>4, <2>5, <2>6, <3>1, <3>2, <3>a, OperationsHistory
    <3>4. QED
      BY <3>1, <3>3
  <2>8. /\ Len(M) = Len(L) + 1 /\ Len(L) \in Nat
        /\ \A n \in 1 .. Len(L) : M[n] = L[n]
        /\ M[Len(L) + 1] = entry
    BY <2>3, <2>d, <2>e, AppendToList DEF IsList
  <2>9. entry.events = u.events /\ IsList(u.events)
    BY <2>6, <2>b DEF Progress, IsTxn
  <2>10. Paged(M)
    BY <2>4, <2>8, <2>9 DEF Paged
  <2>11. Book(M) = Pages(L, u.events)
    BY <2>8, <2>9 DEF Book, Pages
  <2>12. Chronicled(Book(M), u.store.conflicts)
    BY <2>7, <2>11 DEF Chronicle
  <2>13. QED
    BY <2>2, <2>10, <2>12, <2>d, <2>e DEF HistoryInv
<1>2. CASE UNCHANGED vars
  BY <1>2 DEF vars, HistoryInv
<1>3. QED
  BY <1>1, <1>2

\* FR-025, whatever is offered: the row of a conflict tells how often it was opened
\* and resolved and which entry began its last episode, and a resolution decides
\* exactly the members the conflict had when it was made.
THEOREM EpisodesAreTold == Spec => []EpisodeHistory
<1>1. KernelInv /\ LinkInv /\ HistoryInv => EpisodeHistory
  <2> SUFFICES ASSUME KernelInv, LinkInv, HistoryInv PROVE EpisodeHistory
    OBVIOUS
  <2>a. PICK B, table : B = Book(ledger) /\ table = store.conflicts
    OBVIOUS
  <2>1. Chronicled(B, table) /\ Sole(table)
    BY <2>a DEF HistoryInv, LinkInv
  <2>2. DOMAIN ledger = DOMAIN B /\ \A n \in DOMAIN B : B[n] = ledger[n].events
    BY <2>a DEF Book, KernelInv, Accounted, IsList
  <2>3. Positions = PlacesIn(B)
    BY <2>2 DEF Positions, PlacesIn
  <2>4. \A x \in PlacesIn(B) : EventAt(x) = EventIn(B, x)
    BY <2>2 DEF PlacesIn, EventAt, EventIn
  <2>5. ASSUME NEW k
        PROVE /\ {at \in EventsOf({"CONFLICT_OPENED"}) : EventAt(at).id = k} = OpenedAt(B, k)
              /\ {at \in EventsOf({"CONFLICT_RESOLVED"}) : EventAt(at).id = k} = ResolvedAt(B, k)
    BY <2>3, <2>4 DEF EventsOf, OpenedAt, ResolvedAt
  <2>6. ASSUME NEW k \in DOMAIN table
        PROVE LET row == table[k]
                  opened == {at \in EventsOf({"CONFLICT_OPENED"}) : EventAt(at).id = k}
                  resolved == {at \in EventsOf({"CONFLICT_RESOLVED"}) : EventAt(at).id = k}
                  lastEpisode == {o \in opened :
                                    Cardinality({r \in resolved : Precedes(r, o)}) = row.episode - 1}
              IN /\ Episodes(store, row.family, row.kind) = {k}
                 /\ row.version = Cardinality(opened) + Cardinality(resolved)
                 /\ row.episode = Cardinality(resolved) + (IF row.status = "OPEN" THEN 1 ELSE 0)
                 /\ row.opened \in {o[1] : o \in lastEpisode}
                 /\ \A o \in lastEpisode : row.opened <= o[1]
    <3>a. PICK row : row = table[k]
      OBVIOUS
    <3>b. PICK opened, resolved : opened = OpenedAt(B, k) /\ resolved = ResolvedAt(B, k)
      OBVIOUS
    <3>1. RowTells(row, opened, resolved)
      BY <2>1, <3>a, <3>b DEF Chronicled
    <3>2. Episodes(store, row.family, row.kind) = {k}
      BY <2>1, <2>a, <3>a DEF Sole, Episodes
    <3>c. PICK last : last = {o \in opened : Cardinality({r \in resolved : Precedes(r, o)}) = row.episode - 1}
      OBVIOUS
    <3>3. \A o \in opened : EarlierThan(o, resolved) = {r \in resolved : Precedes(r, o)}
      BY DEF EarlierThan
    <3>4. row.opened \in {o[1] : o \in last} /\ \A o \in last : row.opened <= o[1]
      BY <3>1, <3>3, <3>c DEF RowTells
    <3>5. /\ row.version = Cardinality(opened) + Cardinality(resolved)
          /\ row.episode = Cardinality(resolved) + (IF row.status = "OPEN" THEN 1 ELSE 0)
      BY <3>1 DEF RowTells
    <3>6. QED
      BY <2>5, <3>2, <3>4, <3>5, <3>a, <3>b, <3>c
  <2>7. ASSUME NEW x \in EventsOf({"CONFLICT_RESOLVED"})
        PROVE LET k == EventAt(x).id
                  before == {o \in EventsOf({"CONFLICT_OPENED"}) : EventAt(o).id = k /\ Precedes(o, x)}
              IN \E o \in before :
                   /\ \A other \in before : other = o \/ Precedes(other, o)
                   /\ \A r \in EventAt(x).resolution :
                        r.selected \cup r.rejected = EventAt(o).conflict.members
    <3>1. x \in PlacesIn(B) /\ EventAt(x) = EventIn(B, x) /\ EventIn(B, x).type = "CONFLICT_RESOLVED"
      BY <2>3, <2>4 DEF EventsOf
    <3>2. DecidesAll(B, x)
      BY <2>1, <3>1 DEF Chronicled
    <3>a. PICK k : k = EventIn(B, x).id
      OBVIOUS
    <3>3. PICK o \in OpenedAt(B, k) :
            /\ Precedes(o, x)
            /\ \A y \in OpenedAt(B, k) : Precedes(y, x) => y = o \/ Precedes(y, o)
            /\ \A r \in EventIn(B, x).resolution :
                 r.selected \cup r.rejected = EventIn(B, o).conflict.members
      BY <3>2, <3>a DEF DecidesAll
    <3>4. EventAt(o) = EventIn(B, o)
      BY <2>4 DEF OpenedAt
    <3>5. OpenedAt(B, k) = {at \in EventsOf({"CONFLICT_OPENED"}) : EventAt(at).id = k}
      BY <2>5
    <3>6. QED
      BY <3>1, <3>3, <3>4, <3>5, <3>a
  <2>8. QED
    BY <2>6, <2>7, <2>a DEF EpisodeHistory
<1>2. Spec => [](LinkInv /\ HistoryInv)
  BY LinkInit, LinkStep, HistoryInit, HistoryStep, KernelInvariant, PTL DEF Spec
<1>3. QED
  BY <1>1, <1>2, KernelInvariant, PTL
-----------------------------------------------------------------------------
(* What readers are shown.                                                 *)

\* Every claim has evidence, and its source is there.
Sourced(s) ==
  /\ IsFiniteSet(DOMAIN s.claims)
  /\ \A l \in DOMAIN s.evidence :
       /\ s.evidence[l] = [claim |-> Link[l].claim, source |-> Link[l].source]
       /\ Link[l].source \in DOMAIN s.sources
  /\ \A c \in DOMAIN s.claims : \E l \in DOMAIN s.evidence : Link[l].claim = c

\* Whatever has changed from one store to another has a name in a set.
TableTells(n, old, new, names) ==
  \A id \in DOMAIN new : <<n, id>> \in names \/ (id \in DOMAIN old /\ new[id] = old[id])
Tells(s, r, names) == \A n \in Tables : TableTells(n, s[n], r[n], names)

LEMMA TellsTransitive ==
  ASSUME NEW s, NEW r, NEW q, NEW names, Tells(s, r, names), Tells(r, q, names)
  PROVE Tells(s, q, names)
BY DEF Tells, TableTells

LEMMA TellsMore ==
  ASSUME NEW s, NEW r, NEW names, NEW more, names \subseteq more, Tells(s, r, names)
  PROVE Tells(s, r, more)
BY DEF Tells, TableTells

LEMMA SameTells == ASSUME NEW n, NEW table, NEW names PROVE TableTells(n, table, table, names)
BY DEF TableTells

\* A row inserted, and a row changed.
LEMMA PutTells ==
  ASSUME NEW n, NEW table, NEW id, NEW row, NEW names, <<n, id>> \in names
  PROVE TableTells(n, table, Put(table, id, row), names)
BY DEF TableTells, Put

LEMMA ExceptTells ==
  ASSUME NEW n, NEW table, NEW id, NEW row, NEW names, <<n, id>> \in names
  PROVE TableTells(n, table, [table EXCEPT ![id] = row], names)
BY DEF TableTells

\* The claims, the evidence and the sources stay as they are.
LEMMA SourcedStays ==
  ASSUME NEW s, NEW r, Sourced(s), DOMAIN r.claims = DOMAIN s.claims, r.evidence = s.evidence,
         DOMAIN s.sources \subseteq DOMAIN r.sources
  PROVE Sourced(r)
BY DEF Sourced

\* An operation on one table tells what it does.
LEMMA OneTableTells ==
  ASSUME NEW t, IsTxn(t), NEW n \in Tables, NEW table, NEW e, NEW names,
         TableTells(n, t.store[n], table, names),
         NEW u, u = Emit(With(t, n, table), e)
  PROVE Tells(t.store, u.store, names)
<1>1. u.store[n] = table /\ \A m \in Tables \ {n} : u.store[m] = t.store[m]
  BY OneTable
<1>2. QED
  BY <1>1, SameTells DEF Tells

\* Whatever an operation on records does, to the one it names or creates.
RecordTells(t, u, n, names) ==
  Tells(t.store, u.store, names) /\ \A m \in Tables \ {n} : u.store[m] = t.store[m]

LEMMA RecordDecisionTells ==
  ASSUME NEW t, IsTxn(t), t.error = NONE, NEW op,
         NEW u, u = RecordDecision(t, op), u.error = NONE,
         NEW names, <<"decisions", op.decision>> \in names
  PROVE RecordTells(t, u, "decisions", names)
<1> DEFINE table == Put(t.store.decisions, op.decision, NewDecision(op.refs))
           e == [type |-> "DECISION_RECORDED", decision |-> op.decision, refs |-> op.refs]
<1>1. u = Emit(With(t, "decisions", table), e)
  BY DEF With, RecordDecision, Fail, IsTxn, NONE, INVALID
<1>2. "decisions" \in Tables
  BY DEF Tables
<1>3. TableTells("decisions", t.store["decisions"], table, names)
  BY PutTells
<1> HIDE DEF table, e
<1>4. Tells(t.store, u.store, names)
  BY <1>1, <1>2, <1>3, OneTableTells
<1>5. \A m \in Tables \ {"decisions"} : u.store[m] = t.store[m]
  BY <1>1, <1>2, OneTable
<1>6. QED
  BY <1>4, <1>5 DEF RecordTells

LEMMA SupersedeDecisionTells ==
  ASSUME NEW t, IsTxn(t), t.error = NONE, NEW op,
         NEW u, u = SupersedeDecision(t, op), u.error = NONE,
         NEW names, {<<"decisions", op.target>>, <<"decisions", op.decision>>} \subseteq names
  PROVE RecordTells(t, u, "decisions", names)
<1>a. PICK target : target = t.store.decisions[op.target]
  OBVIOUS
<1>b. PICK closed : closed = [target EXCEPT !.status = op.disposition, !.version = @ + 1,
                                            !.by = op.decision]
  OBVIOUS
<1>c. PICK put : put = Put(t.store.decisions, op.decision, NewDecision(op.refs))
  OBVIOUS
<1>d. PICK table : table = [put EXCEPT ![op.target] = closed]
  OBVIOUS
<1>e. PICK e : e = [type |-> "DECISION_SUPERSEDED", target |-> op.target,
                    disposition |-> op.disposition, decision |-> op.decision, refs |-> op.refs,
                    from |-> target.version, to |-> target.version + 1]
  OBVIOUS
<1>1. u = Emit(With(t, "decisions", table), e)
  <2>1. u = Emit([t EXCEPT !.store.decisions =
                    [Put(@, op.decision, NewDecision(op.refs)) EXCEPT ![op.target] = closed]], e)
    BY <1>a, <1>b, <1>e DEF SupersedeDecision, Fail, IsTxn, NONE, INVALID, CONFLICT
  <2>2. QED
    BY <2>1, <1>c, <1>d DEF With
<1>2. "decisions" \in Tables
  BY DEF Tables
<1>3. TableTells("decisions", t.store["decisions"], table, names)
  <2>1. TableTells("decisions", t.store["decisions"], put, names)
    BY <1>c, PutTells
  <2>2. TableTells("decisions", put, table, names)
    BY <1>d, ExceptTells
  <2>3. QED
    BY <2>1, <2>2 DEF TableTells
<1>4. Tells(t.store, u.store, names)
  BY <1>1, <1>2, <1>3, OneTableTells
<1>5. \A m \in Tables \ {"decisions"} : u.store[m] = t.store[m]
  BY <1>1, <1>2, OneTable
<1>6. QED
  BY <1>4, <1>5 DEF RecordTells

LEMMA OpenQuestionTells ==
  ASSUME NEW t, IsTxn(t), t.error = NONE, NEW op,
         NEW u, u = OpenQuestion(t, op), u.error = NONE,
         NEW names, <<"questions", op.question>> \in names
  PROVE RecordTells(t, u, "questions", names)
<1> DEFINE row == [status |-> "OPEN", version |-> 1, answer |-> {}, refs |-> op.refs]
           table == Put(t.store.questions, op.question, row)
           e == [type |-> "QUESTION_OPENED", question |-> op.question, refs |-> op.refs]
<1>1. u = Emit(With(t, "questions", table), e)
  BY DEF With, OpenQuestion, Fail, IsTxn, NONE, INVALID
<1>2. "questions" \in Tables
  BY DEF Tables
<1> HIDE DEF row
<1>3. TableTells("questions", t.store["questions"], table, names)
  BY PutTells
<1> HIDE DEF table, e
<1>4. Tells(t.store, u.store, names)
  BY <1>1, <1>2, <1>3, OneTableTells
<1>5. \A m \in Tables \ {"questions"} : u.store[m] = t.store[m]
  BY <1>1, <1>2, OneTable
<1>6. QED
  BY <1>4, <1>5 DEF RecordTells

LEMMA CloseQuestionTells ==
  ASSUME NEW t, IsTxn(t), t.error = NONE, NEW q, NEW status, NEW answer,
         NEW u, u = CloseQuestion(t, q, status, answer), u.error = NONE,
         NEW names, <<"questions", q>> \in names
  PROVE RecordTells(t, u, "questions", names)
<1>a. PICK target : target = t.store.questions[q]
  OBVIOUS
<1>b. PICK closed : closed = [target EXCEPT !.status = status, !.version = @ + 1, !.answer = answer]
  OBVIOUS
<1>c. PICK e : e = [type |-> IF status = "ANSWERED" THEN "QUESTION_ANSWERED" ELSE "QUESTION_DROPPED",
                    target |-> q, answer |-> answer,
                    from |-> target.version, to |-> target.version + 1]
  OBVIOUS
<1>d. PICK table : table = [t.store.questions EXCEPT ![q] = closed]
  OBVIOUS
<1>1. u = Emit(With(t, "questions", table), e)
  <2>1. u = Emit([t EXCEPT !.store.questions[q] = closed], e)
    BY <1>a, <1>b, <1>c DEF CloseQuestion, Fail, IsTxn, NONE, CONFLICT
  <2>2. [t EXCEPT !.store.questions[q] = closed] = With(t, "questions", table)
    BY <1>d DEF With
  <2>3. QED
    BY <2>1, <2>2
<1>2. "questions" \in Tables
  BY DEF Tables
<1>3. TableTells("questions", t.store["questions"], table, names)
  BY <1>d, ExceptTells
<1>4. Tells(t.store, u.store, names)
  BY <1>1, <1>2, <1>3, OneTableTells
<1>5. \A m \in Tables \ {"questions"} : u.store[m] = t.store[m]
  BY <1>1, <1>2, OneTable
<1>6. QED
  BY <1>4, <1>5 DEF RecordTells

LEMMA CreateWorkItemTells ==
  ASSUME NEW t, IsTxn(t), t.error = NONE, NEW op,
         NEW u, u = CreateWorkItem(t, op), u.error = NONE,
         NEW names, <<"work", op.item>> \in names
  PROVE RecordTells(t, u, "work", names)
<1> DEFINE row == [status |-> "TODO", version |-> 1, blocked |-> FALSE, refs |-> op.refs]
           table == Put(t.store.work, op.item, row)
           e == [type |-> "WORK_ITEM_CREATED", item |-> op.item, refs |-> op.refs]
<1>1. u = Emit(With(t, "work", table), e)
  BY DEF With, CreateWorkItem, Fail, IsTxn, NONE, INVALID
<1>2. "work" \in Tables
  BY DEF Tables
<1> HIDE DEF row
<1>3. TableTells("work", t.store["work"], table, names)
  BY PutTells
<1> HIDE DEF table, e
<1>4. Tells(t.store, u.store, names)
  BY <1>1, <1>2, <1>3, OneTableTells
<1>5. \A m \in Tables \ {"work"} : u.store[m] = t.store[m]
  BY <1>1, <1>2, OneTable
<1>6. QED
  BY <1>4, <1>5 DEF RecordTells

LEMMA UpdateWorkItemStatusTells ==
  ASSUME NEW t, IsTxn(t), t.error = NONE, NEW op,
         NEW u, u = UpdateWorkItemStatus(t, op), u.error = NONE,
         NEW names, <<"work", op.target>> \in names
  PROVE RecordTells(t, u, "work", names)
<1>a. PICK target : target = t.store.work[op.target]
  OBVIOUS
<1>b. PICK updated : updated = [target EXCEPT !.status = op.status, !.version = @ + 1,
                                              !.blocked = op.blocked]
  OBVIOUS
<1>c. PICK e : e = [type |-> "WORK_ITEM_STATUS_UPDATED", target |-> op.target,
                    was |-> target.status, status |-> op.status, blocked |-> op.blocked,
                    from |-> target.version, to |-> target.version + 1]
  OBVIOUS
<1>d. PICK table : table = [t.store.work EXCEPT ![op.target] = updated]
  OBVIOUS
<1>1. u = Emit(With(t, "work", table), e)
  <2>1. u = Emit([t EXCEPT !.store.work[op.target] = updated], e)
    BY <1>a, <1>b, <1>c DEF UpdateWorkItemStatus, Fail, IsTxn, NONE, CONFLICT, INVALID
  <2>2. [t EXCEPT !.store.work[op.target] = updated] = With(t, "work", table)
    BY <1>d DEF With
  <2>3. QED
    BY <2>1, <2>2
<1>2. "work" \in Tables
  BY DEF Tables
<1>3. TableTells("work", t.store["work"], table, names)
  BY <1>d, ExceptTells
<1>4. Tells(t.store, u.store, names)
  BY <1>1, <1>2, <1>3, OneTableTells
<1>5. \A m \in Tables \ {"work"} : u.store[m] = t.store[m]
  BY <1>1, <1>2, OneTable
<1>6. QED
  BY <1>4, <1>5 DEF RecordTells

LEMMA RegisterSourceTells ==
  ASSUME NEW t, IsTxn(t), t.error = NONE, NEW op,
         NEW u, u = RegisterSource(t, op), u.error = NONE,
         NEW names, <<"sources", op.source>> \in names
  PROVE RecordTells(t, u, "sources", names) /\ DOMAIN t.store.sources \subseteq DOMAIN u.store.sources
<1> DEFINE e == [type |-> "SOURCE_REVISION_REGISTERED", source |-> op.source, content |-> op.content]
           table == Put(t.store.sources, op.source, op.content)
<1>1. u = Emit(With(t, "sources", table), e)
  BY DEF With, RegisterSource, Fail, IsTxn, NONE, INVALID
<1>2. "sources" \in Tables
  BY DEF Tables
<1>3. TableTells("sources", t.store["sources"], table, names)
  BY PutTells
<1>4. DOMAIN t.store.sources \subseteq DOMAIN table
  BY DEF Put
<1> HIDE DEF table, e
<1>5. Tells(t.store, u.store, names)
  BY <1>1, <1>2, <1>3, OneTableTells
<1>6. u.store["sources"] = table /\ \A m \in Tables \ {"sources"} : u.store[m] = t.store[m]
  BY <1>1, <1>2, OneTable
<1>7. QED
  BY <1>4, <1>5, <1>6 DEF RecordTells

\* The conflicts the events name: later events take no name back.
LEMMA EventsName ==
  ASSUME NEW E, NEW F, Extends(E, F) PROVE NamedInEvents(E) \subseteq NamedInEvents(F)
BY DEF Extends, NamedInEvents

LEMMA LinksName ==
  ASSUME NEW links, NEW l \in links
  PROVE {<<"evidence", l>>, <<"claims", Link[l].claim>>} \subseteq Evidence(links)
<1> DEFINE one(k) == {<<"evidence", k>>, <<"claims", Link[k].claim>>, <<"sources", Link[k].source>>}
<1>1. Evidence(links) = UNION {one(k) : k \in links}
  BY DEF Evidence
<1>2. one(l) \subseteq UNION {one(k) : k \in links}
  <2> HIDE DEF one
  <2> QED OBVIOUS
<1>3. QED
  BY <1>1, <1>2

\* A conflict that opens is named by its event, and nothing else changes.
LEMMA OpenConflictTells ==
  ASSUME NEW w, IsTxn(w), NEW claim, NEW others, NEW sort, NEW seq,
         NEW x, x = OpenConflict(w, claim, others, sort, seq)
  PROVE /\ IsTxn(x) /\ Extends(w.events, x.events)
        /\ TableTells("conflicts", w.store.conflicts, x.store.conflicts, NamedInEvents(x.events))
        /\ \A m \in Tables \ {"conflicts"} : x.store[m] = w.store[m]
<1>1. CASE others = {}
  <2>1. x = w
    BY <1>1 DEF OpenConflict
  <2>2. QED
    BY <2>1, SameTells DEF Extends
<1>2. CASE others # {}
  <2>a. PICK key : key = OpenedRow(w.store, claim, others \cup {claim}, sort, seq)[1]
    OBVIOUS
  <2>b. PICK val : val = OpenedRow(w.store, claim, others \cup {claim}, sort, seq)[2]
    OBVIOUS
  <2>1. Filed(w, x, key, val)
    BY <1>2, <2>a, <2>b, OpenConflictIs
  <2>c. PICK e : e = [type |-> "CONFLICT_OPENED", id |-> key, conflict |-> Document(val)]
    OBVIOUS
  <2>2. /\ IsTxn(x) /\ Extends(w.events, x.events) /\ x.events = Append(w.events, e)
        /\ x.store.conflicts = Put(w.store.conflicts, key, val)
        /\ \A m \in Tables \ {"conflicts"} : x.store[m] = w.store[m]
    BY <2>1, <2>c DEF Filed
  <2>3. <<"conflicts", key>> \in NamedInEvents(x.events)
    <3>1. IsList(w.events)
      BY DEF IsTxn
    <3>d. PICK last : last = Len(w.events) + 1
      OBVIOUS
    <3>2. Len(w.events) \in Nat /\ IsList(x.events) /\ Len(x.events) = last /\ x.events[last] = e
      BY <2>2, <3>1, <3>d, AppendToList DEF IsList
    <3>3. last \in DOMAIN x.events
      BY <3>2, <3>d DEF IsList
    <3>4. e.type = "CONFLICT_OPENED" /\ e.id = key
      BY <2>c
    <3>5. <<"conflicts", x.events[last].id>> \in NamedInEvents(x.events)
      BY <3>2, <3>3, <3>4 DEF NamedInEvents
    <3>6. QED
      BY <3>2, <3>4, <3>5
  <2>4. TableTells("conflicts", w.store.conflicts, x.store.conflicts, NamedInEvents(x.events))
    BY <2>2, <2>3, PutTells
  <2>5. QED
    BY <2>2, <2>4
<1>3. QED
  BY <1>1, <1>2

\* The evidence is that of the links, before and after.
LEMMA InsertEvidenceTells ==
  ASSUME NEW s, Shaped(s), Sourced(s), NEW links, NEW r, r = InsertEvidence(s, links),
         NEW names, Evidence(links) \subseteq names
  PROVE /\ TableTells("evidence", s.evidence, r.evidence, names)
        /\ DOMAIN r.evidence = DOMAIN s.evidence \cup links
        /\ \A l \in DOMAIN r.evidence : r.evidence[l] = [claim |-> Link[l].claim, source |-> Link[l].source]
<1>a. PICK table : table = [l \in DOMAIN s.evidence \cup links |->
                              [claim |-> Link[l].claim, source |-> Link[l].source]]
  OBVIOUS
<1>1. r = [s EXCEPT !["evidence"] = table]
  BY <1>a DEF InsertEvidence
<1>2. r.evidence = table
  BY <1>1 DEF Shaped, Tables
<1>3. \A l \in DOMAIN s.evidence : table[l] = s.evidence[l]
  BY <1>a DEF Sourced
<1>4. \A l \in links : <<"evidence", l>> \in names
  BY LinksName
<1>5. DOMAIN table = DOMAIN s.evidence \cup links
  BY <1>a
<1>6. TableTells("evidence", s.evidence, table, names)
  BY <1>3, <1>4, <1>5 DEF TableTells
<1>7. QED
  BY <1>2, <1>5, <1>6, <1>a

\* A claim that comes in has evidence, whose source is there.
LEMMA InsertClaimTells ==
  ASSUME NEW t, IsTxn(t), Rows(t.store), Sourced(t.store), t.error = NONE,
         NEW claim, NEW links, NEW v, v = InsertClaim(t, claim, links), v.error = NONE,
         NEW names, Evidence(links) \cup {<<"claims", claim>>} \subseteq names
  PROVE Tells(t.store, v.store, names) /\ Sourced(v.store)
<1>a. PICK s : s = t.store
  OBVIOUS
<1>b. PICK table : table = Put(s.claims, claim, NewClaim)
  OBVIOUS
<1>c. PICK s1 : s1 = [s EXCEPT !["claims"] = table]
  OBVIOUS
<1>d. PICK r : r = InsertEvidence(s1, links)
  OBVIOUS
<1>1. /\ v = [t EXCEPT !.store = r]
      /\ ~(Cardinality(links) < MinEvidence)
      /\ \A l \in links : EvidenceFits(s, l, claim)
  <2>1. /\ v = [t EXCEPT !.store =
                   InsertEvidence([t.store EXCEPT !.claims = Put(t.store.claims, claim, NewClaim)], links)]
        /\ ~(Cardinality(links) < MinEvidence)
        /\ \A l \in links : EvidenceFits(t.store, l, claim)
    BY DEF InsertClaim, Fail, IsTxn, NONE, INVALID, NewClaim
  <2>2. QED
    BY <2>1, <1>a, <1>b, <1>c, <1>d
<1>2. v.store = r /\ Shaped(s)
  BY <1>1, <1>a DEF IsTxn
<1>3. {"claims", "evidence", "sources"} \subseteq Tables
  BY DEF Tables
<1>4. Shaped(s1) /\ s1["claims"] = table /\ \A m \in Tables \ {"claims"} : s1[m] = s[m]
  <2>1. Shaped(s)
    BY <1>2
  <2>2. QED
    BY <2>1, <1>c DEF Shaped, Tables
<1>5. s1.evidence = s.evidence /\ s1.sources = s.sources
  BY <1>3, <1>4
<1>6. IsFiniteSet(DOMAIN table) /\ DOMAIN table = DOMAIN s.claims \cup {claim}
  <2>1. IsFiniteSet(DOMAIN s.claims)
    BY <1>a DEF Sourced
  <2>2. DOMAIN table = DOMAIN s.claims \cup {claim}
    BY <1>b DEF Put
  <2>3. QED
    BY <2>1, <2>2, FS_AddElement
<1>7. \A l \in DOMAIN s.evidence :
        /\ s.evidence[l] = [claim |-> Link[l].claim, source |-> Link[l].source]
        /\ Link[l].source \in DOMAIN s.sources
  BY <1>a DEF Sourced
<1>8. /\ TableTells("evidence", s.evidence, r.evidence, names)
      /\ DOMAIN r.evidence = DOMAIN s.evidence \cup links
      /\ \A l \in DOMAIN r.evidence : r.evidence[l] = [claim |-> Link[l].claim, source |-> Link[l].source]
  <2>a. PICK all : all = [l \in DOMAIN s1.evidence \cup links |->
                            [claim |-> Link[l].claim, source |-> Link[l].source]]
    OBVIOUS
  <2>1. r = [s1 EXCEPT !["evidence"] = all]
    BY <1>d, <2>a DEF InsertEvidence
  <2>2. r.evidence = all
    BY <1>3, <1>4, <2>1 DEF Shaped
  <2>3. DOMAIN all = DOMAIN s.evidence \cup links /\ \A l \in DOMAIN s.evidence : all[l] = s.evidence[l]
    BY <1>5, <1>7, <2>a
  <2>4. \A l \in links : <<"evidence", l>> \in names
    BY LinksName
  <2>5. TableTells("evidence", s.evidence, all, names)
    BY <2>3, <2>4 DEF TableTells
  <2>6. QED
    BY <2>2, <2>3, <2>5, <2>a
<1>9. \A m \in Tables \ {"evidence"} : r[m] = s1[m]
  BY <1>4, <1>d, InsertEvidenceDoes
<1>10. r.claims = table /\ r.sources = s.sources
  BY <1>3, <1>4, <1>5, <1>9
<1>11. Tells(s, r, names)
  <2>1. TableTells("claims", s["claims"], r["claims"], names)
    BY <1>10, <1>b, PutTells
  <2>2. ASSUME NEW m \in Tables PROVE TableTells(m, s[m], r[m], names)
    <3>1. CASE m \notin {"claims", "evidence"}
      <4>1. r[m] = s[m]
        BY <1>4, <1>9, <3>1
      <4>2. QED
        BY <4>1, SameTells
    <3>2. CASE m = "claims"
      BY <2>1, <3>2
    <3>3. CASE m = "evidence"
      BY <1>8, <3>3
    <3>4. QED
      BY <3>1, <3>2, <3>3
  <2>3. QED
    BY <2>2 DEF Tells
<1>12. links # {}
  <2>1. Cardinality({}) = 0
    BY FS_EmptySet
  <2>2. QED
    BY <1>1, <2>1, EvidenceAssumption
<1>13. \A l \in links : Link[l].claim = claim /\ Link[l].source \in DOMAIN s.sources
  BY <1>1 DEF EvidenceFits
<1>14. Sourced(r)
  <2>1. \A c \in DOMAIN s.claims : \E l \in DOMAIN s.evidence : Link[l].claim = c
    BY <1>a DEF Sourced
  <2>2. \A c \in DOMAIN r.claims : \E l \in DOMAIN r.evidence : Link[l].claim = c
    BY <1>6, <1>8, <1>10, <1>12, <1>13, <2>1
  <2>3. \A l \in DOMAIN r.evidence : Link[l].source \in DOMAIN r.sources
    BY <1>7, <1>8, <1>10, <1>13
  <2>4. QED
    BY <1>6, <1>8, <1>10, <2>2, <2>3 DEF Sourced
<1>15. QED
  BY <1>2, <1>11, <1>14, <1>a

\* A transaction's store changes where some names say, and its claims keep their evidence.
ToldBy(t, u, names) == IsTxn(u) /\ Tells(t.store, u.store, names) /\ Sourced(u.store)
NamedByAssert(claim, links, u) == Evidence(links) \cup {<<"claims", claim>>} \cup NamedInEvents(u.events)

LEMMA AssertClaimTells ==
  ASSUME NEW t, IsTxn(t), Rows(t.store), Sourced(t.store), t.error = NONE,
         NEW claim, NEW links, NEW ignored, NEW seq,
         NEW u, u = AssertClaim(t, claim, links, ignored, seq), u.error = NONE,
         NEW names, NamedByAssert(claim, links, u) \subseteq names
  PROVE ToldBy(t, u, names)
<1>a. PICK v : v = InsertClaim(t, claim, links)
  OBVIOUS
<1>b. PICK e : e = [type |-> "CLAIM_ASSERTED", claim |-> claim, evidence |-> links]
  OBVIOUS
<1>c. PICK w : w = Emit(v, e)
  OBVIOUS
<1>d. PICK X : X = Against(w.store, claim, ignored, "EXCLUSIVE_VALUE_CONFLICT")
  OBVIOUS
<1>e. PICK P : P = Against(w.store, claim, ignored, "POLARITY_CONFLICT")
  OBVIOUS
<1>f. PICK x : x = OpenConflict(w, claim, X, "EXCLUSIVE_VALUE_CONFLICT", seq)
  OBVIOUS
<1>1. v.error = NONE
  BY <1>a DEF AssertClaim
<1>2. u = OpenConflict(x, claim, P, "POLARITY_CONFLICT", seq)
  <2>1. u = OpenConflicts(w, claim, ignored, seq)
    BY <1>a, <1>b, <1>c, <1>1 DEF AssertClaim
  <2>2. QED
    BY <2>1, <1>d, <1>e, <1>f DEF OpenConflicts
<1>3. Inserts(t, v, claim)
  BY <1>a, <1>1, InsertClaimDoes
<1>4. IsTxn(v) /\ Shaped(v.store)
  BY <1>3 DEF Inserts, IsTxn
<1>5. IsTxn(w) /\ w.store = v.store
  <2>1. w = Emit([store |-> v.store, events |-> v.events, opened |-> v.opened, error |-> v.error], e)
    BY <1>c, <1>4 DEF IsTxn
  <2>2. IsTxn(w) /\ Moved(v, w, v.store, e)
    BY <1>4, <2>1, EmitIs
  <2>3. QED
    BY <2>2 DEF Moved
<1>n. Evidence(links) \cup {<<"claims", claim>>} \cup NamedInEvents(u.events) \subseteq names
  BY DEF NamedByAssert
<1>6. Tells(t.store, w.store, names) /\ Sourced(w.store)
  BY <1>a, <1>n, <1>1, <1>5, InsertClaimTells
<1>7. /\ IsTxn(x)
      /\ TableTells("conflicts", w.store.conflicts, x.store.conflicts, NamedInEvents(x.events))
      /\ \A m \in Tables \ {"conflicts"} : x.store[m] = w.store[m]
  BY <1>5, <1>f, OpenConflictTells
<1>8. /\ IsTxn(u) /\ Extends(x.events, u.events)
      /\ TableTells("conflicts", x.store.conflicts, u.store.conflicts, NamedInEvents(u.events))
      /\ \A m \in Tables \ {"conflicts"} : u.store[m] = x.store[m]
  BY <1>2, <1>7, OpenConflictTells
<1>9. NamedInEvents(x.events) \subseteq NamedInEvents(u.events)
  BY <1>8, EventsName
<1>10. Tells(w.store, u.store, names)
  <2>1. TableTells("conflicts", w.store["conflicts"], u.store["conflicts"], names)
    BY <1>7, <1>8, <1>9, <1>n DEF TableTells
  <2>2. \A m \in Tables \ {"conflicts"} : u.store[m] = w.store[m]
    BY <1>7, <1>8
  <2>3. QED
    BY <2>1, <2>2, SameTells DEF Tells
<1>11. Tells(t.store, u.store, names)
  BY <1>6, <1>10, TellsTransitive
<1>12. u.store.claims = w.store.claims /\ u.store.evidence = w.store.evidence
       /\ u.store.sources = w.store.sources
  BY <1>7, <1>8 DEF Tables
<1>13. Sourced(u.store)
  BY <1>6, <1>12, SourcedStays
<1>14. QED
  BY <1>8, <1>11, <1>13 DEF ToldBy

\* A row of the claims or of the conflicts changes in place.
LEMMA RowChangeTells ==
  ASSUME NEW t, IsTxn(t), Sourced(t.store), NEW n \in {"claims", "conflicts"}, NEW id, NEW row, NEW e,
         NEW u, u = Emit(With(t, n, [t.store[n] EXCEPT ![id] = row]), e),
         NEW names, <<n, id>> \in names
  PROVE Tells(t.store, u.store, names) /\ Sourced(u.store)
<1>a. PICK table : table = [t.store[n] EXCEPT ![id] = row]
  OBVIOUS
<1>1. n \in Tables /\ "claims" \in Tables /\ "evidence" \in Tables \ {n} /\ "sources" \in Tables \ {n}
  BY DEF Tables
<1>2. u = Emit(With(t, n, table), e)
  BY <1>a
<1>3. TableTells(n, t.store[n], table, names)
  BY <1>a, ExceptTells
<1>4. Tells(t.store, u.store, names)
  BY <1>1, <1>2, <1>3, OneTableTells
<1>5. u.store[n] = table /\ \A m \in Tables \ {n} : u.store[m] = t.store[m]
  BY <1>1, <1>2, OneTable
<1>6. u.store.evidence = t.store.evidence /\ u.store.sources = t.store.sources
  BY <1>1, <1>5
<1>7. DOMAIN u.store.claims = DOMAIN t.store.claims
  <2>1. CASE n = "claims"
    BY <1>5, <1>a, <2>1
  <2>2. CASE n # "claims"
    BY <1>1, <1>5, <2>2
  <2>3. QED
    BY <2>1, <2>2
<1>8. Sourced(u.store)
  BY <1>6, <1>7, SourcedStays
<1>9. QED
  BY <1>4, <1>8

LEMMA CloseTells ==
  ASSUME NEW t, IsTxn(t), Sourced(t.store), NEW target, NEW state, NEW by, NEW e,
         NEW u, u = Emit([t EXCEPT !.store = Close(t.store, target, state, by)], e),
         NEW names, <<"claims", target>> \in names
  PROVE Tells(t.store, u.store, names) /\ Sourced(u.store)
<1>a. PICK row : row = [status |-> state, version |-> t.store.claims[target].version + 1, by |-> by]
  OBVIOUS
<1>1. u = Emit(With(t, "claims", [t.store["claims"] EXCEPT ![target] = row]), e)
  BY <1>a DEF With, Close
<1>2. QED
  BY <1>1, RowChangeTells

LEMMA RetractClaimTells ==
  ASSUME NEW t, IsTxn(t), Sourced(t.store), t.error = NONE, NEW op, NEW who,
         NEW u, u = RetractClaim(t, op, who), u.error = NONE,
         NEW names, <<"claims", op.target>> \in names
  PROVE Tells(t.store, u.store, names) /\ Sourced(u.store)
<1>a. PICK target : target = op.target
  OBVIOUS
<1>b. PICK e : e = [type |-> "CLAIM_RETRACTED", target |-> op.target]
  OBVIOUS
<1>1. u = Emit([t EXCEPT !.store = Close(t.store, target, "RETRACTED", NONE)], e)
  BY <1>a, <1>b DEF RetractClaim, Fail, IsTxn, NONE, CONFLICT, INVALID
<1>2. QED
  BY <1>1, <1>a, CloseTells

LEMMA ResolveConflictTells ==
  ASSUME NEW t, IsTxn(t), Sourced(t.store), t.error = NONE, NEW op, NEW who,
         NEW u, u = ResolveConflict(t, op, who), u.error = NONE,
         NEW names, <<"conflicts", op.conflict>> \in names
  PROVE Tells(t.store, u.store, names) /\ Sourced(u.store)
<1>b. PICK k : k = op.conflict
  OBVIOUS
<1>c. PICK decision : decision = {[selected |-> op.selected, rejected |-> op.rejected]}
  OBVIOUS
<1>d. PICK row : row = [t.store.conflicts[k] EXCEPT !.status = "RESOLVED", !.version = @ + 1,
                                                    !.resolution = decision]
  OBVIOUS
<1>e. PICK e : e = [type |-> "CONFLICT_RESOLVED", id |-> k, resolution |-> decision]
  OBVIOUS
<1>1. u = Emit(With(t, "conflicts", [t.store["conflicts"] EXCEPT ![k] = row]), e)
  <2>1. u = Emit([t EXCEPT !.store.conflicts[k] = row], e)
    BY <1>b, <1>c, <1>d, <1>e DEF ResolveConflict, Fail, IsTxn, NONE, CONFLICT, INVALID
  <2>2. [t EXCEPT !.store.conflicts[k] = row]
          = With(t, "conflicts", [t.store["conflicts"] EXCEPT ![k] = row])
    BY DEF With
  <2>3. QED
    BY <2>1, <2>2
<1>2. QED
  BY <1>1, <1>b, RowChangeTells

LEMMA AttachEvidenceTells ==
  ASSUME NEW t, IsTxn(t), Sourced(t.store), t.error = NONE, NEW op,
         NEW u, u = AttachEvidence(t, op), u.error = NONE,
         NEW names, Evidence({op.link}) \subseteq names
  PROVE Tells(t.store, u.store, names) /\ Sourced(u.store)
<1>a. PICK claim : claim = Link[op.link].claim
  OBVIOUS
<1>s. PICK s : s = t.store
  OBVIOUS
<1>b. PICK old : old = s.claims
  OBVIOUS
<1>c. PICK row : row = [old[claim] EXCEPT !.version = @ + 1]
  OBVIOUS
<1>d. PICK table : table = [old EXCEPT ![claim] = row]
  OBVIOUS
<1>e. PICK s1 : s1 = [s EXCEPT !["claims"] = table]
  OBVIOUS
<1>f. PICK s2 : s2 = InsertEvidence(s1, {op.link})
  OBVIOUS
<1>g. PICK e : e = [type |-> "EVIDENCE_ATTACHED", link |-> op.link]
  OBVIOUS
<1>1. EvidenceFits(s, op.link, claim)
  BY <1>a, <1>s DEF AttachEvidence, Fail, IsTxn, NONE, CONFLICT, INVALID, IsActive, Active
<1>2. u = Emit([t EXCEPT !.store = s2], e)
  <2>1. [t.store EXCEPT !.claims[claim] = row] = s1
    BY <1>b, <1>d, <1>e, <1>s
  <2>2. u = Emit([t EXCEPT !.store = InsertEvidence([t.store EXCEPT !.claims[claim] = row], {op.link})], e)
    BY <1>a, <1>b, <1>c, <1>g, <1>s DEF AttachEvidence, Fail, IsTxn, NONE, CONFLICT, INVALID
  <2>3. QED
    BY <2>1, <2>2, <1>f
<1>3. u.store = s2
  BY <1>2 DEF Emit, IsTxn
<1>4. {"claims", "evidence", "sources"} \subseteq Tables
  BY DEF Tables
<1>5. Shaped(s1) /\ s1["claims"] = table /\ \A m \in Tables \ {"claims"} : s1[m] = s[m]
  <2>1. Shaped(s)
    BY <1>s DEF IsTxn
  <2>2. QED
    BY <2>1, <1>e DEF Shaped, Tables
<1>6. s1.evidence = s.evidence /\ s1.sources = s.sources
  BY <1>4, <1>5
<1>h. PICK all : all = [l \in DOMAIN s1.evidence \cup {op.link} |->
                          [claim |-> Link[l].claim, source |-> Link[l].source]]
  OBVIOUS
<1>7. s2 = [s1 EXCEPT !["evidence"] = all]
  BY <1>f, <1>h DEF InsertEvidence
<1>8. s2["evidence"] = all /\ \A m \in Tables \ {"evidence"} : s2[m] = s1[m]
  BY <1>4, <1>5, <1>7 DEF Shaped
<1>9. s2.claims = table /\ s2.sources = s.sources /\ s2.evidence = all
  BY <1>4, <1>5, <1>6, <1>8
<1>10. {<<"evidence", op.link>>, <<"claims", claim>>} \subseteq names
  BY <1>a, LinksName
<1>11. \A l \in DOMAIN s.evidence :
        /\ s.evidence[l] = [claim |-> Link[l].claim, source |-> Link[l].source]
        /\ Link[l].source \in DOMAIN s.sources
  BY <1>s DEF Sourced
<1>12. /\ DOMAIN all = DOMAIN s.evidence \cup {op.link}
       /\ \A l \in DOMAIN s.evidence : all[l] = s.evidence[l]
  BY <1>6, <1>11, <1>h
<1>13. TableTells("evidence", s["evidence"], all, names)
  BY <1>10, <1>12 DEF TableTells
<1>14. TableTells("claims", s["claims"], table, names)
  BY <1>10, <1>b, <1>d, ExceptTells
<1>15. Tells(s, s2, names)
  <2>1. ASSUME NEW m \in Tables PROVE TableTells(m, s[m], s2[m], names)
    <3>1. CASE m \notin {"claims", "evidence"}
      <4>1. s2[m] = s[m]
        BY <1>5, <1>8, <3>1
      <4>2. QED
        BY <4>1, SameTells
    <3>2. CASE m = "claims"
      BY <1>9, <1>14, <3>2
    <3>3. CASE m = "evidence"
      BY <1>8, <1>13, <3>3
    <3>4. QED
      BY <3>1, <3>2, <3>3
  <2>2. QED
    BY <2>1 DEF Tells
<1>16. Sourced(s2)
  <2>1. DOMAIN s2.claims = DOMAIN s.claims
    BY <1>9, <1>b, <1>d
  <2>2. IsFiniteSet(DOMAIN s.claims) /\ \A c \in DOMAIN s.claims : \E l \in DOMAIN s.evidence : Link[l].claim = c
    BY <1>s DEF Sourced
  <2>3. \A c \in DOMAIN s2.claims : \E l \in DOMAIN s2.evidence : Link[l].claim = c
    BY <1>9, <1>12, <2>1, <2>2
  <2>4. \A l \in DOMAIN s2.evidence : Link[l].source \in DOMAIN s2.sources
    BY <1>1, <1>9, <1>11, <1>12 DEF EvidenceFits
  <2>5. \A l \in DOMAIN s2.evidence : s2.evidence[l] = [claim |-> Link[l].claim, source |-> Link[l].source]
    BY <1>6, <1>9, <1>h
  <2>6. QED
    BY <2>1, <2>2, <2>3, <2>4, <2>5 DEF Sourced
<1>17. QED
  BY <1>3, <1>15, <1>16, <1>s

LEMMA SupersedeClaimTells ==
  ASSUME NEW t, IsTxn(t), Rows(t.store), Sourced(t.store), t.error = NONE, NEW op, NEW seq,
         NEW u, u = SupersedeClaim(t, op, seq), u.error = NONE,
         NEW names, {<<"claims", op.target>>, <<"claims", op.claim>>} \cup Evidence(op.links)
                      \cup NamedInEvents(u.events) \subseteq names
  PROVE Tells(t.store, u.store, names) /\ Sourced(u.store)
<1>a. PICK v : v = AssertClaim(t, op.claim, op.links, {op.target}, seq)
  OBVIOUS
<1>b. PICK target : target = op.target
  OBVIOUS
<1>c. PICK claim : claim = op.claim
  OBVIOUS
<1>d. PICK e : e = [type |-> "CLAIM_SUPERSEDED", target |-> op.target, by |-> op.claim]
  OBVIOUS
<1>1. IsActive(t.store, op.target)
  BY DEF SupersedeClaim, Fail, IsTxn, NONE, CONFLICT
<1>2. v.error = NONE
  BY <1>a, <1>1 DEF SupersedeClaim
<1>3. u = Emit([v EXCEPT !.store = Close(v.store, target, "SUPERSEDED", claim)], e)
  BY <1>a, <1>b, <1>c, <1>d, <1>1, <1>2 DEF SupersedeClaim
<1>f. PICK named : named = NamedByAssert(claim, op.links, v)
  OBVIOUS
<1>g. ToldBy(t, v, named)
  <2>1. NamedByAssert(claim, op.links, v) \subseteq named
    BY <1>f
  <2>2. v = AssertClaim(t, claim, op.links, {op.target}, seq)
    BY <1>a, <1>c
  <2>3. QED
    BY <1>2, <2>1, <2>2, AssertClaimTells
<1>4. IsTxn(v)
  BY <1>g DEF ToldBy
<1>5. NamedInEvents(v.events) \subseteq names
  <2>1. Extends(v.events, u.events)
    <3>1. Shaped(Close(v.store, target, "SUPERSEDED", claim))
      BY <1>4 DEF IsTxn, Shaped, Close
    <3>2. u = Emit([store |-> Close(v.store, target, "SUPERSEDED", claim), events |-> v.events,
                    opened |-> v.opened, error |-> v.error], e)
      BY <1>3, <1>4 DEF IsTxn
    <3>3. QED
      BY <1>4, <3>1, <3>2, EmitIs
  <2>2. NamedInEvents(v.events) \subseteq NamedInEvents(u.events)
    BY <2>1, EventsName
  <2>3. QED
    BY <2>2
<1>6. Tells(t.store, v.store, names) /\ Sourced(v.store)
  <2>1. named \subseteq names
    BY <1>5, <1>c, <1>f DEF NamedByAssert
  <2>2. Tells(t.store, v.store, named) /\ Sourced(v.store)
    BY <1>g DEF ToldBy
  <2>3. QED
    BY <2>1, <2>2 DEF Tells, TableTells
<1>7. Tells(v.store, u.store, names) /\ Sourced(u.store)
  BY <1>3, <1>4, <1>6, <1>b, CloseTells
<1>8. QED
  BY <1>6, <1>7, TellsTransitive

\* The claims and their evidence stay as they are when records change.
LEMMA RecordsStaySourced ==
  ASSUME NEW t, NEW u, NEW n \in {"decisions", "questions", "work"}, NEW names,
         Sourced(t.store), RecordTells(t, u, n, names)
  PROVE Tells(t.store, u.store, names) /\ Sourced(u.store)
<1>1. \A m \in Tables \ {n} : u.store[m] = t.store[m]
  BY DEF RecordTells
<1>2. u.store.claims = t.store.claims /\ u.store.evidence = t.store.evidence
      /\ u.store.sources = t.store.sources
  BY <1>1 DEF Tables
<1>3. Sourced(u.store)
  BY <1>2, SourcedStays
<1>4. QED
  BY <1>3 DEF RecordTells

\* Whatever an operation changes, it names, or the events that it emits.
LEMMA OperationTells ==
  ASSUME NEW t, IsTxn(t), Rows(t.store), Sourced(t.store),
         NEW op, op.op \in OperationKinds, NEW who, NEW seq,
         NEW u, u = ApplyOperation(t, op, who, seq), u.error = NONE,
         NEW names, NamedInOperation(op) \cup NamedInEvents(u.events) \subseteq names
  PROVE Tells(t.store, u.store, names) /\ Sourced(u.store)
<1>1. t.error = NONE
  BY DEF ApplyOperation
<1>2. CASE op.op = "REGISTER_SOURCE_REVISION"
  <2>1. u = RegisterSource(t, op) /\ NamedInOperation(op) = {<<"sources", op.source>>}
    BY <1>1, <1>2 DEF ApplyOperation, NamedInOperation
  <2>2. RecordTells(t, u, "sources", names) /\ DOMAIN t.store.sources \subseteq DOMAIN u.store.sources
    BY <1>1, <2>1, RegisterSourceTells
  <2>3. \A m \in Tables \ {"sources"} : u.store[m] = t.store[m]
    BY <2>2 DEF RecordTells
  <2>4. u.store.claims = t.store.claims /\ u.store.evidence = t.store.evidence
    BY <2>3 DEF Tables
  <2>5. Sourced(u.store)
    BY <2>2, <2>4, SourcedStays
  <2>6. QED
    BY <2>2, <2>5 DEF RecordTells
<1>3. CASE op.op = "ASSERT_CLAIM"
  <2>1. /\ u = AssertClaim(t, op.claim, op.links, {}, seq)
        /\ NamedInOperation(op) = {<<"claims", op.claim>>} \cup Evidence(op.links)
    BY <1>1, <1>3 DEF ApplyOperation, NamedInOperation
  <2>2. NamedByAssert(op.claim, op.links, u) \subseteq names
    BY <2>1 DEF NamedByAssert
  <2>3. ToldBy(t, u, names)
    BY <1>1, <2>1, <2>2, AssertClaimTells
  <2>4. QED
    BY <2>3 DEF ToldBy
<1>4. CASE op.op = "ATTACH_EVIDENCE"
  <2>1. u = AttachEvidence(t, op) /\ NamedInOperation(op) = Evidence({op.link})
    BY <1>1, <1>4 DEF ApplyOperation, NamedInOperation
  <2>2. Evidence({op.link}) \subseteq names
    BY <2>1
  <2>3. QED
    BY <1>1, <2>1, <2>2, AttachEvidenceTells
<1>5. CASE op.op = "SUPERSEDE_CLAIM"
  <2>1. /\ u = SupersedeClaim(t, op, seq)
        /\ NamedInOperation(op)
             = {<<"claims", op.target>>, <<"claims", op.claim>>} \cup Evidence(op.links)
    BY <1>1, <1>5 DEF ApplyOperation, NamedInOperation
  <2>2. {<<"claims", op.target>>, <<"claims", op.claim>>} \cup Evidence(op.links)
          \cup NamedInEvents(u.events) \subseteq names
    BY <2>1
  <2>3. QED
    BY <1>1, <2>1, <2>2, SupersedeClaimTells
<1>6. CASE op.op = "RETRACT_CLAIM"
  <2>1. u = RetractClaim(t, op, who) /\ NamedInOperation(op) = {<<"claims", op.target>>}
    BY <1>1, <1>6 DEF ApplyOperation, NamedInOperation
  <2>2. QED
    BY <1>1, <2>1, RetractClaimTells
<1>7. CASE op.op = "RESOLVE_CONFLICT"
  <2>1. u = ResolveConflict(t, op, who) /\ NamedInOperation(op) = {<<"conflicts", op.conflict>>}
    BY <1>1, <1>7 DEF ApplyOperation, NamedInOperation
  <2>2. QED
    BY <1>1, <2>1, ResolveConflictTells
<1>8. CASE op.op = "RECORD_DECISION"
  <2>1. u = RecordDecision(t, op) /\ NamedInOperation(op) = {<<"decisions", op.decision>>}
    BY <1>1, <1>8 DEF ApplyOperation, NamedInOperation
  <2>2. RecordTells(t, u, "decisions", names)
    BY <1>1, <2>1, RecordDecisionTells
  <2>3. QED
    BY <2>2, RecordsStaySourced
<1>9. CASE op.op = "SUPERSEDE_DECISION"
  <2>1. /\ u = SupersedeDecision(t, op)
        /\ NamedInOperation(op) = {<<"decisions", op.target>>, <<"decisions", op.decision>>}
    BY <1>1, <1>9 DEF ApplyOperation, NamedInOperation
  <2>2. RecordTells(t, u, "decisions", names)
    BY <1>1, <2>1, SupersedeDecisionTells
  <2>3. QED
    BY <2>2, RecordsStaySourced
<1>10. CASE op.op = "OPEN_QUESTION"
  <2>1. u = OpenQuestion(t, op) /\ NamedInOperation(op) = {<<"questions", op.question>>} \cup op.refs
    BY <1>1, <1>10 DEF ApplyOperation, NamedInOperation
  <2>2. RecordTells(t, u, "questions", names)
    BY <1>1, <2>1, OpenQuestionTells
  <2>3. QED
    BY <2>2, RecordsStaySourced
<1>11. CASE op.op \in {"ANSWER_QUESTION", "DROP_QUESTION"}
  <2>1. /\ \E status, answer : u = CloseQuestion(t, op.target, status, answer)
        /\ <<"questions", op.target>> \in NamedInOperation(op)
    BY <1>1, <1>11 DEF ApplyOperation, AnswerQuestion, DropQuestion, NamedInOperation
  <2>2. RecordTells(t, u, "questions", names)
    <3>a. PICK q : q = op.target
      OBVIOUS
    <3>1. <<"questions", q>> \in names
      BY <2>1, <3>a
    <3>2. PICK status, answer : u = CloseQuestion(t, q, status, answer)
      BY <2>1, <3>a
    <3>3. QED
      BY <1>1, <3>1, <3>2, CloseQuestionTells
  <2>3. QED
    BY <2>2, RecordsStaySourced
<1>12. CASE op.op = "CREATE_WORK_ITEM"
  <2>1. u = CreateWorkItem(t, op) /\ NamedInOperation(op) = {<<"work", op.item>>} \cup op.refs
    BY <1>1, <1>12 DEF ApplyOperation, NamedInOperation
  <2>2. RecordTells(t, u, "work", names)
    BY <1>1, <2>1, CreateWorkItemTells
  <2>3. QED
    BY <2>2, RecordsStaySourced
<1>13. CASE op.op = "UPDATE_WORK_ITEM_STATUS"
  <2>1. u = UpdateWorkItemStatus(t, op) /\ NamedInOperation(op) = {<<"work", op.target>>}
    BY <1>1, <1>13 DEF ApplyOperation, NamedInOperation
  <2>2. RecordTells(t, u, "work", names)
    BY <1>1, <2>1, UpdateWorkItemStatusTells
  <2>3. QED
    BY <2>2, RecordsStaySourced
<1>14. QED
  BY <1>2, <1>3, <1>4, <1>5, <1>6, <1>7, <1>8, <1>9, <1>10, <1>11, <1>12, <1>13 DEF OperationKinds

\* What the first operations of a proposal name.
NamedUpTo(p, i) == UNION {NamedInOperation(p.ops[j]) : j \in 1 .. i}

LEMMA OperationsTell ==
  ASSUME NEW s, NEW D, Good(s, D), Sourced(s), NEW p, WellFormed(p), NEW seq,
         NEW t, t = Transactions(p, s, seq), t[Len(p.ops)].error = NONE,
         NEW last, last = t[Len(p.ops)]
  PROVE /\ Sourced(last.store)
        /\ Tells(s, last.store, NamedUpTo(p, Len(p.ops)) \cup NamedInEvents(last.events))
<1> DEFINE N == Len(p.ops)
           told(i) == NamedUpTo(p, i) \cup NamedInEvents(t[i].events)
           S == {i \in Nat : i <= N /\ t[i].error = NONE
                               => /\ Progress(s, D, t[i], {}) /\ Sourced(t[i].store)
                                  /\ Tells(s, t[i].store, told(i))}
<1>1. N \in Nat /\ \A i \in 1 .. N : p.ops[i].op \in OperationKinds
  BY DEF WellFormed
<1>2. /\ t[0] = Start(s)
      /\ \A i \in 1 .. N : t[i] = ApplyOperation(t[i - 1], p.ops[i], p.proposer, seq)
  BY <1>1, TransactionsStep
<1>r. Rows(s)
  BY DEF Good
<1>4. 0 \in S
  <2>1. Progress(s, D, t[0], {})
    BY <1>2, StartIs
  <2>2. t[0].store = s
    BY <1>2 DEF Start
  <2>3. Tells(s, t[0].store, told(0))
    BY <2>2, SameTells DEF Tells
  <2>4. QED
    BY <2>1, <2>2, <2>3
<1>5. ASSUME NEW n \in Nat, n \in S PROVE n + 1 \in S
  <2>a. PICK i : i = n + 1
    OBVIOUS
  <2> SUFFICES ASSUME i <= N, t[i].error = NONE
               PROVE Progress(s, D, t[i], {}) /\ Sourced(t[i].store) /\ Tells(s, t[i].store, told(i))
    BY <2>a
  <2>b. PICK op : op = p.ops[i]
    OBVIOUS
  <2>c. PICK v : v = t[n]
    OBVIOUS
  <2>d. PICK u : u = t[i]
    OBVIOUS
  <2>e. PICK names : names = told(i)
    OBVIOUS
  <2>1. i \in 1 .. N /\ i - 1 = n /\ n <= N /\ i \in 1 .. i /\ 1 .. n \subseteq 1 .. i
    BY <1>1, <2>a
  <2>2. u = ApplyOperation(v, op, p.proposer, seq) /\ u.error = NONE /\ op.op \in OperationKinds
    BY <1>1, <1>2, <2>1, <2>b, <2>c, <2>d
  <2>3. v.error = NONE
    BY <2>2 DEF ApplyOperation
  <2>4. Progress(s, D, v, {}) /\ Sourced(v.store) /\ Tells(s, v.store, told(n))
    BY <1>5, <2>1, <2>3, <2>c
  <2>5. Progress(s, D, u, {}) /\ Extends(v.events, u.events)
    BY <1>r, <2>2, <2>4, OperationDoes DEF Advances, Follows
  <2>6. told(n) \subseteq names
    <3>1. NamedInEvents(v.events) \subseteq NamedInEvents(u.events)
      BY <2>5, EventsName
    <3>2. NamedUpTo(p, n) \subseteq NamedUpTo(p, i)
      BY <2>1 DEF NamedUpTo
    <3>3. QED
      BY <3>1, <3>2, <2>c, <2>d, <2>e
  <2>7. NamedInOperation(op) \cup NamedInEvents(u.events) \subseteq names
    <3>1. NamedInOperation(op) \subseteq NamedUpTo(p, i)
      BY <2>1, <2>b DEF NamedUpTo
    <3>2. QED
      BY <3>1, <2>d, <2>e
  <2>8. Tells(v.store, u.store, names) /\ Sourced(u.store)
    <3>1. IsTxn(v) /\ Rows(v.store)
      BY <2>4 DEF Progress
    <3>2. QED
      BY <2>2, <2>4, <2>7, <3>1, OperationTells
  <2>9. Tells(s, v.store, names)
    BY <2>4, <2>6, TellsMore
  <2>10. Tells(s, u.store, names)
    BY <2>8, <2>9, TellsTransitive
  <2>11. QED
    BY <2>5, <2>8, <2>10, <2>d, <2>e
<1>6. Nat \subseteq S
  <2> HIDE DEF S
  <2> QED BY <1>4, <1>5, NatSetInduction
<1>7. N \in S
  BY <1>1, <1>6
<1>8. Sourced(t[N].store) /\ Tells(s, t[N].store, told(N))
  <2> HIDE DEF told
  <2> QED BY <1>1, <1>7
<1>9. QED
  BY <1>8

\* What an entry commits is told by the proposal or by the events of the entry.
LEMMA CommitTells ==
  ASSUME NEW s, NEW D, Good(s, D), Sourced(s), NEW p, NEW seq,
         NEW u, u = Evaluate(p, s, seq), u.error = NONE,
         NEW entry, entry.proposal = p, entry.events = u.events
  PROVE Tells(s, u.store, Named(entry)) /\ Sourced(u.store)
<1>a. PICK t : t = Transactions(p, s, seq)
  OBVIOUS
<1>0. Fail(Start(s), INVALID).error # NONE /\ Fail(Start(s), CONFLICT).error # NONE
  BY DEF Fail, Start, NONE, INVALID, CONFLICT
<1>1. WellFormed(p) /\ u = t[Len(p.ops)]
  BY <1>0, <1>a DEF Evaluate
<1>2. /\ Sourced(u.store)
      /\ Tells(s, u.store, NamedUpTo(p, Len(p.ops)) \cup NamedInEvents(u.events))
  BY <1>1, <1>a, OperationsTell
<1>3. NamedUpTo(p, Len(p.ops)) \cup NamedInEvents(u.events) \subseteq Named(entry)
  <2>1. NamedUpTo(p, Len(p.ops)) \subseteq NamedInProposal(p)
    BY <1>1 DEF NamedUpTo, NamedInProposal, WellFormed
  <2>2. QED
    BY <2>1 DEF Named
<1>4. QED
  BY <1>2, <1>3, TellsMore

-----------------------------------------------------------------------------
(* Histories and scenarios.                                                *)

SourcedInv == Sourced(store)

LEMMA SourcedInit == Init => SourcedInv
<1> SUFFICES ASSUME Init PROVE SourcedInv
  OBVIOUS
<1>1. DOMAIN store.claims = {} /\ DOMAIN store.evidence = {}
  BY DEF Init, EmptyStore, EmptyTable
<1>2. IsFiniteSet(DOMAIN store.claims)
  BY <1>1, FS_EmptySet
<1>3. QED
  BY <1>1, <1>2 DEF SourcedInv, Sourced

\* What a commit changes is named in its entry.
LEMMA CommitIsTold ==
  ASSUME KernelInv, SourcedInv, NEW p, Commit(p)
  PROVE \E entry : /\ ledger' = Append(ledger, entry)
                   /\ Tells(store, store', Named(entry)) /\ Sourced(store')
<1>a. PICK u : u = Evaluate(p, store, Len(ledger) + 1)
  OBVIOUS
<1>b. PICK entry : entry = [proposal |-> p, events |-> u.events, opened |-> u.opened,
                            outcome |-> IF u.opened = {} THEN "COMMITTED" ELSE "FACT_CONFLICT"]
  OBVIOUS
<1>1. u.error = NONE /\ store' = u.store /\ ledger' = Append(ledger, entry)
  BY <1>a, <1>b DEF Commit
<1>2. entry.proposal = p /\ entry.events = u.events
  BY <1>b
<1>3. Good(store, DecidedPairs(ledger)) /\ Sourced(store)
  BY DEF KernelInv, Accounted, SourcedInv
<1>4. Tells(store, u.store, Named(entry)) /\ Sourced(u.store)
  BY <1>1, <1>2, <1>3, <1>a, CommitTells
<1>5. QED
  BY <1>1, <1>4

LEMMA SourcedStep == KernelInv /\ SourcedInv /\ [Next]_vars => SourcedInv'
<1> SUFFICES ASSUME KernelInv, SourcedInv, [Next]_vars PROVE SourcedInv'
  OBVIOUS
<1>1. CASE Next
  <2>1. PICK p \in Offered(Len(ledger), store) : Commit(p)
    BY <1>1 DEF Next
  <2>2. Sourced(store')
    BY <2>1, CommitIsTold
  <2>3. QED
    BY <2>2 DEF SourcedInv
<1>2. CASE UNCHANGED vars
  BY <1>2 DEF vars, SourcedInv
<1>3. QED
  BY <1>1, <1>2

\* Whatever a scenario shows is there.
LEMMA MembersExist ==
  ASSUME KernelInv, LinkInv, SourcedInv, NEW s \in Scenarios, NEW r \in Members(s)
  PROVE r \in Viewed
<1>1. /\ Good(store, DecidedPairs(ledger)) /\ Founded(store)
      /\ Linked(store, Names(store)) /\ Sourced(store)
  BY DEF KernelInv, Accounted, LinkInv, SourcedInv, Good
<1>2. Viewed = Names(store)
  BY DEF Viewed, RecordsOf, Names, Referable
<1>3. \A n \in Referable : \A id \in DOMAIN store[n] : <<n, id>> \in Viewed
  BY <1>2, NameOf
<1>4. ASSUME NEW n \in Linking, NEW id \in DOMAIN store[n]
      PROVE Related(<<n, id>>) \subseteq Viewed
  <2>1. store[n][id].refs \subseteq Names(store)
    BY <1>1 DEF Linked, Pointed
  <2>2. CASE n = "decisions"
    <3>1. Related(<<n, id>>) = store.decisions[id].refs
            \cup (IF store.decisions[id].by = NONE THEN {} ELSE {<<"decisions", store.decisions[id].by>>})
      BY <2>2 DEF Related, RowOf
    <3>2. store.decisions[id].by \in DOMAIN store.decisions \cup {NONE}
      BY <1>1, <2>2 DEF Linked
    <3>3. QED
      BY <1>2, <1>3, <2>1, <2>2, <3>1, <3>2 DEF Referable
  <2>3. CASE n # "decisions"
    <3>1. Related(<<n, id>>) = store[n][id].refs
      BY <2>3 DEF Related, RowOf, Linking
    <3>2. QED
      BY <1>2, <2>1, <3>1
  <2>4. QED
    BY <2>2, <2>3
<1>5. CASE s = <<"project", "project">>
  <2>1. Members(s) = Project
    BY <1>5 DEF Members
  <2>2. QED
    BY <2>1 DEF Project
<1>6. CASE s \in {<<"subject", Claim[c].family>> : c \in DOMAIN store.claims}
  <2>1. Members(s) = Subject(s[2])
    BY <1>6 DEF Members
  <2>2. r \in RecordsOf("claims") \/ r \in RecordsOf("conflicts")
    BY <2>1 DEF Subject, OpenConflictsOf
  <2>3. QED
    BY <1>3, <2>2 DEF RecordsOf, Referable
<1>7. CASE s \in {<<"thread", d>> : d \in RecordsOf("decisions")}
  <2>1. PICK id \in DOMAIN store.decisions : s[1] = "thread" /\ s[2] = <<"decisions", id>>
    BY <1>7 DEF RecordsOf
  <2>a. PICK d : d = <<"decisions", id>>
    OBVIOUS
  <2>2. Members(s) = DecisionThread(d)
    BY <2>1, <2>a DEF Members
  <2>3. Related(d) \subseteq Viewed
    BY <1>4, <2>a DEF Linking
  <2>4. d \in Viewed
    BY <1>3, <2>a DEF Referable
  <2>5. r = d \/ r \in Related(d) \/ r \in RecordsOf("decisions")
    BY <2>2 DEF DecisionThread
  <2>6. QED
    BY <1>3, <2>3, <2>4, <2>5 DEF RecordsOf, Referable
<1>8. CASE s \in {<<"incident", k>> : k \in {k \in RecordsOf("conflicts") : Open(k)}}
  <2>1. PICK k \in DOMAIN store.conflicts : s[1] = "incident" /\ s[2] = <<"conflicts", k>>
    BY <1>8 DEF RecordsOf
  <2>a. PICK x : x = <<"conflicts", k>>
    OBVIOUS
  <2>2. Members(s) = Incident(x)
    BY <2>1, <2>a DEF Members
  <2>3. Related(x) = {<<"claims", c>> : c \in store.conflicts[k].members}
    BY <2>a DEF Related, RowOf
  <2>4. \A c \in store.conflicts[k].members : c \in DOMAIN store.claims
    BY <1>1 DEF Founded
  <2>5. Related(x) \subseteq Viewed
    BY <1>3, <2>3, <2>4 DEF Referable
  <2>6. ASSUME NEW c PROVE SourcesOf(<<"claims", c>>) \subseteq Viewed
    <3>1. SourcesOf(<<"claims", c>>)
            = {<<"sources", Link[l].source>> : l \in {l \in DOMAIN store.evidence : store.evidence[l].claim = c}}
      BY DEF SourcesOf
    <3>2. \A l \in DOMAIN store.evidence : Link[l].source \in DOMAIN store.sources
      BY <1>1 DEF Sourced
    <3>3. QED
      BY <1>3, <3>1, <3>2 DEF Referable
  <2>7. UNION {SourcesOf(y) : y \in Related(x)} \subseteq Viewed
    BY <2>3, <2>6
  <2>8. x \in Viewed
    BY <1>3, <2>a DEF Referable
  <2>9. QED
    BY <2>2, <2>5, <2>7, <2>8 DEF Incident
<1>9. CASE s \in {<<"work", w>> : w \in {w \in RecordsOf("work") : RowOf(w).status \notin {"DONE", "DROPPED"}}}
  <2>1. PICK id \in DOMAIN store.work : s[1] = "work" /\ s[2] = <<"work", id>>
    BY <1>9 DEF RecordsOf
  <2>a. PICK w : w = <<"work", id>>
    OBVIOUS
  <2>2. Members(s) = Workstream(w)
    BY <2>1, <2>a DEF Members
  <2>3. Related(w) \subseteq Viewed /\ w \in Viewed
    BY <1>3, <1>4, <2>a DEF Linking, Referable
  <2>4. QED
    BY <2>2, <2>3 DEF Workstream
<1>10. QED
  BY <1>5, <1>6, <1>7, <1>8, <1>9 DEF Scenarios

\* No change of the ledger is kept from the readers of histories and of views:
\* whatever an entry changes, the history of the record has the entry, and the
\* digest of every scenario that shows the record is another.
THEOREM ChangesShow == Spec => ChangesAreTold
<1>1. ASSUME KernelInv, LinkInv, SourcedInv, Next PROVE HistoryTells /\ DigestFollows
  <2>1. PICK p \in Offered(Len(ledger), store) : Commit(p)
    BY <1>1 DEF Next
  <2>2. PICK entry : /\ ledger' = Append(ledger, entry)
                     /\ Tells(store, store', Named(entry)) /\ Sourced(store')
    BY <1>1, <2>1, CommitIsTold
  <2>a. PICK last : last = Len(ledger) + 1
    OBVIOUS
  <2>3. /\ IsList(ledger') /\ Len(ledger') = last /\ ledger'[last] = entry
        /\ last \in DOMAIN ledger' /\ last \notin DOMAIN ledger
    <3>1. IsList(ledger) /\ Len(ledger) \in Nat /\ DOMAIN ledger = 1 .. Len(ledger)
      BY <1>1 DEF KernelInv, Accounted, IsList
    <3>2. IsList(ledger') /\ Len(ledger') = last /\ ledger'[last] = entry
      BY <2>2, <2>a, <3>1, AppendToList
    <3>3. DOMAIN ledger' = 1 .. last
      BY <3>2 DEF IsList
    <3>4. QED
      BY <2>a, <3>1, <3>2, <3>3
  <2>4. Last(ledger') = entry
    BY <2>3 DEF Last
  <2>5. \A n \in Tables : \A id \in ChangedRows(n) : <<n, id>> \in Named(entry)
    BY <2>2 DEF ChangedRows, Tells, TableTells
  <2>6. HistoryTells
    BY <2>4, <2>5 DEF HistoryTells, Tables
  <2>7. DigestFollows
    <3>1. ASSUME NEW s \in Scenarios, NEW r \in Members(s),
                 History(r)' # History(r) \/ Related(r)' # Related(r)
          PROVE Digest(s) # Digest(s)'
      <4>1. r \in Viewed
        BY <1>1, <3>1, MembersExist
      <4>2. AtomicRecord(r) \in Digest(s)
        BY <4>1 DEF Digest
      <4>3. SUFFICES ASSUME AtomicRecord(r) \in Digest(s)' PROVE FALSE
        BY <4>2
      <4>4. PICK q : AtomicRecord(r) = AtomicRecord(q)'
        BY <4>3 DEF Digest
      <4>5. AtomicRecord(r).record = r /\ AtomicRecord(r).history = History(r)
            /\ AtomicRecord(r).related = Related(r)
        BY DEF AtomicRecord
      <4>6. (AtomicRecord(q)').record = q /\ (AtomicRecord(q)').history = History(q)'
            /\ (AtomicRecord(q)').related = Related(q)'
        BY DEF AtomicRecord
      <4>7. r = q
        BY <4>4, <4>5, <4>6
      <4>8. QED
        BY <3>1, <4>4, <4>5, <4>6, <4>7
    <3>2. ASSUME NEW n \in Referable, NEW id \in ChangedRows(n)
          PROVE History(<<n, id>>)' # History(<<n, id>>)
      <4>1. <<n, id>> \in Named(entry)
        BY <2>5 DEF Tables, Referable
      <4>2. last \in History(<<n, id>>)'
        BY <2>3, <4>1 DEF History
      <4>3. last \notin History(<<n, id>>)
        BY <2>3 DEF History
      <4>4. QED
        BY <4>2, <4>3
    <3>3. ASSUME NEW l \in ChangedRows("evidence")
          PROVE Related(<<"claims", Link[l].claim>>)' # Related(<<"claims", Link[l].claim>>)
      <4>a. PICK c : c = Link[l].claim
        OBVIOUS
      <4>0. l \in DOMAIN store'.evidence
        BY DEF ChangedRows
      <4>1. store'.evidence[l].claim = c
        <5>1. store'.evidence[l] = [claim |-> Link[l].claim, source |-> Link[l].source]
          BY <2>2, <4>0 DEF Sourced
        <5>2. QED
          BY <5>1, <4>a
      <4>2. l \notin DOMAIN store.evidence
        BY <1>1, <2>2 DEF ChangedRows, Sourced, SourcedInv
      <4>3. <<"evidence", l>> \in Related(<<"claims", c>>)'
        BY <4>0, <4>1 DEF Related
      <4>4. <<"evidence", l>> \notin Related(<<"claims", c>>)
        BY <4>2 DEF Related
      <4>5. QED
        BY <4>3, <4>4, <4>a
    <3>4. ASSUME NEW k \in DOMAIN store'.conflicts \ DOMAIN store.conflicts,
                 NEW c \in store'.conflicts[k].members
          PROVE Related(<<"claims", c>>)' # Related(<<"claims", c>>)
      <4>1. <<"conflicts", k>> \in Related(<<"claims", c>>)'
        BY DEF Related
      <4>2. <<"conflicts", k>> \notin Related(<<"claims", c>>)
        BY DEF Related
      <4>3. QED
        BY <4>1, <4>2
    <3> DEFINE rows == UNION {{<<t, id>> : id \in ChangedRows(t)} : t \in Referable}
               supported == {<<"claims", Link[l].claim>> : l \in ChangedRows("evidence")}
               contradicted == {<<"claims", c>> : c \in UNION {store'.conflicts[k].members :
                                  k \in DOMAIN store'.conflicts \ DOMAIN store.conflicts}}
    <3>5. ASSUME NEW r \in rows \cup supported \cup contradicted
          PROVE History(r)' # History(r) \/ Related(r)' # Related(r)
      <4>1. CASE r \in rows
        BY <3>2, <4>1
      <4>2. CASE r \in supported
        BY <3>3, <4>2
      <4>3. CASE r \in contradicted
        BY <3>4, <4>3
      <4>4. QED
        BY <4>1, <4>2, <4>3
    <3>6. \A s \in Scenarios \cap Scenarios' :
            Members(s) \cap (rows \cup supported \cup contradicted) # {} => Digest(s) # Digest(s)'
      <4> HIDE DEF rows, supported, contradicted
      <4> QED BY <3>1, <3>5
    <3>7. QED
      BY <3>6 DEF DigestFollows
  <2>8. QED
    BY <2>6, <2>7
<1>2. KernelInv /\ LinkInv /\ SourcedInv /\ [Next]_vars => [HistoryTells /\ DigestFollows]_vars
  BY <1>1
<1>3. Spec => []SourcedInv
  BY SourcedInit, SourcedStep, KernelInvariant, PTL DEF Spec
<1>4. Spec => []LinkInv
  BY LinkInit, LinkStep, KernelInvariant, PTL DEF Spec
<1>5. QED
  BY <1>2, <1>3, <1>4, KernelInvariant, PTL DEF Spec, ChangesAreTold

-----------------------------------------------------------------------------
(* The context pack.                                                       *)

\* The claims below a claim, in the order of their ids.
Below(c) == {x \in Current : Before("claims", x[2], c[2])}

LEMMA CurrentIs ==
  ASSUME KernelInv, SourcedInv
  PROVE /\ IsFiniteSet(Current)
        /\ \A r \in Current : r = <<"claims", r[2]>> /\ r[2] \in DOMAIN Claim
<1>1. DOMAIN store.claims \subseteq DOMAIN Claim /\ IsFiniteSet(DOMAIN store.claims)
  BY DEF KernelInv, Accounted, Good, SourcedInv, Sourced
<1> DEFINE pairs == {<<"claims", c>> : c \in DOMAIN store.claims}
<1>2. IsFiniteSet(pairs)
  <2>a. PICK f : f = [c \in DOMAIN store.claims |-> <<"claims", c>>]
    OBVIOUS
  <2>1. f \in Surjection(DOMAIN store.claims, pairs)
    BY <2>a DEF Surjection
  <2>2. QED
    BY <1>1, <2>1, FS_Surjection
<1>3. Current \subseteq pairs
  BY DEF Current, Active
<1>4. IsFiniteSet(Current)
  BY <1>2, <1>3, FS_Subset
<1>5. QED
  BY <1>1, <1>3, <1>4

LEMMA BelowIs ==
  ASSUME IsFiniteSet(Current), \A r \in Current : r = <<"claims", r[2]>> /\ r[2] \in DOMAIN Claim,
         NEW c \in Current
  PROVE /\ IsFiniteSet(Below(c)) /\ Cardinality(Below(c)) \in Nat
        /\ Cardinality(Below(c)) < Cardinality(Current)
        /\ \A d \in Current : Before("claims", c[2], d[2]) =>
             Cardinality(Below(c)) < Cardinality(Below(d))
<1>1. c \notin Below(c) /\ Below(c) \subseteq Current
  BY MemoryViewsAssumption DEF Below
<1>2. ASSUME NEW S, IsFiniteSet(S), Below(c) \cup {c} \subseteq S
      PROVE Cardinality(Below(c)) < Cardinality(S)
  <2>1. IsFiniteSet(Below(c))
    BY <1>2, FS_Subset
  <2>2. Cardinality(Below(c) \cup {c}) = Cardinality(Below(c)) + 1 /\ IsFiniteSet(Below(c) \cup {c})
    BY <1>1, <2>1, FS_AddElement
  <2>3. Cardinality(Below(c) \cup {c}) <= Cardinality(S)
    BY <1>2, FS_Subset
  <2>4. Cardinality(Below(c)) \in Nat /\ Cardinality(S) \in Nat
    BY <1>2, <2>1, FS_CardinalityType
  <2>5. QED
    BY <2>2, <2>3, <2>4
<1>3. IsFiniteSet(Below(c)) /\ Cardinality(Below(c)) \in Nat
  BY <1>1, FS_Subset, FS_CardinalityType
<1>4. Cardinality(Below(c)) < Cardinality(Current)
  BY <1>1, <1>2
<1>5. ASSUME NEW d \in Current, Before("claims", c[2], d[2])
      PROVE Cardinality(Below(c)) < Cardinality(Below(d))
  <2>1. Below(c) \cup {c} \subseteq Below(d)
    BY <1>5, MemoryViewsAssumption DEF Below
  <2>2. IsFiniteSet(Below(d))
    <3>1. Below(d) \subseteq Current
      BY DEF Below
    <3>2. QED
      BY <3>1, FS_Subset
  <2>3. QED
    BY <1>2, <2>1, <2>2
<1>6. QED
  BY <1>3, <1>4, <1>5

\* The first k claims are k.
LEMMA FirstAreSome ==
  ASSUME IsFiniteSet(Current), \A r \in Current : r = <<"claims", r[2]>> /\ r[2] \in DOMAIN Claim,
         NEW k \in 0 .. Cardinality(Current)
  PROVE FirstClaims(k) \subseteq Current /\ Cardinality(FirstClaims(k)) = k
<1>a. PICK N : N = Cardinality(Current)
  OBVIOUS
<1>1. N \in Nat /\ k \in Nat /\ k <= N
  BY <1>a, FS_CardinalityType
<1>b. PICK rank : rank = [c \in Current |-> Cardinality(Below(c))]
  OBVIOUS
<1>2. \A c \in Current : rank[c] \in 0 .. N - 1
  <2> SUFFICES ASSUME NEW c \in Current PROVE rank[c] \in 0 .. N - 1
    OBVIOUS
  <2>1. Cardinality(Below(c)) \in Nat /\ Cardinality(Below(c)) < N
    BY <1>a, BelowIs
  <2>2. QED
    BY <1>1, <1>b, <2>1
<1>3. ASSUME NEW c \in Current, NEW d \in Current, c # d PROVE rank[c] # rank[d]
  <2>1. c[2] # d[2] /\ c[2] \in DOMAIN Claim /\ d[2] \in DOMAIN Claim
    BY <1>3
  <2>2. Before("claims", c[2], d[2]) \/ Before("claims", d[2], c[2])
    BY <2>1, MemoryViewsAssumption
  <2>3. rank[c] < rank[d] \/ rank[d] < rank[c]
    BY <1>b, <2>2, BelowIs
  <2>4. rank[c] \in 0 .. N - 1 /\ rank[d] \in 0 .. N - 1
    BY <1>2
  <2>5. QED
    BY <2>3, <2>4
<1>4. rank \in Injection(Current, 0 .. N - 1)
  BY <1>2, <1>3, <1>b DEF Injection, IsInjective
<1>5. IsFiniteSet(0 .. N - 1) /\ Cardinality(0 .. N - 1) = N
  BY <1>1, FS_Interval
<1>6. rank \in Surjection(Current, 0 .. N - 1)
  BY <1>4, <1>5, <1>a, FS_Injection
<1>c. PICK first : first = FirstClaims(k)
  OBVIOUS
<1>7. first = {c \in Current : rank[c] < k}
  BY <1>b, <1>c DEF FirstClaims, Below
<1>d. PICK f : f = [c \in first |-> rank[c]]
  OBVIOUS
<1>8. f \in Bijection(first, 0 .. k - 1)
  <2>1. \A c \in first : f[c] \in 0 .. k - 1
    <3> SUFFICES ASSUME NEW c \in first PROVE f[c] \in 0 .. k - 1
      OBVIOUS
    <3>1. rank[c] \in 0 .. N - 1 /\ rank[c] < k /\ f[c] = rank[c]
      BY <1>2, <1>7, <1>d
    <3>2. QED
      BY <1>1, <3>1
  <2>2. \A c, d \in first : f[c] = f[d] => c = d
    BY <1>3, <1>7, <1>d
  <2>3. \A j \in 0 .. k - 1 : \E c \in first : f[c] = j
    <3> SUFFICES ASSUME NEW j \in 0 .. k - 1 PROVE \E c \in first : f[c] = j
      OBVIOUS
    <3>1. j \in 0 .. N - 1 /\ j < k
      BY <1>1
    <3>2. PICK c \in Current : rank[c] = j
      BY <1>6, <3>1 DEF Surjection
    <3>3. QED
      BY <1>7, <1>d, <3>1, <3>2
  <2>4. f \in [first -> 0 .. k - 1]
    BY <2>1, <1>d
  <2>5. QED
    BY <2>2, <2>3, <2>4 DEF Bijection, Injection, Surjection, IsInjective
<1>9. first \subseteq Current
  BY <1>7
<1>10. IsFiniteSet(first)
  BY <1>9, FS_Subset
<1>11. Cardinality(0 .. k - 1) = k
  BY <1>1, FS_Interval
<1>12. Cardinality(first) = k
  <2>1. ExistsBijection(first, 0 .. k - 1)
    BY <1>8 DEF ExistsBijection
  <2>2. QED
    BY <1>10, <1>11, <2>1, FS_Bijection
<1>13. QED
  BY <1>9, <1>12, <1>c

\* The claims an open conflict contests are those a pack does not take for facts.
Contested == UNION {store.conflicts[k].members :
                      k \in {k \in DOMAIN store.conflicts : store.conflicts[k].status = "OPEN"}}

LEMMA ConflictedIs == Conflicted = {<<"claims", c>> : c \in Contested}
<1> DEFINE open == {k \in DOMAIN store.conflicts : store.conflicts[k].status = "OPEN"}
<1>1. \A c : c \in Contested <=> \E k \in open : c \in store.conflicts[k].members
  BY DEF Contested
<1>2. \A r : r \in ShownConflicts <=> \E k \in open : r = <<"conflicts", k>>
  BY DEF ShownConflicts, RecordsOf, Open, RowOf
<1>3. \A k : RowOf(<<"conflicts", k>>) = store.conflicts[k]
  BY DEF RowOf
<1>a. PICK members : members = UNION {RowOf(r).members : r \in ShownConflicts}
  OBVIOUS
<1>4. \A c : c \in members <=> \E r \in ShownConflicts : c \in RowOf(r).members
  BY <1>a
<1>5. members = Contested
  <2> HIDE DEF open
  <2>1. ASSUME NEW c \in Contested PROVE c \in members
    <3>1. PICK k \in open : c \in store.conflicts[k].members
      BY <1>1
    <3>a. PICK r : r = <<"conflicts", k>>
      OBVIOUS
    <3>2. r \in ShownConflicts /\ RowOf(r) = store.conflicts[k]
      BY <1>2, <1>3, <3>a
    <3>3. QED
      BY <1>4, <3>1, <3>2
  <2>2. ASSUME NEW c \in members PROVE c \in Contested
    <3>1. PICK r \in ShownConflicts : c \in RowOf(r).members
      BY <1>4
    <3>2. PICK k \in open : r = <<"conflicts", k>>
      BY <1>2
    <3>3. RowOf(r) = store.conflicts[k]
      BY <1>3, <3>2
    <3>4. QED
      BY <1>1, <3>1, <3>3
  <2>3. QED
    BY <2>1, <2>2
<1>6. QED
  BY <1>5, <1>a DEF Conflicted

LEMMA CurrentAre == \A c : <<"claims", c>> \in Current <=> c \in Active(store) /\ c \notin Contested
BY ConflictedIs DEF Current

\* A pack leaves out the claims it counts.
LEMMA OmittedAre ==
  ASSUME IsFiniteSet(Current), \A r \in Current : r = <<"claims", r[2]>> /\ r[2] \in DOMAIN Claim,
         NEW k \in 0 .. Cardinality(Current),
         NEW out, out = {c \in Active(store) \ Contested : <<"claims", c>> \notin FirstClaims(k)}
  PROVE Cardinality(out) = Cardinality(Current) - k
<1>a. PICK first : first = FirstClaims(k)
  OBVIOUS
<1>b. PICK rest : rest = Current \ first
  OBVIOUS
<1>1. first \subseteq Current /\ Cardinality(first) = k /\ Cardinality(Current) \in Nat /\ k \in Nat
  BY <1>a, FirstAreSome, FS_CardinalityType
<1>2. IsFiniteSet(rest) /\ IsFiniteSet(first)
  <2>1. rest \subseteq Current
    BY <1>b
  <2>2. QED
    BY <1>1, <2>1, FS_Subset
<1>3. Cardinality(rest) = Cardinality(Current) - k
  <2>1. rest \cup first = Current /\ rest \cap first = {}
    BY <1>1, <1>b
  <2>2. Cardinality(rest \cup first)
          = Cardinality(rest) + Cardinality(first) - Cardinality(rest \cap first)
    BY <1>2, FS_Union
  <2>3. Cardinality(rest \cap first) = 0 /\ Cardinality(rest) \in Nat
    BY <1>2, <2>1, FS_EmptySet, FS_CardinalityType
  <2>a. PICK both, none : both = rest \cup first /\ none = rest \cap first
    OBVIOUS
  <2>4. Cardinality(both) = Cardinality(rest) + k - Cardinality(none)
    BY <1>1, <2>2, <2>a
  <2>5. both = Current /\ Cardinality(none) = 0
    BY <2>1, <2>3, <2>a
  <2>b. PICK r, n : r = Cardinality(rest) /\ n = Cardinality(Current)
    OBVIOUS
  <2>6. n = r + k - 0 /\ r \in Nat /\ n \in Nat /\ k \in Nat
    BY <1>1, <2>3, <2>4, <2>5, <2>b
  <2>7. r = n - k
    BY <2>6
  <2>8. QED
    BY <2>7, <2>b
<1>c. PICK f : f = [r \in rest |-> r[2]]
  OBVIOUS
<1>4. f \in Bijection(rest, out)
  <2>1. \A r \in rest : r = <<"claims", r[2]>> /\ f[r] = r[2] /\ r \notin first /\ r \in Current
    BY <1>b, <1>c
  <2>2. \A r \in rest : f[r] \in out
    <3> SUFFICES ASSUME NEW r \in rest PROVE f[r] \in out
      OBVIOUS
    <3>a. PICK c : c = r[2]
      OBVIOUS
    <3>1. r = <<"claims", c>> /\ f[r] = c /\ r \notin first /\ r \in Current
      BY <2>1, <3>a
    <3>2. c \in Active(store) /\ c \notin Contested
      BY <3>1, CurrentAre
    <3>3. QED
      BY <1>a, <3>1, <3>2
  <2>3. \A r, q \in rest : f[r] = f[q] => r = q
    <3> SUFFICES ASSUME NEW r \in rest, NEW q \in rest, f[r] = f[q] PROVE r = q
      OBVIOUS
    <3>1. r[2] = q[2]
      BY <2>1
    <3>2. r = <<"claims", r[2]>> /\ q = <<"claims", q[2]>>
      BY <2>1
    <3>3. QED
      BY <3>1, <3>2
  <2>4. \A c \in out : \E r \in rest : f[r] = c
    <3> SUFFICES ASSUME NEW c \in out PROVE \E r \in rest : f[r] = c
      OBVIOUS
    <3>a. PICK r : r = <<"claims", c>>
      OBVIOUS
    <3>1. r \in Current /\ r \notin first /\ r[2] = c
      BY <1>a, <3>a, CurrentAre
    <3>2. r \in rest
      BY <1>b, <3>1
    <3>3. QED
      BY <1>c, <3>1, <3>2
  <2>5. f \in [rest -> out]
    BY <1>c, <2>2
  <2>6. QED
    BY <2>3, <2>4, <2>5 DEF Bijection, Injection, Surjection, IsInjective
<1>5. Cardinality(out) = Cardinality(rest)
  <2>1. ExistsBijection(rest, out)
    BY <1>4 DEF ExistsBijection
  <2>2. QED
    BY <1>2, <2>1, FS_Bijection
<1>6. QED
  BY <1>3, <1>5

\* What there is to a pack: its first claims, as many as fit.
LEMMA PackIs ==
  ASSUME NEW budget, NEW pack \in Packs(budget), Cardinality(Current) \in Nat
  PROVE \E k \in 0 .. Cardinality(Current) :
          /\ pack.claims = FirstClaims(k) /\ pack.omitted = Cardinality(Current) - k
          /\ pack.weight <= budget
<1> DEFINE always == Mandatory
           current == Current
           cut == Truncated(always \cup current)
           weighs(k) == LET shown == always \cup FirstClaims(k)
                        IN Cardinality(shown) + Cardinality(cut \cap shown)
                             + (IF k < Cardinality(current) THEN 1 ELSE 0)
           weight == [k \in 0 .. Cardinality(current) |-> weighs(k)]
           fitting == {k \in DOMAIN weight : \A j \in 0 .. k : weight[j] <= budget}
           packed(k) == [claims |-> FirstClaims(k),
                         omitted |-> Cardinality(current) - k,
                         notes |-> cut \cap (always \cup FirstClaims(k)),
                         weight |-> weight[k]]
<1>1. Packs(budget) = {packed(k) : k \in {k \in fitting : \A j \in fitting : j <= k}}
  BY DEF Packs
<1>2. DOMAIN weight = 0 .. Cardinality(Current)
  OBVIOUS
<1>3. \A k : /\ packed(k).claims = FirstClaims(k) /\ packed(k).omitted = Cardinality(Current) - k
             /\ packed(k).weight = weight[k]
  OBVIOUS
<1> HIDE DEF weight, packed
<1>4. PICK k \in fitting : pack = packed(k)
  BY <1>1
<1>5. k \in 0 .. Cardinality(Current) /\ weight[k] <= budget
  BY <1>2
<1>6. QED
  BY <1>3, <1>4, <1>5

\* A reader sees both sides of every contradiction nobody has decided: in the
\* context pack, whatever its budget, and in the incident of the conflict.
THEOREM BothSidesAreShown == Spec => []BothSidesShown
<1>1. ASSUME KernelInv, SourcedInv, NoSilentContradiction PROVE BothSidesShown
  <2>1. /\ IsFiniteSet(Current) /\ Cardinality(Current) \in Nat
        /\ \A r \in Current : r = <<"claims", r[2]>> /\ r[2] \in DOMAIN Claim
    BY <1>1, CurrentIs, FS_CardinalityType
  <2>2. ASSUME NEW budget \in Budgets, NEW pack \in Packs(budget)
        PROVE PackHidesNothing(budget, pack)
    <3>1. PICK k \in 0 .. Cardinality(Current) :
            /\ pack.claims = FirstClaims(k) /\ pack.omitted = Cardinality(Current) - k
            /\ pack.weight <= budget
      BY <2>1, PackIs
    <3>2. pack.claims \subseteq Current
      BY <2>1, <3>1, FirstAreSome
    <3>a. PICK out : out = {c \in Active(store) \ Contested : <<"claims", c>> \notin pack.claims}
      OBVIOUS
    <3>3. pack.omitted = Cardinality(out)
      BY <2>1, <3>1, <3>a, OmittedAre
    <3>4. \A x \in Contested : <<"claims", x>> \notin pack.claims
      BY <3>2, CurrentAre
    <3>5. ASSUME NEW x \in Active(store), NEW y \in Active(store),
                 {<<"claims", x>>, <<"claims", y>>} \subseteq pack.claims,
                 x # y, Claim[x].family = Claim[y].family, ConflictKind(Claim[x], Claim[y]) # NONE
          PROVE Decided(x, y)
      <4>1. x \notin Contested
        BY <3>4, <3>5
      <4>2. ~ \E k2 \in DOMAIN store.conflicts :
                store.conflicts[k2].status = "OPEN" /\ {x, y} \subseteq store.conflicts[k2].members
        BY <4>1 DEF Contested
      <4>3. QED
        BY <1>1, <3>5, <4>2 DEF NoSilentContradiction, Decided
    <3>6. /\ pack.weight <= budget
          /\ pack.omitted = Cardinality({c \in Active(store) \ Contested : <<"claims", c>> \notin pack.claims})
          /\ \A x, y \in Active(store) :
               /\ {<<"claims", x>>, <<"claims", y>>} \subseteq pack.claims
               /\ x # y /\ Claim[x].family = Claim[y].family
               /\ ConflictKind(Claim[x], Claim[y]) # NONE
               => Decided(x, y)
          /\ \A x \in Contested : <<"claims", x>> \notin pack.claims
      BY <3>1, <3>3, <3>4, <3>5, <3>a
    <3>7. QED
      BY <3>6 DEF PackHidesNothing, Contested
  <2>3. ASSUME NEW k \in DOMAIN store.conflicts, NEW c \in store.conflicts[k].members
        PROVE SourcedInIncident(k, c)
    <3>a. PICK x : x = <<"conflicts", k>>
      OBVIOUS
    <3>b. PICK y : y = <<"claims", c>>
      OBVIOUS
    <3>1. Related(x) = {<<"claims", d>> : d \in store.conflicts[k].members}
      BY <3>a DEF Related, RowOf
    <3>2. y \in Related(x)
      BY <3>1, <3>b
    <3>3. c \in DOMAIN store.claims
      BY <1>1 DEF KernelInv, Accounted, Good, Founded
    <3>4. PICK l \in DOMAIN store.evidence : Link[l].claim = c
      BY <1>1, <3>3 DEF SourcedInv, Sourced
    <3>5. /\ store.evidence[l] = [claim |-> Link[l].claim, source |-> Link[l].source]
          /\ Link[l].source \in DOMAIN store.sources
      BY <1>1 DEF SourcedInv, Sourced
    <3>6. store.evidence[l].claim = c /\ store.evidence[l].source = Link[l].source
      BY <3>4, <3>5
    <3>7. <<"sources", Link[l].source>> \in SourcesOf(y)
      BY <3>6, <3>b DEF SourcesOf
    <3>8. y \in Incident(x) /\ <<"sources", Link[l].source>> \in Incident(x)
      BY <3>2, <3>7 DEF Incident
    <3>9. QED
      BY <3>5, <3>6, <3>8, <3>a, <3>b DEF SourcedInIncident
  <2>4. QED
    BY <2>2, <2>3 DEF BothSidesShown
<1>2. Spec => []SourcedInv
  BY SourcedInit, SourcedStep, KernelInvariant, PTL DEF Spec
<1>3. QED
  BY <1>1, <1>2, KernelInvariant, ContradictionsShow, PTL

-----------------------------------------------------------------------------
(* What a hint makes of a proposal.                                        *)

LEMMA PreconditionIs ==
  ASSUME NEW p
  PROVE /\ \A r : <<"read", r>> \in Preconditions(p) <=> r \in DOMAIN p.reads /\ r[1] # "sources"
        /\ \A f : <<"set", f>> \in Preconditions(p) <=> f \in DOMAIN p.sets
        /\ \A g : <<"guard", g>> \in Preconditions(p) <=> g \in p.guards /\ g.op \in GuardsRead
        /\ \A i : <<"digest", i>> \in Preconditions(p) <=> i \in Resolving(p)
        /\ \A i : <<"epoch", i>> \in Preconditions(p) <=> i \in Resolving(p)
        /\ \A at \in Preconditions(p) :
             \/ \E r : at = <<"read", r>>
             \/ \E f : at = <<"set", f>>
             \/ \E g : at = <<"guard", g>>
             \/ \E i : at = <<"digest", i>> \/ at = <<"epoch", i>>
BY DEF Preconditions

\* The preconditions about an aggregate.
About(p, a) == {at \in Preconditions(p) : Aggregate(p, at) = a}
Now(p, s, a, at, was) == IF at \in About(p, a) THEN Actual(s, a, Field(at)) ELSE was
Renewed(p, s, a, g) ==
  IF <<"guard", g>> \in About(p, a)
  THEN [g EXCEPT !.expected = Now(p, s, a, <<"guard", g>>, g.expected)] ELSE g

Readied(p, s, a, i) ==
  IF i \notin Resolving(p) THEN p.ops[i]
  ELSE [p.ops[i] EXCEPT !.digest = Now(p, s, a, <<"digest", i>>, p.ops[i].digest),
                        !.epoch = Now(p, s, a, <<"epoch", i>>, p.ops[i].epoch)]

\* A proposal q that is p with the replacements for a.
Rewritten(p, s, a, q) ==
  /\ DOMAIN q = DOMAIN p
  /\ DOMAIN q.reads = DOMAIN p.reads
  /\ \A r \in DOMAIN p.reads : q.reads[r] = Now(p, s, a, <<"read", r>>, p.reads[r])
  /\ DOMAIN q.sets = DOMAIN p.sets
  /\ \A f \in DOMAIN p.sets : q.sets[f] = Now(p, s, a, <<"set", f>>, p.sets[f])
  /\ \A g \in p.guards : Renewed(p, s, a, g) \in q.guards
  /\ \A h \in q.guards : \E g \in p.guards : h = Renewed(p, s, a, g)
  /\ IsFiniteSet(q.guards)
  /\ q.ops = [i \in DOMAIN p.ops |-> q.ops[i]]
  /\ \A i \in DOMAIN p.ops : q.ops[i] = Readied(p, s, a, i)

LEMMA RebasedIs ==
  ASSUME NEW p, FitsSchema(p), NEW s, NEW a, Known(s, a)
  PROVE Rewritten(p, s, a, Rebased(p, s, a))
<1>a. PICK q : q = Rebased(p, s, a)
  OBVIOUS
<1>1. {"ops", "reads", "sets", "guards"} \subseteq DOMAIN p /\ IsFiniteSet(p.guards)
  BY DEF FitsSchema
<1> DEFINE reads == [r \in DOMAIN p.reads |-> Now(p, s, a, <<"read", r>>, p.reads[r])]
           sets == [f \in DOMAIN p.sets |-> Now(p, s, a, <<"set", f>>, p.sets[f])]
           guards == {Renewed(p, s, a, g) : g \in p.guards}
           ops == [i \in DOMAIN p.ops |-> Readied(p, s, a, i)]
<1>2. q = [p EXCEPT !.reads = reads, !.sets = sets, !.guards = guards, !.ops = ops]
  BY <1>a DEF Rebased, About, Now, Renewed, Readied
<1>3. /\ DOMAIN q = DOMAIN p
      /\ q.reads = reads /\ q.sets = sets /\ q.guards = guards /\ q.ops = ops
  <2> HIDE DEF reads, sets, guards, ops
  <2> QED BY <1>1, <1>2
<1>4. IsFiniteSet(guards)
  <2>1. [g \in p.guards |-> Renewed(p, s, a, g)] \in Surjection(p.guards, guards)
    BY DEF Surjection
  <2>2. QED
    <3> HIDE DEF guards
    <3> QED BY <1>1, <2>1, FS_Surjection
<1>5. QED
  BY <1>3, <1>4, <1>a DEF Rewritten

LEMMA RenewedIs ==
  ASSUME NEW p, FitsSchema(p), NEW s, NEW a, NEW g \in p.guards, NEW h, h = Renewed(p, s, a, g)
  PROVE /\ <<"guard", g>> \notin About(p, a) => h = g
        /\ <<"guard", g>> \in About(p, a) =>
             /\ DOMAIN h = DOMAIN g /\ h.expected = Actual(s, a, Field(<<"guard", g>>))
             /\ \A x \in DOMAIN g \ {"expected"} : h[x] = g[x]
             /\ g.op \in GuardsRead
             /\ h.op = g.op
             /\ g.op \in {"STATUS_EQ", "VERSION_EQ"} => h.table = g.table /\ h.id = g.id
             /\ g.op = "CONFLICT_MEMBER_DIGEST_EQ" => h.id = g.id
             /\ g.op = "ACTIVE_SET_DIGEST_EQ" => h.family = g.family
<1>1. CASE <<"guard", g>> \in About(p, a)
  <2>a. PICK v : v = Actual(s, a, Field(<<"guard", g>>))
    OBVIOUS
  <2>1. g.op \in GuardsRead
    BY <1>1, PreconditionIs DEF About
  <2>2. /\ {"op", "expected"} \subseteq DOMAIN g
        /\ g.op \in {"STATUS_EQ", "VERSION_EQ"} => {"table", "id"} \subseteq DOMAIN g
        /\ g.op = "CONFLICT_MEMBER_DIGEST_EQ" => "id" \in DOMAIN g
        /\ g.op = "ACTIVE_SET_DIGEST_EQ" => "family" \in DOMAIN g
    BY <2>1 DEF FitsSchema
  <2>3. h = [g EXCEPT !.expected = v]
    BY <1>1, <2>a DEF Renewed, Now
  <2>4. /\ DOMAIN h = DOMAIN g /\ h.expected = v
        /\ \A x \in DOMAIN g \ {"expected"} : h[x] = g[x]
    BY <2>2, <2>3
  <2>5. QED
    BY <1>1, <2>1, <2>2, <2>4, <2>a
<1>2. CASE <<"guard", g>> \notin About(p, a)
  BY <1>2 DEF Renewed
<1>3. QED
  BY <1>1, <1>2

\* The operations of a proposal p, renewed in q.
SameOps(p, s, a, q) ==
  /\ DOMAIN q.ops = DOMAIN p.ops /\ Len(q.ops) = Len(p.ops) /\ Resolving(q) = Resolving(p)
  /\ \A i \in DOMAIN p.ops :
       /\ q.ops[i].op = p.ops[i].op
       /\ i \notin Resolving(p) => q.ops[i] = p.ops[i]
       /\ i \in Resolving(p) =>
            /\ DOMAIN q.ops[i] = DOMAIN p.ops[i] /\ q.ops[i].conflict = p.ops[i].conflict
            /\ q.ops[i].digest = Now(p, s, a, <<"digest", i>>, p.ops[i].digest)
            /\ q.ops[i].epoch = Now(p, s, a, <<"epoch", i>>, p.ops[i].epoch)

LEMMA RebasedOps ==
  ASSUME NEW p, FitsSchema(p), NEW s, NEW a, NEW q, Rewritten(p, s, a, q)
  PROVE SameOps(p, s, a, q)
<1>1. /\ q.ops = [i \in DOMAIN p.ops |-> q.ops[i]]
      /\ \A i \in DOMAIN p.ops : q.ops[i] = Readied(p, s, a, i)
  BY DEF Rewritten
<1>2. DOMAIN q.ops = DOMAIN p.ops
  BY <1>1
<1>3. ASSUME NEW i \in DOMAIN p.ops
      PROVE /\ q.ops[i].op = p.ops[i].op
            /\ i \notin Resolving(p) => q.ops[i] = p.ops[i]
            /\ i \in Resolving(p) =>
                 /\ DOMAIN q.ops[i] = DOMAIN p.ops[i] /\ q.ops[i].conflict = p.ops[i].conflict
                 /\ q.ops[i].digest = Now(p, s, a, <<"digest", i>>, p.ops[i].digest)
                 /\ q.ops[i].epoch = Now(p, s, a, <<"epoch", i>>, p.ops[i].epoch)
  <2>1. CASE i \notin Resolving(p)
    BY <1>1, <2>1 DEF Readied
  <2>2. CASE i \in Resolving(p)
    <3>a. PICK op : op = p.ops[i]
      OBVIOUS
    <3>b. PICK d : d = Now(p, s, a, <<"digest", i>>, op.digest)
      OBVIOUS
    <3>c. PICK e : e = Now(p, s, a, <<"epoch", i>>, op.epoch)
      OBVIOUS
    <3>1. {"op", "conflict", "digest", "epoch"} \subseteq DOMAIN op
      BY <2>2, <3>a DEF FitsSchema
    <3>2. q.ops[i] = [op EXCEPT !.digest = d, !.epoch = e]
      BY <1>1, <2>2, <3>a, <3>b, <3>c DEF Readied
    <3>3. /\ DOMAIN q.ops[i] = DOMAIN op /\ q.ops[i].op = op.op /\ q.ops[i].conflict = op.conflict
          /\ q.ops[i].digest = d /\ q.ops[i].epoch = e
      BY <3>1, <3>2
    <3>4. QED
      BY <2>2, <3>3, <3>a, <3>b, <3>c
  <2>3. QED
    BY <2>1, <2>2
<1>4. Resolving(q) = Resolving(p)
  BY <1>2, <1>3 DEF Resolving
<1>5. Len(q.ops) = Len(p.ops)
  <2>a. PICK n : n = Len(p.ops)
    OBVIOUS
  <2>b. PICK list : list = q.ops
    OBVIOUS
  <2>1. n \in Nat /\ DOMAIN list = 1 .. n /\ list = [i \in 1 .. n |-> list[i]]
    BY <1>1, <2>a, <2>b DEF FitsSchema, WellFormed
  <2> DEFINE T == {list[i] : i \in 1 .. n}
  <2>2. list \in [1 .. n -> T]
    BY <2>1
  <2>3. list \in Seq(T) /\ Len(list) = n
    <3> HIDE DEF T
    <3> QED BY <2>1, <2>2
  <2>4. QED
    BY <2>3, <2>a, <2>b
<1>6. QED
  BY <1>2, <1>3, <1>4, <1>5 DEF SameOps

LEMMA RebasedFits ==
  ASSUME NEW p, FitsSchema(p), NEW s, NEW a, NEW q, Rewritten(p, s, a, q)
  PROVE FitsSchema(q)
<1>1. /\ DOMAIN q = DOMAIN p /\ DOMAIN q.reads = DOMAIN p.reads /\ DOMAIN q.sets = DOMAIN p.sets
      /\ \A h \in q.guards : \E g \in p.guards : h = Renewed(p, s, a, g)
      /\ IsFiniteSet(q.guards)
  BY DEF Rewritten
<1>2. /\ DOMAIN q.ops = DOMAIN p.ops /\ Len(q.ops) = Len(p.ops) /\ Resolving(q) = Resolving(p)
      /\ \A i \in DOMAIN p.ops : q.ops[i].op = p.ops[i].op
      /\ \A i \in Resolving(p) : DOMAIN q.ops[i] = DOMAIN p.ops[i]
  <2>1. Resolving(p) \subseteq DOMAIN p.ops
    BY DEF Resolving
  <2>2. SameOps(p, s, a, q)
    BY RebasedOps
  <2>3. QED
    BY <2>1, <2>2 DEF SameOps
<1>3. WellFormed(q)
  BY <1>2 DEF FitsSchema, WellFormed
<1>4. ASSUME NEW h \in q.guards, h.op \in GuardsRead
      PROVE /\ {"op", "expected"} \subseteq DOMAIN h
            /\ h.op \in {"STATUS_EQ", "VERSION_EQ"} =>
                 {"table", "id"} \subseteq DOMAIN h /\ h.table # "family"
            /\ h.op = "CONFLICT_MEMBER_DIGEST_EQ" => "id" \in DOMAIN h
            /\ h.op = "ACTIVE_SET_DIGEST_EQ" => "family" \in DOMAIN h
  <2>1. PICK g \in p.guards : h = Renewed(p, s, a, g)
    BY <1>1
  <2>2. CASE <<"guard", g>> \in About(p, a)
    <3>1. /\ DOMAIN h = DOMAIN g /\ g.op \in GuardsRead /\ h.op = g.op
          /\ g.op \in {"STATUS_EQ", "VERSION_EQ"} => h.table = g.table
      BY <2>1, <2>2, RenewedIs
    <3>2. QED
      BY <3>1 DEF FitsSchema
  <2>3. CASE <<"guard", g>> \notin About(p, a)
    <3>1. h = g
      BY <2>1, <2>3, RenewedIs
    <3>2. QED
      BY <1>4, <3>1 DEF FitsSchema
  <2>4. QED
    BY <2>2, <2>3
<1>5. \A r \in DOMAIN q.reads : r[1] # "family"
  BY <1>1 DEF FitsSchema
<1>6. \A i \in Resolving(q) : {"op", "conflict", "digest", "epoch"} \subseteq DOMAIN q.ops[i]
  BY <1>2 DEF FitsSchema
<1>7. /\ {"ops", "reads", "sets", "guards"} \subseteq DOMAIN q
      /\ IsFiniteSet(DOMAIN q.reads) /\ IsFiniteSet(DOMAIN q.sets)
  BY <1>1 DEF FitsSchema
<1>8. QED
  BY <1>1, <1>3, <1>4, <1>5, <1>6, <1>7 DEF FitsSchema

\* What a precondition is about, field by field.
LEMMA ReadParts ==
  ASSUME NEW p, NEW r
  PROVE /\ Aggregate(p, <<"read", r>>) = r /\ Field(<<"read", r>>) = "version"
        /\ Expected(p, <<"read", r>>) = p.reads[r]
BY DEF Aggregate, Field, Expected

LEMMA SetParts ==
  ASSUME NEW p, NEW f
  PROVE /\ Aggregate(p, <<"set", f>>) = <<"family", f>> /\ Field(<<"set", f>>) = "members"
        /\ Expected(p, <<"set", f>>) = p.sets[f]
BY DEF Aggregate, Field, Expected

LEMMA ResolutionParts ==
  ASSUME NEW p, NEW i
  PROVE /\ Aggregate(p, <<"digest", i>>) = <<"conflicts", p.ops[i].conflict>>
        /\ Aggregate(p, <<"epoch", i>>) = <<"conflicts", p.ops[i].conflict>>
        /\ Field(<<"digest", i>>) = "members" /\ Field(<<"epoch", i>>) = "episode"
        /\ Expected(p, <<"digest", i>>) = p.ops[i].digest
        /\ Expected(p, <<"epoch", i>>) = p.ops[i].epoch
BY DEF Aggregate, Field, Expected

LEMMA GuardParts ==
  ASSUME NEW p, NEW g
  PROVE /\ Expected(p, <<"guard", g>>) = g.expected
        /\ g.op \in {"STATUS_EQ", "VERSION_EQ"} =>
             /\ Aggregate(p, <<"guard", g>>) = <<g.table, g.id>>
             /\ Field(<<"guard", g>>) = IF g.op = "STATUS_EQ" THEN "status" ELSE "version"
        /\ g.op = "CONFLICT_MEMBER_DIGEST_EQ" =>
             Aggregate(p, <<"guard", g>>) = <<"conflicts", g.id>> /\ Field(<<"guard", g>>) = "members"
        /\ g.op = "ACTIVE_SET_DIGEST_EQ" =>
             Aggregate(p, <<"guard", g>>) = <<"family", g.family>> /\ Field(<<"guard", g>>) = "members"
BY DEF Aggregate, Field, Expected

\* What the precondition at of p has become, bt of q.
Becomes(p, s, a, q, at, bt) ==
  /\ Aggregate(q, bt) = Aggregate(p, at) /\ Field(bt) = Field(at)
  /\ Expected(q, bt) = IF Aggregate(p, at) = a THEN Actual(s, a, Field(at)) ELSE Expected(p, at)

LEMMA GuardBecomes ==
  ASSUME NEW p, FitsSchema(p), NEW s, NEW a, NEW q,
         NEW g \in p.guards, g.op \in GuardsRead, NEW h, h = Renewed(p, s, a, g)
  PROVE h.op = g.op /\ Becomes(p, s, a, q, <<"guard", g>>, <<"guard", h>>)
<1>1. <<"guard", g>> \in About(p, a) <=> Aggregate(p, <<"guard", g>>) = a
  BY PreconditionIs DEF About
<1>a. PICK A, B, F, G, X, Y :
        /\ A = Aggregate(p, <<"guard", g>>) /\ B = Aggregate(q, <<"guard", h>>)
        /\ F = Field(<<"guard", g>>) /\ G = Field(<<"guard", h>>)
        /\ X = Expected(p, <<"guard", g>>) /\ Y = Expected(q, <<"guard", h>>)
  OBVIOUS
<1>b. /\ X = g.expected
      /\ g.op \in {"STATUS_EQ", "VERSION_EQ"} =>
           A = <<g.table, g.id>> /\ F = IF g.op = "STATUS_EQ" THEN "status" ELSE "version"
      /\ g.op = "CONFLICT_MEMBER_DIGEST_EQ" => A = <<"conflicts", g.id>> /\ F = "members"
      /\ g.op = "ACTIVE_SET_DIGEST_EQ" => A = <<"family", g.family>> /\ F = "members"
  BY <1>a, GuardParts
<1>c. /\ Y = h.expected
      /\ h.op \in {"STATUS_EQ", "VERSION_EQ"} =>
           B = <<h.table, h.id>> /\ G = IF h.op = "STATUS_EQ" THEN "status" ELSE "version"
      /\ h.op = "CONFLICT_MEMBER_DIGEST_EQ" => B = <<"conflicts", h.id>> /\ G = "members"
      /\ h.op = "ACTIVE_SET_DIGEST_EQ" => B = <<"family", h.family>> /\ G = "members"
  BY <1>a, GuardParts
<1>2. CASE <<"guard", g>> \in About(p, a)
  <2>1. /\ h.expected = Actual(s, a, F) /\ h.op = g.op
        /\ g.op \in {"STATUS_EQ", "VERSION_EQ"} => h.table = g.table /\ h.id = g.id
        /\ g.op = "CONFLICT_MEMBER_DIGEST_EQ" => h.id = g.id
        /\ g.op = "ACTIVE_SET_DIGEST_EQ" => h.family = g.family
    BY <1>2, <1>a, RenewedIs
  <2>2. B = A /\ G = F
    BY <1>b, <1>c, <2>1 DEF GuardsRead
  <2>3. QED
    BY <1>1, <1>2, <1>a, <1>c, <2>1, <2>2 DEF Becomes
<1>3. CASE <<"guard", g>> \notin About(p, a)
  <2>1. h = g
    BY <1>3, RenewedIs
  <2>2. B = A /\ G = F /\ Y = X
    BY <1>b, <1>c, <2>1 DEF GuardsRead
  <2>3. QED
    BY <1>1, <1>3, <1>a, <2>1, <2>2 DEF Becomes
<1>4. QED
  BY <1>2, <1>3

LEMMA ReadBecomes ==
  ASSUME NEW p, FitsSchema(p), NEW s, NEW a, NEW q, Rewritten(p, s, a, q),
         NEW r \in DOMAIN p.reads, r[1] # "sources"
  PROVE Becomes(p, s, a, q, <<"read", r>>, <<"read", r>>)
<1>1. <<"read", r>> \in About(p, a) <=> r = a
  BY PreconditionIs, ReadParts DEF About
<1>2. q.reads[r] = Now(p, s, a, <<"read", r>>, p.reads[r])
  BY DEF Rewritten
<1>3. QED
  BY <1>1, <1>2, ReadParts DEF Becomes, Now

LEMMA SetBecomes ==
  ASSUME NEW p, FitsSchema(p), NEW s, NEW a, NEW q, Rewritten(p, s, a, q), NEW f \in DOMAIN p.sets
  PROVE Becomes(p, s, a, q, <<"set", f>>, <<"set", f>>)
<1>1. <<"set", f>> \in About(p, a) <=> <<"family", f>> = a
  BY PreconditionIs, SetParts DEF About
<1>2. q.sets[f] = Now(p, s, a, <<"set", f>>, p.sets[f])
  BY DEF Rewritten
<1>3. QED
  BY <1>1, <1>2, SetParts DEF Becomes, Now

LEMMA ResolutionBecomes ==
  ASSUME NEW p, FitsSchema(p), NEW s, NEW a, NEW q, Rewritten(p, s, a, q),
         NEW i \in Resolving(p)
  PROVE /\ Becomes(p, s, a, q, <<"digest", i>>, <<"digest", i>>)
        /\ Becomes(p, s, a, q, <<"epoch", i>>, <<"epoch", i>>)
<1>1. /\ <<"digest", i>> \in About(p, a) <=> <<"conflicts", p.ops[i].conflict>> = a
      /\ <<"epoch", i>> \in About(p, a) <=> <<"conflicts", p.ops[i].conflict>> = a
  BY PreconditionIs, ResolutionParts DEF About
<1>2. /\ q.ops[i].conflict = p.ops[i].conflict
      /\ q.ops[i].digest = Now(p, s, a, <<"digest", i>>, p.ops[i].digest)
      /\ q.ops[i].epoch = Now(p, s, a, <<"epoch", i>>, p.ops[i].epoch)
  <2>1. SameOps(p, s, a, q)
    BY RebasedOps
  <2>2. QED
    BY <2>1 DEF SameOps, Resolving
<1>3. Becomes(p, s, a, q, <<"digest", i>>, <<"digest", i>>)
  BY <1>1, <1>2, ResolutionParts DEF Becomes, Now
<1>4. Becomes(p, s, a, q, <<"epoch", i>>, <<"epoch", i>>)
  BY <1>1, <1>2, ResolutionParts DEF Becomes, Now
<1>5. QED
  BY <1>3, <1>4

\* Every precondition becomes one of the rewritten proposal, and it has no others.
LEMMA Paired ==
  ASSUME NEW p, FitsSchema(p), NEW s, NEW a, NEW q, Rewritten(p, s, a, q)
  PROVE /\ \A at \in Preconditions(p) : \E bt \in Preconditions(q) : Becomes(p, s, a, q, at, bt)
        /\ \A bt \in Preconditions(q) : \E at \in Preconditions(p) : Becomes(p, s, a, q, at, bt)
<1>1. DOMAIN q.reads = DOMAIN p.reads /\ DOMAIN q.sets = DOMAIN p.sets
  BY DEF Rewritten
<1>2. Resolving(q) = Resolving(p)
  <2>1. SameOps(p, s, a, q)
    BY RebasedOps
  <2>2. QED
    BY <2>1 DEF SameOps
<1>3. ASSUME NEW g \in p.guards, g.op \in GuardsRead
      PROVE \E h \in q.guards : h.op = g.op /\ Becomes(p, s, a, q, <<"guard", g>>, <<"guard", h>>)
  <2>a. PICK h : h = Renewed(p, s, a, g)
    OBVIOUS
  <2>1. h \in q.guards
    BY <2>a DEF Rewritten
  <2>2. h.op = g.op /\ Becomes(p, s, a, q, <<"guard", g>>, <<"guard", h>>)
    BY <1>3, <2>a, GuardBecomes
  <2>3. QED
    BY <2>1, <2>2
<1>4. ASSUME NEW h \in q.guards, h.op \in GuardsRead
      PROVE \E g \in p.guards : g.op = h.op /\ Becomes(p, s, a, q, <<"guard", g>>, <<"guard", h>>)
  <2>1. PICK g \in p.guards : h = Renewed(p, s, a, g)
    BY DEF Rewritten
  <2>2. g.op \in GuardsRead
    <3>1. CASE <<"guard", g>> \in About(p, a)
      BY <3>1, PreconditionIs DEF About
    <3>2. CASE <<"guard", g>> \notin About(p, a)
      BY <1>4, <2>1, <3>2 DEF Renewed
    <3>3. QED
      BY <3>1, <3>2
  <2>3. h.op = g.op /\ Becomes(p, s, a, q, <<"guard", g>>, <<"guard", h>>)
    BY <2>1, <2>2, GuardBecomes
  <2>4. QED
    BY <2>3
<1>5. ASSUME NEW at \in Preconditions(p)
      PROVE \E bt \in Preconditions(q) : Becomes(p, s, a, q, at, bt)
  <2>1. CASE \E r : at = <<"read", r>>
    <3>1. PICK r : at = <<"read", r>>
      BY <2>1
    <3>2. r \in DOMAIN p.reads /\ r[1] # "sources"
      BY <1>5, <3>1, PreconditionIs
    <3>3. at \in Preconditions(q)
      BY <1>1, <3>1, <3>2, PreconditionIs
    <3>4. QED
      BY <3>1, <3>2, <3>3, ReadBecomes
  <2>2. CASE \E f : at = <<"set", f>>
    <3>1. PICK f : at = <<"set", f>>
      BY <2>2
    <3>2. f \in DOMAIN p.sets
      BY <1>5, <3>1, PreconditionIs
    <3>3. at \in Preconditions(q)
      BY <1>1, <3>1, <3>2, PreconditionIs
    <3>4. QED
      BY <3>1, <3>2, <3>3, SetBecomes
  <2>3. CASE \E g : at = <<"guard", g>>
    <3>1. PICK g : at = <<"guard", g>>
      BY <2>3
    <3>2. g \in p.guards /\ g.op \in GuardsRead
      BY <1>5, <3>1, PreconditionIs
    <3>3. PICK h \in q.guards : h.op = g.op /\ Becomes(p, s, a, q, <<"guard", g>>, <<"guard", h>>)
      BY <1>3, <3>2
    <3>4. <<"guard", h>> \in Preconditions(q)
      BY <3>2, <3>3, PreconditionIs
    <3>5. QED
      BY <3>1, <3>3, <3>4
  <2>4. CASE \E i : at = <<"digest", i>> \/ at = <<"epoch", i>>
    <3>1. PICK i : at = <<"digest", i>> \/ at = <<"epoch", i>>
      BY <2>4
    <3>2. i \in Resolving(p)
      BY <1>5, <3>1, PreconditionIs
    <3>3. at \in Preconditions(q)
      BY <1>2, <3>1, <3>2, PreconditionIs
    <3>4. QED
      BY <3>1, <3>2, <3>3, ResolutionBecomes
  <2>5. QED
    BY <1>5, <2>1, <2>2, <2>3, <2>4, PreconditionIs
<1>6. ASSUME NEW bt \in Preconditions(q)
      PROVE \E at \in Preconditions(p) : Becomes(p, s, a, q, at, bt)
  <2>1. CASE \E r : bt = <<"read", r>>
    <3>1. PICK r : bt = <<"read", r>>
      BY <2>1
    <3>2. r \in DOMAIN p.reads /\ r[1] # "sources"
      BY <1>1, <1>6, <3>1, PreconditionIs
    <3>3. bt \in Preconditions(p)
      BY <3>1, <3>2, PreconditionIs
    <3>4. QED
      BY <3>1, <3>2, <3>3, ReadBecomes
  <2>2. CASE \E f : bt = <<"set", f>>
    <3>1. PICK f : bt = <<"set", f>>
      BY <2>2
    <3>2. f \in DOMAIN p.sets
      BY <1>1, <1>6, <3>1, PreconditionIs
    <3>3. bt \in Preconditions(p)
      BY <3>1, <3>2, PreconditionIs
    <3>4. QED
      BY <3>1, <3>2, <3>3, SetBecomes
  <2>3. CASE \E h : bt = <<"guard", h>>
    <3>1. PICK h : bt = <<"guard", h>>
      BY <2>3
    <3>2. h \in q.guards /\ h.op \in GuardsRead
      BY <1>6, <3>1, PreconditionIs
    <3>3. PICK g \in p.guards : g.op = h.op /\ Becomes(p, s, a, q, <<"guard", g>>, <<"guard", h>>)
      BY <1>4, <3>2
    <3>4. <<"guard", g>> \in Preconditions(p)
      BY <3>2, <3>3, PreconditionIs
    <3>5. QED
      BY <3>1, <3>3, <3>4
  <2>4. CASE \E i : bt = <<"digest", i>> \/ bt = <<"epoch", i>>
    <3>1. PICK i : bt = <<"digest", i>> \/ bt = <<"epoch", i>>
      BY <2>4
    <3>2. i \in Resolving(p)
      BY <1>2, <1>6, <3>1, PreconditionIs
    <3>3. bt \in Preconditions(p)
      BY <3>1, <3>2, PreconditionIs
    <3>4. QED
      BY <3>1, <3>2, <3>3, ResolutionBecomes
  <2>5. QED
    BY <1>6, <2>1, <2>2, <2>3, <2>4, PreconditionIs
<1>7. QED
  BY <1>5, <1>6

\* A hint is complete.
LEMMA HintIsComplete ==
  ASSUME NEW p, FitsSchema(p), NEW s, NEW a, Known(s, a), NEW q, Rewritten(p, s, a, q)
  PROVE HintedAggregates(q, s) = HintedAggregates(p, s) \ {a}
<1>1. ASSUME NEW at \in Preconditions(p), NEW bt \in Preconditions(q), Becomes(p, s, a, q, at, bt)
      PROVE /\ Aggregate(q, bt) = Aggregate(p, at)
            /\ bt \in Failing(q, s) <=> at \in Failing(p, s) /\ Aggregate(p, at) # a
  BY <1>1 DEF Becomes, Failing
<1>2. ASSUME NEW x \in HintedAggregates(p, s), x # a PROVE x \in HintedAggregates(q, s)
  <2>1. PICK at \in Failing(p, s) : x = Aggregate(p, at)
    BY DEF HintedAggregates
  <2>2. at \in Preconditions(p)
    BY DEF Failing
  <2>3. PICK bt \in Preconditions(q) : Becomes(p, s, a, q, at, bt)
    BY <2>2, Paired
  <2>4. Aggregate(q, bt) = x /\ bt \in Failing(q, s)
    BY <1>1, <1>2, <2>1, <2>2, <2>3
  <2>5. QED
    BY <2>4 DEF HintedAggregates
<1>3. ASSUME NEW x \in HintedAggregates(q, s) PROVE x \in HintedAggregates(p, s) /\ x # a
  <2>1. PICK bt \in Failing(q, s) : x = Aggregate(q, bt)
    BY DEF HintedAggregates
  <2>2. bt \in Preconditions(q)
    BY DEF Failing
  <2>3. PICK at \in Preconditions(p) : Becomes(p, s, a, q, at, bt)
    BY <2>2, Paired
  <2>4. Aggregate(p, at) = x /\ at \in Failing(p, s) /\ x # a
    BY <1>1, <2>1, <2>2, <2>3
  <2>5. QED
    BY <2>4 DEF HintedAggregates
<1>4. QED
  BY <1>2, <1>3

\* What no hint tells stays what no hint tells.
LEMMA UntoldStays ==
  ASSUME NEW p, FitsSchema(p), NEW s, NEW a, NEW q, Rewritten(p, s, a, q), Untold(q, s)
  PROVE Untold(p, s)
<1>a. SameOps(p, s, a, q)
  BY RebasedOps
<1>1. ASSUME NEW bt \in Preconditions(q), ~Known(s, Aggregate(q, bt)) PROVE Untold(p, s)
  <2>1. PICK at \in Preconditions(p) : Becomes(p, s, a, q, at, bt)
    BY Paired
  <2>2. QED
    BY <1>1, <2>1 DEF Becomes, Untold
<1>2. ASSUME NEW r \in DOMAIN q.reads, r[1] = "sources", ~ReadHolds(s, r, q.reads[r]) PROVE Untold(p, s)
  <2>1. <<"read", r>> \notin About(p, a)
    BY <1>2, PreconditionIs DEF About
  <2>2. r \in DOMAIN p.reads /\ q.reads[r] = p.reads[r]
    BY <2>1 DEF Rewritten, Now
  <2>3. QED
    BY <1>2, <2>2 DEF Untold
<1>3. ASSUME NEW h \in q.guards, h.op \notin GuardsRead, ~GuardHolds(s, h) PROVE Untold(p, s)
  <2>1. PICK g \in p.guards : h = Renewed(p, s, a, g)
    BY DEF Rewritten
  <2>2. <<"guard", g>> \notin About(p, a) /\ h = g
    BY <1>3, <2>1, RenewedIs
  <2>3. QED
    BY <1>3, <2>2 DEF Untold
<1>4. ASSUME NEW i \in DOMAIN q.ops, NEW r \in Targets(q.ops[i]),
             ~Known(s, r) \/ (r[1] # "work" /\ s[r[1]][r[2]].status # Unclosed[r[1]])
      PROVE Untold(p, s)
  <2>1. i \in DOMAIN p.ops /\ q.ops[i].op = p.ops[i].op
    BY <1>a DEF SameOps
  <2>2. r \in Targets(p.ops[i])
    <3>1. CASE i \in Resolving(p)
      <4>1. /\ p.ops[i].op = "RESOLVE_CONFLICT" /\ q.ops[i].op = "RESOLVE_CONFLICT"
            /\ q.ops[i].conflict = p.ops[i].conflict
        BY <1>a, <2>1, <3>1 DEF SameOps, Resolving
      <4>2. QED
        BY <4>1 DEF Targets, RequiredReads
    <3>2. CASE i \notin Resolving(p)
      BY <1>a, <2>1, <3>2 DEF SameOps
    <3>3. QED
      BY <3>1, <3>2
  <2>3. QED
    BY <1>4, <2>1, <2>2 DEF Untold
<1>5. {i \in DOMAIN q.ops : q.ops[i].op # "REGISTER_SOURCE_REVISION"}
        = {i \in DOMAIN p.ops : p.ops[i].op # "REGISTER_SOURCE_REVISION"}
  BY <1>a DEF SameOps
<1>6. QED
  BY <1>1, <1>2, <1>3, <1>4, <1>5 DEF Untold

\* Only finitely many aggregates can have moved.
LEMMA HintsAreFew ==
  ASSUME NEW p, FitsSchema(p), NEW s
  PROVE IsFiniteSet(HintedAggregates(p, s))
<1> DEFINE reads == {r \in DOMAIN p.reads : r[1] # "sources"}
           guards == {g \in p.guards : g.op \in GuardsRead}
           R == {<<"read", r>> : r \in reads}
           S == {<<"set", f>> : f \in DOMAIN p.sets}
           G == {<<"guard", g>> : g \in guards}
           parts == {"digest", "epoch"}
           O == parts \X Resolving(p)
<1>1. IsFiniteSet(reads) /\ IsFiniteSet(DOMAIN p.sets) /\ IsFiniteSet(guards)
  <2>1. /\ IsFiniteSet(DOMAIN p.reads) /\ IsFiniteSet(DOMAIN p.sets) /\ IsFiniteSet(p.guards)
        /\ reads \in SUBSET DOMAIN p.reads /\ guards \in SUBSET p.guards
    BY DEF FitsSchema
  <2> HIDE DEF reads, guards
  <2>2. QED
    BY <2>1, FS_Subset
<1>2. IsFiniteSet(R)
  <2>1. [r \in reads |-> <<"read", r>>] \in Surjection(reads, R)
    <3> HIDE DEF reads
    <3> QED BY DEF Surjection
  <2> HIDE DEF reads, R
  <2>2. QED
    BY <1>1, <2>1, FS_Surjection
<1>3. IsFiniteSet(S)
  <2>1. [f \in DOMAIN p.sets |-> <<"set", f>>] \in Surjection(DOMAIN p.sets, S)
    BY DEF Surjection
  <2> HIDE DEF S
  <2>2. QED
    BY <1>1, <2>1, FS_Surjection
<1>4. IsFiniteSet(G)
  <2>1. [g \in guards |-> <<"guard", g>>] \in Surjection(guards, G)
    <3> HIDE DEF guards
    <3> QED BY DEF Surjection
  <2> HIDE DEF guards, G
  <2>2. QED
    BY <1>1, <2>1, FS_Surjection
<1>5. IsFiniteSet(O)
  <2>1. Len(p.ops) \in Nat /\ DOMAIN p.ops = 1 .. Len(p.ops)
    BY DEF FitsSchema, WellFormed
  <2>2. IsFiniteSet(DOMAIN p.ops)
    BY <2>1, FS_Interval
  <2>3. Resolving(p) \in SUBSET DOMAIN p.ops
    BY DEF Resolving
  <2>4. IsFiniteSet(Resolving(p))
    BY <2>2, <2>3, FS_Subset
  <2>5. IsFiniteSet(parts)
    <3>1. IsFiniteSet({"digest"}) /\ parts = {"digest"} \cup {"epoch"}
      BY FS_Singleton
    <3> HIDE DEF parts
    <3>2. QED
      BY <3>1, FS_AddElement
  <2> HIDE DEF parts
  <2>6. QED
    BY <2>4, <2>5, FS_Product
<1>6. IsFiniteSet(Preconditions(p))
  <2>1. Preconditions(p) = ((R \cup S) \cup G) \cup O
    BY DEF Preconditions
  <2> HIDE DEF R, S, G, O
  <2>2. IsFiniteSet((R \cup S) \cup G)
    BY <1>2, <1>3, <1>4, FS_Union
  <2>3. QED
    BY <1>5, <2>1, <2>2, FS_Union
<1>7. Failing(p, s) \in SUBSET Preconditions(p)
  BY DEF Failing
<1>8. IsFiniteSet(Failing(p, s))
  BY <1>6, <1>7, FS_Subset
<1>9. [at \in Failing(p, s) |-> Aggregate(p, at)] \in Surjection(Failing(p, s), HintedAggregates(p, s))
  BY DEF Surjection, HintedAggregates
<1>10. QED
  BY <1>8, <1>9, FS_Surjection

\* The proposals a caller gets that follows some hints, one after the other.
Following(p, s, hints, n, f) ==
  f = [i \in 0 .. n |-> IF i = 0 THEN p ELSE Rebased(f[i - 1], s, hints[i])]

LEMMA FollowedStep ==
  ASSUME NEW p, NEW s, NEW hints, Len(hints) \in Nat
  PROVE \E t : /\ t[0] = p
               /\ \A i \in 1 .. Len(hints) : t[i] = Rebased(t[i - 1], s, hints[i])
               /\ Followed(p, s, hints) = t[Len(hints)]
<1> DEFINE N == Len(hints)
           S == {n \in Nat : \E f : Following(p, s, hints, n, f)}
<1>1. Nat \subseteq S
  <2>1. 0 \in S
    <3>1. Following(p, s, hints, 0, [i \in 0 .. 0 |-> p])
      BY Z3 DEF Following
    <3> QED BY <3>1
  <2>2. ASSUME NEW m \in Nat, m \in S PROVE m + 1 \in S
    <3>a. PICK n : n = m + 1
      OBVIOUS
    <3>1. n \in Nat /\ n # 0 /\ n - 1 = m
      BY <3>a
    <3>2. PICK f : Following(p, s, hints, n - 1, f)
      BY <2>2, <3>1
    <3> DEFINE g == [i \in 0 .. n |-> IF i = n THEN Rebased(f[n - 1], s, hints[n]) ELSE f[i]]
    <3>3. \A i \in 0 .. n - 1 : g[i] = f[i]
      BY <3>1
    <3>4. ASSUME NEW i \in 0 .. n PROVE g[i] = IF i = 0 THEN p ELSE Rebased(g[i - 1], s, hints[i])
      <4>1. CASE i = n
        <5>1. g[i] = Rebased(f[n - 1], s, hints[n])
          BY <4>1
        <5>2. g[i - 1] = f[n - 1]
          BY <3>1, <3>3, <4>1
        <5> HIDE DEF g
        <5> QED BY <3>1, <4>1, <5>1, <5>2
      <4>2. CASE i # n
        <5>1. i \in 0 .. n - 1
          BY <3>1, <4>2
        <5>2. i # 0 => i - 1 \in 0 .. n - 1
          BY <3>1, <5>1
        <5>3. f[i] = IF i = 0 THEN p ELSE Rebased(f[i - 1], s, hints[i])
          BY <3>2, <5>1 DEF Following
        <5> HIDE DEF g
        <5> QED BY <3>3, <5>1, <5>2, <5>3
      <4> QED BY <4>1, <4>2
    <3>5. Following(p, s, hints, n, g)
      <4>1. g = [i \in 0 .. n |-> g[i]]
        OBVIOUS
      <4> HIDE DEF g
      <4> QED BY <3>4, <4>1 DEF Following
    <3> QED BY <3>1, <3>5, <3>a
  <2>3. QED
    <3> HIDE DEF S
    <3> QED BY <2>1, <2>2, NatSetInduction
<1>2. \E f : Following(p, s, hints, N, f)
  BY <1>1
<1>3. PICK t : t = CHOOSE f : Following(p, s, hints, N, f)
  OBVIOUS
<1>4. Followed(p, s, hints) = t[N]
  BY <1>3 DEF Followed, Following
<1>5. Following(p, s, hints, N, t)
  BY <1>2, <1>3
<1>6. \A i \in 0 .. N : t[i] = IF i = 0 THEN p ELSE Rebased(t[i - 1], s, hints[i])
  BY <1>5 DEF Following
<1>7. QED
  BY <1>4, <1>6

\* What is left of a proposal whose hints have been followed up to place i.
Left(p, s, hints, i, q) ==
  /\ FitsSchema(q) /\ (Untold(q, s) => Untold(p, s))
  /\ \A a \in HintedAggregates(q, s) :
       a \in HintedAggregates(p, s) /\ \A j \in 1 .. i : a # hints[j]

\* A proposal that has followed all its hints gets no more of them.
LEMMA HintsFollowed ==
  ASSUME NEW p, FitsSchema(p), NEW s, ~Untold(p, s),
         NEW n \in Nat,
         NEW hints \in [1 .. n -> HintedAggregates(p, s)],
         \A a \in HintedAggregates(p, s) : \E i \in DOMAIN hints : hints[i] = a
  PROVE LET q == Followed(p, s, hints)
        IN FitsSchema(q) /\ ~Untold(q, s) /\ HintedAggregates(q, s) = {}
<1>1. Len(hints) = n
  OBVIOUS
<1>b. PICK t : /\ t[0] = p
               /\ \A i \in 1 .. Len(hints) : t[i] = Rebased(t[i - 1], s, hints[i])
               /\ Followed(p, s, hints) = t[Len(hints)]
  <2>1. Len(hints) \in Nat
    BY <1>1
  <2>2. QED
    BY <2>1, FollowedStep
<1>2. /\ t[0] = p
      /\ \A i \in 1 .. n : t[i] = Rebased(t[i - 1], s, hints[i])
      /\ Followed(p, s, hints) = t[n]
  BY <1>1, <1>b
<1>3. ASSUME NEW a \in HintedAggregates(p, s) PROVE Known(s, a)
  <2>1. PICK at \in Preconditions(p) : a = Aggregate(p, at)
    BY DEF HintedAggregates, Failing
  <2>2. QED
    BY <2>1 DEF Untold
<1> DEFINE S == {i \in Nat : i <= n => Left(p, s, hints, i, t[i])}
<1>4. 0 \in S
  BY <1>2 DEF Left
<1>5. ASSUME NEW m \in Nat, m \in S PROVE m + 1 \in S
  <2> SUFFICES ASSUME m + 1 <= n PROVE Left(p, s, hints, m + 1, t[m + 1])
    OBVIOUS
  <2>a. PICK i : i = m + 1
    OBVIOUS
  <2>b. PICK q : q = t[m]
    OBVIOUS
  <2>c. PICK a : a = hints[i]
    OBVIOUS
  <2>1. i \in 1 .. n /\ i - 1 = m
    BY <2>a
  <2>2. Left(p, s, hints, m, q)
    BY <1>5, <2>b
  <2>3. a \in HintedAggregates(p, s) /\ Known(s, a)
    BY <1>3, <2>1, <2>c
  <2>4. t[i] = Rebased(q, s, a)
    BY <1>2, <2>1, <2>b, <2>c
  <2>5. FitsSchema(q) /\ (Untold(q, s) => Untold(p, s))
    BY <2>2 DEF Left
  <2>6. Rewritten(q, s, a, t[i])
    BY <2>3, <2>4, <2>5, RebasedIs
  <2>7. FitsSchema(t[i]) /\ (Untold(t[i], s) => Untold(p, s))
    BY <2>5, <2>6, RebasedFits, UntoldStays
  <2>8. HintedAggregates(t[i], s) = HintedAggregates(q, s) \ {a}
    BY <2>3, <2>5, <2>6, HintIsComplete
  <2>9. ASSUME NEW x \in HintedAggregates(t[i], s)
        PROVE x \in HintedAggregates(p, s) /\ \A j \in 1 .. i : x # hints[j]
    <3>1. x \in HintedAggregates(q, s) /\ x # a
      BY <2>8
    <3>2. x \in HintedAggregates(p, s) /\ \A j \in 1 .. m : x # hints[j]
      BY <2>2, <3>1 DEF Left
    <3>3. ASSUME NEW j \in 1 .. i PROVE j \in 1 .. m \/ j = i
      BY <2>1
    <3>4. QED
      BY <2>c, <3>1, <3>2, <3>3
  <2>10. QED
    BY <2>7, <2>9, <2>a DEF Left
<1>6. n \in S
  <2> HIDE DEF S
  <2>1. QED
    BY <1>4, <1>5, NatSetInduction
<1>7. Left(p, s, hints, n, t[n])
  BY <1>6
<1>8. HintedAggregates(t[n], s) = {}
  BY <1>7 DEF Left
<1>9. QED
  BY <1>2, <1>7, <1>8 DEF Left

-----------------------------------------------------------------------------
(* What can still be stale about a proposal that gets no hint.             *)

\* A transaction that has not failed, whatever it has done.
Unfailed(t) ==
  /\ {"store", "events", "opened", "error"} \subseteq DOMAIN t
  /\ t.error = NONE

\* What an operation makes of it: an open transaction again, or an invalid one.
Sound(u) == Unfailed(u) \/ u.error = INVALID

LEMMA SoundParts ==
  ASSUME NEW t, Unfailed(t)
  PROVE /\ Sound(t)
        /\ Sound(Fail(t, INVALID))
        /\ \A s, e : Sound(Emit([t EXCEPT !.store = s], e))
        /\ \A s, o, e : Sound(Emit([t EXCEPT !.store = s, !.opened = o], e))
BY DEF Sound, Unfailed, Fail, Emit

LEMMA AssertClaimSound ==
  ASSUME NEW t, Unfailed(t), NEW claim, NEW links, NEW ignored, NEW seq,
         NEW u, u = AssertClaim(t, claim, links, ignored, seq)
  PROVE /\ Sound(u)
        /\ u.error # NONE => u.error = INVALID
        /\ u.error = NONE => Unfailed(u)
<1>a. NONE # INVALID
  BY DEF NONE, INVALID
<1>1. ASSUME NEW v, Unfailed(v), NEW c, NEW others, NEW kind PROVE Unfailed(OpenConflict(v, c, others, kind, seq))
  BY <1>1 DEF OpenConflict, Unfailed, Emit
<1>2. PICK i : i = InsertClaim(t, claim, links)
  OBVIOUS
<1>3. Unfailed(i) \/ i.error = INVALID
  BY <1>2 DEF InsertClaim, Unfailed, Fail
<1>4. CASE i.error # NONE
  <2>1. u = i
    BY <1>2, <1>4 DEF AssertClaim
  <2>2. QED
    BY <1>3, <1>4, <2>1, <1>a DEF Sound, Unfailed
<1>5. CASE i.error = NONE
  <2>1. PICK v : v = Emit(i, [type |-> "CLAIM_ASSERTED", claim |-> claim, evidence |-> links])
    OBVIOUS
  <2>2. Unfailed(i)
    BY <1>3, <1>5, <1>a
  <2>3. Unfailed(v)
    BY <2>1, <2>2 DEF Unfailed, Emit
  <2>4. u = OpenConflicts(v, claim, ignored, seq)
    BY <1>2, <1>5, <2>1 DEF AssertClaim
  <2>5. Unfailed(u)
    BY <1>1, <2>3, <2>4 DEF OpenConflicts
  <2>6. QED
    BY <2>5 DEF Sound, Unfailed
<1>6. QED
  BY <1>4, <1>5

\* What an operation finds in the tables, and what a resolution expects of it.
Finds(s, op) ==
  /\ \A r \in Targets(op) :
       /\ Known(s, r)
       /\ r[1] # "work" => s[r[1]][r[2]].status = Unclosed[r[1]]
  /\ op.op = "RESOLVE_CONFLICT" =>
       /\ s.conflicts[op.conflict].members = op.digest
       /\ s.conflicts[op.conflict].episode = op.epoch

LEMMA OperationSound ==
  ASSUME NEW t, Unfailed(t), NEW op, op.op \in OperationKinds, Finds(t.store, op),
         NEW proposer, NEW seq
  PROVE Sound(ApplyOperation(t, op, proposer, seq))
<1>a. PICK s : s = t.store
  OBVIOUS
<1>b. PICK u : u = ApplyOperation(t, op, proposer, seq)
  OBVIOUS
<1>c. t.error = NONE
  BY DEF Unfailed
<1>d. /\ Sound(Fail(t, INVALID))
      /\ \A x, e : Sound(Emit([t EXCEPT !.store = x], e))
  BY SoundParts
<1>e. /\ \A id : <<"claims", id>> \in Targets(op) => IsActive(s, id)
      /\ \A n, id : <<n, id>> \in Targets(op) /\ n # "family" => id \in DOMAIN s[n]
      /\ \A n, id : <<n, id>> \in Targets(op) /\ n # "work" => s[n][id].status = Unclosed[n]
  BY <1>a DEF Finds, Known, IsActive, Active, Unclosed
<1>1. CASE op.op = "REGISTER_SOURCE_REVISION"
  BY <1>1, <1>a, <1>c, <1>d DEF ApplyOperation, RegisterSource, Sound, Unfailed, Emit, Fail
<1>2. CASE op.op = "ASSERT_CLAIM"
  <2>1. ApplyOperation(t, op, proposer, seq) = AssertClaim(t, op.claim, op.links, {}, seq)
    BY <1>2, <1>c DEF ApplyOperation
  <2>2. QED
    BY <2>1, AssertClaimSound
<1>3. CASE op.op = "ATTACH_EVIDENCE"
  <2>1. ApplyOperation(t, op, proposer, seq) = AttachEvidence(t, op)
    BY <1>3, <1>c DEF ApplyOperation
  <2>2. IsActive(s, Link[op.link].claim)
    BY <1>3, <1>e DEF Targets
  <2>3. QED
    BY <1>a, <1>d, <2>1, <2>2 DEF AttachEvidence
<1>4. CASE op.op = "SUPERSEDE_CLAIM"
  <2>1. ApplyOperation(t, op, proposer, seq) = SupersedeClaim(t, op, seq)
    BY <1>4, <1>c DEF ApplyOperation
  <2>2. IsActive(s, op.target)
    BY <1>4, <1>e DEF Targets, RequiredReads
  <2>a. PICK v : v = AssertClaim(t, op.claim, op.links, {op.target}, seq)
    OBVIOUS
  <2>3. Sound(v) /\ (v.error = NONE => Unfailed(v))
    BY <2>a, AssertClaimSound
  <2>4. v.error = NONE => Sound(Emit([v EXCEPT !.store = Close(@, op.target, "SUPERSEDED", op.claim)],
                    [type |-> "CLAIM_SUPERSEDED", target |-> op.target, by |-> op.claim]))
    BY <2>3, SoundParts
  <2>5. QED
    BY <1>a, <2>1, <2>2, <2>a, <2>3, <2>4 DEF SupersedeClaim
<1>5. CASE op.op = "RETRACT_CLAIM"
  <2>1. ApplyOperation(t, op, proposer, seq) = RetractClaim(t, op, proposer)
    BY <1>5, <1>c DEF ApplyOperation
  <2>2. IsActive(s, op.target)
    BY <1>5, <1>e DEF Targets, RequiredReads
  <2>3. QED
    BY <1>a, <1>d, <2>1, <2>2 DEF RetractClaim
<1>6. CASE op.op = "RESOLVE_CONFLICT"
  <2>1. ApplyOperation(t, op, proposer, seq) = ResolveConflict(t, op, proposer)
    BY <1>6, <1>c DEF ApplyOperation
  <2>2. /\ op.conflict \in DOMAIN s.conflicts /\ s.conflicts[op.conflict].status = "OPEN"
        /\ s.conflicts[op.conflict].members = op.digest
        /\ s.conflicts[op.conflict].episode = op.epoch
    <3>1. <<"conflicts", op.conflict>> \in Targets(op)
      BY <1>6 DEF Targets, RequiredReads
    <3>2. op.conflict \in DOMAIN s["conflicts"] /\ s["conflicts"][op.conflict].status = Unclosed["conflicts"]
      BY <1>e, <3>1
    <3>3. QED
      BY <1>6, <1>a, <3>2 DEF Finds, Unclosed
  <2>3. ASSUME NEW x, NEW e PROVE Sound(Emit([t EXCEPT !.store.conflicts[op.conflict] = x], e))
    BY DEF Sound, Unfailed, Emit
  <2>4. QED
    BY <1>a, <1>d, <2>1, <2>2, <2>3 DEF ResolveConflict
<1>7. CASE op.op = "RECORD_DECISION"
  BY <1>7, <1>c DEF ApplyOperation, RecordDecision, Sound, Unfailed, Emit, Fail
<1>8. CASE op.op = "SUPERSEDE_DECISION"
  <2>1. ApplyOperation(t, op, proposer, seq) = SupersedeDecision(t, op)
    BY <1>8, <1>c DEF ApplyOperation
  <2>2. op.target \in DOMAIN s.decisions /\ s.decisions[op.target].status = "ACTIVE"
    <3>1. <<"decisions", op.target>> \in Targets(op)
      BY <1>8 DEF Targets, RequiredReads
    <3>2. QED
      BY <1>e, <3>1 DEF Unclosed
  <2>3. ASSUME NEW x, NEW e PROVE Sound(Emit([t EXCEPT !.store.decisions = x], e))
    BY DEF Sound, Unfailed, Emit
  <2>4. QED
    BY <1>a, <1>d, <2>1, <2>2, <2>3 DEF SupersedeDecision
<1>9. CASE op.op = "OPEN_QUESTION"
  BY <1>9, <1>c DEF ApplyOperation, OpenQuestion, Sound, Unfailed, Emit, Fail
<1>10. CASE op.op \in {"ANSWER_QUESTION", "DROP_QUESTION"}
  <2>1. op.target \in DOMAIN s.questions /\ s.questions[op.target].status = "OPEN"
    <3>1. <<"questions", op.target>> \in Targets(op)
      BY <1>10 DEF Targets, RequiredReads
    <3>2. QED
      BY <1>e, <3>1 DEF Unclosed
  <2>2. ASSUME NEW x, NEW e PROVE Sound(Emit([t EXCEPT !.store.questions[op.target] = x], e))
    BY DEF Sound, Unfailed, Emit
  <2>3. ASSUME NEW status, NEW answer PROVE Sound(CloseQuestion(t, op.target, status, answer))
    BY <1>a, <2>1, <2>2 DEF CloseQuestion
  <2>4. QED
    BY <1>10, <1>c, <2>3 DEF ApplyOperation, AnswerQuestion, DropQuestion
<1>11. CASE op.op = "CREATE_WORK_ITEM"
  BY <1>11, <1>c DEF ApplyOperation, CreateWorkItem, Sound, Unfailed, Emit, Fail
<1>12. CASE op.op = "UPDATE_WORK_ITEM_STATUS"
  <2>1. ApplyOperation(t, op, proposer, seq) = UpdateWorkItemStatus(t, op)
    BY <1>12, <1>c DEF ApplyOperation
  <2>2. op.target \in DOMAIN s.work
    <3>1. <<"work", op.target>> \in Targets(op)
      BY <1>12 DEF Targets, RequiredReads
    <3>2. QED
      BY <1>e, <3>1
  <2>3. ASSUME NEW x, NEW e PROVE Sound(Emit([t EXCEPT !.store.work[op.target] = x], e))
    BY DEF Sound, Unfailed, Emit
  <2>4. QED
    BY <1>a, <1>d, <2>1, <2>2, <2>3 DEF UpdateWorkItemStatus
<1>13. QED
  BY <1>1, <1>2, <1>3, <1>4, <1>5, <1>6, <1>7, <1>8, <1>9, <1>10, <1>11, <1>12 DEF OperationKinds

\* Registering a source changes none of the other tables.
Apart(s, x) == Tables \subseteq DOMAIN x /\ \A n \in Tables \ {"sources"} : x[n] = s[n]

LEMMA RegisterKeeps ==
  ASSUME NEW s, NEW t, Unfailed(t), Apart(s, t.store), NEW op, op.op = "REGISTER_SOURCE_REVISION",
         NEW proposer, NEW seq, NEW u, u = ApplyOperation(t, op, proposer, seq), Unfailed(u)
  PROVE Apart(s, u.store)
<1>1. u = RegisterSource(t, op)
  BY DEF ApplyOperation, Unfailed
<1>2. Fail(t, INVALID).error = INVALID /\ INVALID # NONE
  BY DEF Fail, Unfailed, INVALID, NONE
<1>3. u = Emit([t EXCEPT !.store.sources = Put(@, op.source, op.content)],
               [type |-> "SOURCE_REVISION_REGISTERED", source |-> op.source, content |-> op.content])
  BY <1>1, <1>2 DEF RegisterSource, Unfailed
<1>4. u.store = [t.store EXCEPT !.sources = Put(@, op.source, op.content)]
  BY <1>3 DEF Unfailed, Emit
<1>a. PICK x, table : x = t.store /\ table = Put(x.sources, op.source, op.content)
  OBVIOUS
<1>5. u.store = [x EXCEPT !["sources"] = table]
  BY <1>4, <1>a
<1>6. DOMAIN u.store = DOMAIN x /\ \A n \in DOMAIN x \ {"sources"} : u.store[n] = x[n]
  BY <1>5
<1>7. QED
  BY <1>6, <1>a DEF Apart

\* A place of a proposal about which nothing is untold finds its targets.
LEMMA TargetsFound ==
  ASSUME NEW q, FitsSchema(q), NEW s, ~Untold(q, s), HintedAggregates(q, s) = {},
         NEW i \in DOMAIN q.ops, NEW x, Apart(s, x)
  PROVE Finds(x, q.ops[i])
<1>a. PICK op : op = q.ops[i]
  OBVIOUS
<1>1. ASSUME NEW r \in Targets(op)
      PROVE /\ Known(x, r)
            /\ r[1] # "work" => x[r[1]][r[2]].status = Unclosed[r[1]]
  <2>1. Known(s, r) /\ (r[1] # "work" => s[r[1]][r[2]].status = Unclosed[r[1]])
    BY <1>a DEF Untold
  <2>2. r[1] \in Tables \ {"sources"}
    BY DEF Targets, RequiredReads, Tables
  <2>3. x[r[1]] = s[r[1]]
    BY <2>2 DEF Apart
  <2>4. QED
    BY <2>1, <2>3 DEF Known
<1>2. ASSUME op.op = "RESOLVE_CONFLICT"
      PROVE /\ x.conflicts[op.conflict].members = op.digest
            /\ x.conflicts[op.conflict].episode = op.epoch
  <2>1. i \in Resolving(q)
    BY <1>2, <1>a DEF Resolving
  <2>2. <<"digest", i>> \notin Failing(q, s) /\ <<"epoch", i>> \notin Failing(q, s)
    BY DEF HintedAggregates
  <2>3. <<"digest", i>> \in Preconditions(q) /\ <<"epoch", i>> \in Preconditions(q)
    BY <2>1, PreconditionIs
  <2>4. /\ Expected(q, <<"digest", i>>) = Actual(s, Aggregate(q, <<"digest", i>>), Field(<<"digest", i>>))
        /\ Expected(q, <<"epoch", i>>) = Actual(s, Aggregate(q, <<"epoch", i>>), Field(<<"epoch", i>>))
    BY <2>2, <2>3 DEF Failing
  <2>5. /\ op.digest = Actual(s, <<"conflicts", op.conflict>>, "members")
        /\ op.epoch = Actual(s, <<"conflicts", op.conflict>>, "episode")
    BY <2>4, <1>a, ResolutionParts
  <2>6. op.digest = s.conflicts[op.conflict].members /\ op.epoch = s.conflicts[op.conflict].episode
    BY <2>5 DEF Actual
  <2>7. x["conflicts"] = s["conflicts"]
    BY DEF Apart, Tables
  <2>8. QED
    BY <2>6, <2>7
<1>3. QED
  BY <1>1, <1>2, <1>a DEF Finds

\* What the author read and demanded holds when no precondition fails.
LEMMA NothingFails ==
  ASSUME NEW q, FitsSchema(q), NEW s, ~Untold(q, s), HintedAggregates(q, s) = {}
  PROVE ReadsHold(s, q) /\ \A g \in q.guards : GuardHolds(s, g)
<1>1. ASSUME NEW at \in Preconditions(q)
      PROVE Known(s, Aggregate(q, at)) /\ Expected(q, at) = Actual(s, Aggregate(q, at), Field(at))
  <2>1. at \notin Failing(q, s)
    BY DEF HintedAggregates
  <2>2. QED
    BY <2>1 DEF Failing
<1>2. ASSUME NEW r \in DOMAIN q.reads PROVE ReadHolds(s, r, q.reads[r])
  <2>1. CASE r[1] = "sources"
    BY <2>1 DEF Untold
  <2>2. CASE r[1] # "sources"
    <3>1. <<"read", r>> \in Preconditions(q)
      BY <2>2, PreconditionIs
    <3>2. Known(s, r) /\ q.reads[r] = Actual(s, r, "version")
      BY <1>1, <3>1, ReadParts
    <3>3. r[1] # "family"
      BY DEF FitsSchema
    <3>4. QED
      BY <2>2, <3>2, <3>3 DEF Known, Actual, ReadHolds, RowIs
  <2>3. QED
    BY <2>1, <2>2
<1>3. ASSUME NEW f \in DOMAIN q.sets PROVE ActiveSetDigest(s, f) = q.sets[f]
  <2>1. <<"set", f>> \in Preconditions(q)
    BY PreconditionIs
  <2>2. q.sets[f] = Actual(s, <<"family", f>>, "members")
    BY <1>1, <2>1, SetParts
  <2>3. QED
    BY <2>2 DEF Actual
<1>4. ASSUME NEW g \in q.guards PROVE GuardHolds(s, g)
  <2>1. CASE g.op \notin GuardsRead
    BY <2>1 DEF Untold
  <2>2. CASE g.op \in GuardsRead
    <3>a. PICK A, F : A = Aggregate(q, <<"guard", g>>) /\ F = Field(<<"guard", g>>)
      OBVIOUS
    <3>1. <<"guard", g>> \in Preconditions(q)
      BY <2>2, PreconditionIs
    <3>2. Known(s, A) /\ g.expected = Actual(s, A, F)
      BY <1>1, <3>1, <3>a, GuardParts
    <3>3. CASE g.op \in {"STATUS_EQ", "VERSION_EQ"}
      <4>1. A = <<g.table, g.id>> /\ F = IF g.op = "STATUS_EQ" THEN "status" ELSE "version"
        BY <3>3, <3>a, GuardParts
      <4>2. g.table # "family"
        BY <2>2, <3>3 DEF FitsSchema
      <4>3. g.id \in DOMAIN s[g.table] /\ g.expected = s[g.table][g.id][F]
        BY <3>2, <4>1, <4>2 DEF Known, Actual
      <4>4. QED
        BY <3>3, <4>1, <4>3 DEF GuardHolds, RowIs
    <3>4. CASE g.op = "CONFLICT_MEMBER_DIGEST_EQ"
      <4>1. A = <<"conflicts", g.id>> /\ F = "members"
        BY <3>4, <3>a, GuardParts
      <4>2. g.id \in DOMAIN s["conflicts"] /\ g.expected = s["conflicts"][g.id]["members"]
        BY <3>2, <4>1 DEF Known, Actual
      <4>3. QED
        BY <3>4, <4>2 DEF GuardHolds, RowIs
    <3>5. CASE g.op = "ACTIVE_SET_DIGEST_EQ"
      <4>1. A = <<"family", g.family>>
        BY <3>5, <3>a, GuardParts
      <4>2. g.expected = ActiveSetDigest(s, g.family)
        BY <3>2, <4>1 DEF Actual
      <4>3. QED
        BY <3>5, <4>2 DEF GuardHolds
    <3>6. QED
      BY <2>2, <3>3, <3>4, <3>5 DEF GuardsRead
  <2>3. QED
    BY <2>1, <2>2
<1>5. QED
  BY <1>2, <1>3, <1>4 DEF ReadsHold

\* At most one operation is more than a registration.
LEMMA OneOperation ==
  ASSUME NEW q, FitsSchema(q), NEW s, ~Untold(q, s), NEW i \in DOMAIN q.ops, NEW j \in DOMAIN q.ops,
         q.ops[i].op # "REGISTER_SOURCE_REVISION", q.ops[j].op # "REGISTER_SOURCE_REVISION"
  PROVE i = j
<1> SUFFICES ASSUME i # j PROVE FALSE
  OBVIOUS
<1> DEFINE X == {k \in DOMAIN q.ops : q.ops[k].op # "REGISTER_SOURCE_REVISION"}
<1>1. ~(Cardinality(X) > 1)
  BY DEF Untold
<1>2. IsFiniteSet(DOMAIN q.ops)
  BY FS_Interval DEF FitsSchema, WellFormed
<1>3. X \in SUBSET DOMAIN q.ops /\ i \in X /\ j \in X
  OBVIOUS
<1> HIDE DEF X
<1>4. IsFiniteSet(X) /\ Cardinality(X) \in Nat
  BY <1>2, <1>3, FS_Subset, FS_CardinalityType
<1>5. IsFiniteSet({i}) /\ Cardinality({i}) = 1
  BY FS_Singleton
<1>6. Cardinality({i} \cup {j}) = 2
  <2>1. PICK one : one = {i}
    OBVIOUS
  <2>2. Cardinality(one \cup {j}) = IF j \in one THEN Cardinality(one) ELSE Cardinality(one) + 1
    BY <1>5, <2>1, FS_AddElement
  <2>3. QED
    BY <1>5, <2>1, <2>2
<1>7. Cardinality({i} \cup {j}) <= Cardinality(X)
  BY <1>3, <1>4, FS_Subset
<1>8. QED
  BY <1>1, <1>4, <1>6, <1>7

\* A proposal that gets no hint, and about which nothing is untold, is not stale.
LEMMA NotStale ==
  ASSUME NEW q, FitsSchema(q), NEW s, Shaped(s), ~Untold(q, s), HintedAggregates(q, s) = {}, NEW seq
  PROVE Evaluate(q, s, seq).error # CONFLICT
<1>a. NONE # INVALID /\ INVALID # CONFLICT /\ NONE # CONFLICT
  BY DEF NONE, INVALID, CONFLICT
<1>b. PICK n : n = Len(q.ops)
  OBVIOUS
<1>1. n \in Nat /\ DOMAIN q.ops = 1 .. n /\ \A i \in 1 .. n : q.ops[i].op \in OperationKinds
  BY <1>b DEF FitsSchema, WellFormed
<1>2. PICK t : t = Transactions(q, s, seq)
  OBVIOUS
<1>3. /\ t[0] = Start(s)
      /\ \A i \in 1 .. n : t[i] = ApplyOperation(t[i - 1], q.ops[i], q.proposer, seq)
  BY <1>1, <1>2, <1>b, TransactionsStep
<1>c. PICK Reg : Reg = {i \in 1 .. n : q.ops[i].op = "REGISTER_SOURCE_REVISION"}
  OBVIOUS
<1> DEFINE S == {i \in Nat : i <= n =>
                   /\ Sound(t[i])
                   /\ Unfailed(t[i]) /\ (1 .. i \subseteq Reg) => Apart(s, t[i].store)}
<1>4. 0 \in S
  <2>1. Unfailed(t[0]) /\ t[0].store = s
    BY <1>3 DEF Start, Unfailed
  <2>2. Apart(s, s)
    BY DEF Apart, Shaped
  <2>3. QED
    BY <2>1, <2>2 DEF Sound
<1>5. ASSUME NEW m \in Nat, m \in S PROVE m + 1 \in S
  <2> SUFFICES ASSUME m + 1 <= n
               PROVE /\ Sound(t[m + 1])
                     /\ Unfailed(t[m + 1]) /\ (1 .. m + 1 \subseteq Reg) => Apart(s, t[m + 1].store)
    OBVIOUS
  <2>a. PICK i : i = m + 1
    OBVIOUS
  <2>b. PICK v, u, op : v = t[m] /\ u = t[i] /\ op = q.ops[i]
    OBVIOUS
  <2>1. i \in 1 .. n /\ i - 1 = m /\ m <= n
    BY <1>1, <2>a
  <2>2. u = ApplyOperation(v, op, q.proposer, seq)
    BY <1>3, <2>1, <2>b
  <2>3. Sound(v) /\ (Unfailed(v) /\ (1 .. m \subseteq Reg) => Apart(s, v.store))
    BY <1>1, <1>5, <2>1, <2>b
  <2>4. CASE ~Unfailed(v)
    <3>1. v.error = INVALID
      BY <2>3, <2>4 DEF Sound
    <3>2. u = v
      BY <1>a, <2>2, <3>1 DEF ApplyOperation
    <3>3. QED
      BY <2>a, <2>b, <2>3, <2>4, <3>2
  <2>5. CASE Unfailed(v) /\ i \in Reg
    <3>1. op.op = "REGISTER_SOURCE_REVISION"
      BY <1>c, <2>5, <2>b
    <3>2. Finds(v.store, op)
      BY <3>1 DEF Finds, Targets, RequiredReads
    <3>3. Sound(u)
      BY <1>1, <2>1, <2>2, <2>5, <2>b, <3>2, OperationSound
    <3>4. ASSUME Unfailed(u), 1 .. i \subseteq Reg PROVE Apart(s, u.store)
      <4>1. 1 .. m \subseteq 1 .. i
        BY <2>1
      <4>2. Apart(s, v.store)
        BY <2>3, <2>5, <3>4, <4>1
      <4>3. QED
        BY <2>2, <2>5, <3>1, <3>4, <4>2, RegisterKeeps
    <3>5. QED
      BY <2>a, <2>b, <3>3, <3>4
  <2>6. CASE Unfailed(v) /\ i \notin Reg
    <3>1. 1 .. m \subseteq Reg
      <4> SUFFICES ASSUME NEW j \in 1 .. m, j \notin Reg PROVE FALSE
        OBVIOUS
      <4>1. j \in 1 .. n /\ j # i
        BY <1>1, <2>1, <2>a
      <4>2. q.ops[i].op # "REGISTER_SOURCE_REVISION" /\ q.ops[j].op # "REGISTER_SOURCE_REVISION"
        BY <1>c, <2>1, <2>6, <4>1
      <4>3. i \in DOMAIN q.ops /\ j \in DOMAIN q.ops
        BY <1>1, <2>1, <4>1
      <4>4. QED
        BY <4>1, <4>2, <4>3, OneOperation
    <3>2. Apart(s, v.store)
      BY <2>3, <2>6, <3>1
    <3>3. Finds(v.store, op)
      <4>1. i \in DOMAIN q.ops
        BY <1>1, <2>1
      <4>2. QED
        BY <2>b, <3>2, <4>1, TargetsFound
    <3>4. op.op \in OperationKinds
      BY <1>1, <2>1, <2>b
    <3>5. Sound(u)
      BY <2>2, <2>6, <3>3, <3>4, OperationSound
    <3>6. ~(1 .. i \subseteq Reg)
      BY <2>1, <2>6
    <3>7. QED
      BY <2>a, <2>b, <3>5, <3>6
  <2>7. QED
    BY <2>4, <2>5, <2>6
<1>6. Sound(t[n])
  <2>1. n \in S
    <3> HIDE DEF S
    <3> QED BY <1>1, <1>4, <1>5, NatSetInduction
  <2>2. QED
    BY <1>1, <2>1
<1>7. t[n].error # CONFLICT
  BY <1>6, <1>a DEF Sound, Unfailed
<1>8. Fail(Start(s), INVALID).error = INVALID
  BY DEF Fail, Start
<1>9. ReadsHold(s, q) /\ \A g \in q.guards : GuardHolds(s, g)
  BY NothingFails
<1>10. QED
  BY <1>2, <1>7, <1>8, <1>9, <1>a, <1>b DEF Evaluate

\* The advice is good about every store of the right shape.
LEMMA AdviceIsGood ==
  ASSUME Shaped(store)
  PROVE HintsSuffice
<1> SUFFICES ASSUME NEW p \in Offered(Len(ledger), store), FitsSchema(p)
             PROVE LET hinted == HintedAggregates(p, store)
                       orders == {f \in [1 .. Cardinality(hinted) -> hinted] :
                                    \A aggregate \in hinted : \E i \in DOMAIN f : f[i] = aggregate}
                       stale(q) == Evaluate(q, store, Len(ledger) + 1).error = CONFLICT
                   IN /\ \A aggregate \in hinted :
                           Known(store, aggregate) =>
                             HintedAggregates(Rebased(p, store, aggregate), store) = hinted \ {aggregate}
                      /\ Untold(p, store) \/ ~stale(p)
                           \/ \A hints \in orders : ~stale(Followed(p, store, hints))
  BY DEF HintsSuffice
<1>1. ASSUME NEW a \in HintedAggregates(p, store), Known(store, a)
      PROVE HintedAggregates(Rebased(p, store, a), store) = HintedAggregates(p, store) \ {a}
  <2>1. Rewritten(p, store, a, Rebased(p, store, a))
    BY <1>1, RebasedIs
  <2>2. QED
    BY <1>1, <2>1, HintIsComplete
<1>2. ASSUME ~Untold(p, store),
             NEW hints \in [1 .. Cardinality(HintedAggregates(p, store)) -> HintedAggregates(p, store)],
             \A a \in HintedAggregates(p, store) : \E i \in DOMAIN hints : hints[i] = a
      PROVE Evaluate(Followed(p, store, hints), store, Len(ledger) + 1).error # CONFLICT
  <2>1. PICK n : n = Cardinality(HintedAggregates(p, store))
    OBVIOUS
  <2>2. n \in Nat
    BY <2>1, HintsAreFew, FS_CardinalityType
  <2>3. hints \in [1 .. n -> HintedAggregates(p, store)]
    BY <1>2, <2>1
  <2>4. PICK q : q = Followed(p, store, hints)
    OBVIOUS
  <2>5. FitsSchema(q) /\ ~Untold(q, store) /\ HintedAggregates(q, store) = {}
    BY <1>2, <2>2, <2>3, <2>4, HintsFollowed
  <2>6. QED
    BY <2>4, <2>5, NotStale
<1>3. QED
  BY <1>1, <1>2

\* A hint is enough: a proposal that follows the hint about an aggregate is no
\* longer refused because of it, and one that follows all its hints, in whatever
\* order, is refused as stale only for what no hint tells, whatever it reads,
\* guards and does and whatever the store has become.
THEOREM HintsAreEnough == Spec => []HintsSuffice
<1>1. KernelInv => HintsSuffice
  BY AdviceIsGood DEF KernelInv, Accounted, Good
<1>2. QED
  BY <1>1, KernelInvariant, PTL
=============================================================================
