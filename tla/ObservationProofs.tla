------------------------- MODULE ObservationProofs -------------------------
(***************************************************************************)
(* What Observation guarantees for any number of hooks and calls: however  *)
(* they interleave and die, a capture receipt is of the bytes of the       *)
(* immutable source file, and these are a trace; and what is captured,     *)
(* archived and pruned has lost no acknowledged event.                     *)
(***************************************************************************)
EXTENDS Observation, TLAPS

\* A finalizer that has not yet registered its trace.
Capturing(c) == task[c].at \in {"lookup", "trace", "register"}
IsCapture(t) ==
  t = [at |-> t.at, source |-> t.source, content |-> t.content, known |-> t.known]

\* Every client stands somewhere; a finalizer keeps what it read.
TaskInv ==
  /\ task = [c \in Clients |-> task[c]]
  /\ \A c \in Clients : "at" \in DOMAIN task[c]
  /\ \A c \in Clients : Capturing(c) => IsCapture(task[c])

\* What a finalizer carries is a trace, and once it has written the source
\* file that file is of its bytes.
CaptureInv ==
  \A c \in Clients : Capturing(c) =>
    /\ task[c].content # NoTrace
    /\ Contiguous(task[c].content)
    /\ At(c, "register") => trace = task[c].content

\* The inductive invariant.
Inv ==
  /\ TaskInv
  /\ CaptureInv
  /\ trace # NoTrace => Contiguous(trace)
  /\ ReceiptIsSource

\* The steps of a client that end at a label where nothing is captured.
Elsewhere(c, t) ==
  /\ Become(c, t)
  /\ "at" \in DOMAIN t
  /\ t.at \notin {"lookup", "trace", "register"}

-----------------------------------------------------------------------------
\* A step of one client leaves the others where they stand.
LEMMA BecomeOne ==
  ASSUME TaskInv, NEW c \in Clients, NEW t, Become(c, t)
  PROVE  /\ task' = [b \in Clients |-> task'[b]]
         /\ task'[c] = t
         /\ \A b \in Clients \ {c} : task'[b] = task[b]
BY DEF TaskInv, Become

\* A step that goes elsewhere and writes neither file nor receipt keeps all.
LEMMA ElsewhereKeeps ==
  ASSUME Inv, NEW c \in Clients, NEW t, Elsewhere(c, t), UNCHANGED registered
  PROVE  Inv'
<1>1. /\ task' = [b \in Clients |-> task'[b]]
      /\ task'[c] = t
      /\ \A b \in Clients \ {c} : task'[b] = task[b]
  BY BecomeOne DEF Inv, Elsewhere
<1>2. ~Capturing(c)'
  BY <1>1 DEF Capturing, Elsewhere
<1>3. TaskInv'
  BY <1>1, <1>2 DEF TaskInv, Inv, Elsewhere, Capturing
<1>4. CaptureInv'
  BY <1>1, <1>2 DEF CaptureInv, Inv, Capturing, At, registered
<1> QED
  BY <1>3, <1>4 DEF Inv, registered, ReceiptIsSource

\* The initial state: no client captures, no file is there.
LEMMA InitInv == Init => Inv
BY DEF Init, Inv, TaskInv, CaptureInv, Capturing, IsCapture, ReceiptIsSource, Idle, NoTrace

-----------------------------------------------------------------------------
\* The steps of start, append and prune, and death, go elsewhere.
Quiet(c) ==
  \/ \E next \in {"idle", "event"} : Start(c, next)
  \/ \E sequence \in 1 .. MaxCalls : AppendGiven(c, sequence)
  \/ Event(c) \/ LookCaptured(c) \/ LookPending(c) \/ LinkNew(c) \/ MakeEvent(c)
  \/ ReadBuffer(c) \/ Open(c) \/ Write(c)
  \/ Archive(c) \/ Unlink(c) \/ Return(c)
  \/ Prune(c) \/ PruneUnlink(c) \/ Crash(c)

\* Changing the label of a task changes it to that label.
LEMMA LabelIs ==
  ASSUME NEW t, NEW label, "at" \in DOMAIN t
  PROVE  /\ "at" \in DOMAIN [t EXCEPT !.at = label]
         /\ [t EXCEPT !.at = label].at = label
OBVIOUS

\* None of them captures or writes what finalizers write.
LEMMA QuietElsewhere ==
  ASSUME TaskInv, NEW c \in Clients, Quiet(c)
  PROVE  UNCHANGED registered /\ \E t : Elsewhere(c, t)
<1> USE DEF Elsewhere
<1>0. "at" \in DOMAIN task[c] /\ "at" \in DOMAIN Idle /\ Idle.at = "idle"
  BY DEF TaskInv, Idle
<1>1. ASSUME NEW next \in {"idle", "event"}, Start(c, next)
      PROVE  UNCHANGED registered /\ \E t : Elsewhere(c, t)
  <2>1. Elsewhere(c, [at |-> "start", next |-> next, id |-> calls + 1])
    BY <1>1 DEF Start, Call
  <2> QED
    BY <2>1, <1>1 DEF Start, Call, registered
<1>2. ASSUME NEW sequence \in 1 .. MaxCalls, AppendGiven(c, sequence)
      PROVE  UNCHANGED registered /\ \E t : Elsewhere(c, t)
  <2>1. Elsewhere(c, [at |-> "append", id |-> calls + 1, sequence |-> sequence])
    BY <1>2 DEF AppendGiven, Call
  <2> QED
    BY <2>1, <1>2 DEF AppendGiven, Call, registered
<1>3. CASE Event(c)
  <2>1. Elsewhere(c, [at |-> "event", id |-> calls + 1])
    BY <1>3 DEF Event, Call
  <2> QED
    BY <2>1, <1>3 DEF Event, Call, registered
<1>4. CASE LookCaptured(c) \/ LookPending(c)
  <2>1. \/ Elsewhere(c, [task[c] EXCEPT !.at = "look"])
        \/ Elsewhere(c, [task[c] EXCEPT !.at = "link"])
        \/ Elsewhere(c, Idle)
        \/ Elsewhere(c, [at |-> "event", id |-> task[c].id])
    BY <1>0, <1>4, LabelIs DEF LookCaptured, LookPending, Goto, Started
  <2> QED
    BY <2>1, <1>4 DEF LookCaptured, LookPending, registered
<1>5. CASE LinkNew(c)
  <2>1. \/ Elsewhere(c, Idle)
        \/ Elsewhere(c, [at |-> "event", id |-> task[c].id])
    BY <1>0, <1>5 DEF LinkNew, Started, Fail
  <2> QED
    BY <2>1, <1>5 DEF LinkNew, registered
<1>6. CASE MakeEvent(c)
  <2>1. \/ Elsewhere(c, Idle)
        \/ Elsewhere(c, [at |-> "append", id |-> task[c].id,
                         sequence |-> Len(files[pending]) + 1])
    BY <1>0, <1>6 DEF MakeEvent, Fail
  <2> QED
    BY <2>1, <1>6 DEF MakeEvent, registered
<1>7. CASE ReadBuffer(c)
  <2>1. Elsewhere(c, Idle) \/ Elsewhere(c, [task[c] EXCEPT !.at = "open"])
    BY <1>0, <1>7, LabelIs DEF ReadBuffer, Fail, Goto
  <2> QED
    BY <2>1, <1>7 DEF ReadBuffer, registered
<1>8. CASE Open(c)
  <2>1. \/ Elsewhere(c, Idle)
        \/ Elsewhere(c, [at |-> "write", id |-> task[c].id, sequence |-> task[c].sequence,
                         inode |-> pending])
    BY <1>0, <1>8 DEF Open, Fail
  <2> QED
    BY <2>1, <1>8 DEF Open, registered
<1>9. CASE Write(c) \/ Return(c) \/ PruneUnlink(c) \/ Crash(c)
  <2>1. Elsewhere(c, Idle)
    BY <1>0, <1>9 DEF Write, Return, PruneUnlink, Crash
  <2> QED
    BY <2>1, <1>9 DEF Write, Return, PruneUnlink, Crash, registered
<1>10. CASE Archive(c) \/ Unlink(c)
  <2>1. \/ Elsewhere(c, Idle)
        \/ Elsewhere(c, [task[c] EXCEPT !.at = "unlink"])
        \/ Elsewhere(c, [task[c] EXCEPT !.at = "done"])
    BY <1>0, <1>10, LabelIs DEF Archive, Unlink, Fail, Goto
  <2> QED
    BY <2>1, <1>10 DEF Archive, Unlink, registered
<1>11. CASE Prune(c)
  <2>1. Elsewhere(c, [at |-> "prune", inode |-> captured])
    BY <1>11 DEF Prune, Call
  <2> QED
    BY <2>1, <1>11 DEF Prune, Call, registered
<1> QED
  BY <1>1, <1>2, <1>3, <1>4, <1>5, <1>6, <1>7, <1>8, <1>9, <1>10, <1>11 DEF Quiet

-----------------------------------------------------------------------------
\* The rest of finalize, one lemma per step.

\* finalize takes a trace from the buffer.
LEMMA FinalizeKeeps ==
  ASSUME Inv, NEW c \in Clients, Finalize(c)
  PROVE  Inv'
<1> DEFINE name == IF pending # Absent THEN "pending" ELSE "captured"
           inode == IF pending # Absent THEN pending ELSE captured
           t == [at |-> "lookup", source |-> name, content |-> files[inode], known |-> acked]
<1>1. /\ Become(c, t)
      /\ files[inode] # <<>>
      /\ Contiguous(files[inode])
      /\ UNCHANGED registered
  BY DEF Finalize, Call
<1> HIDE DEF name, inode
<1>2. /\ task' = [b \in Clients |-> task'[b]]
      /\ task'[c] = t
      /\ \A b \in Clients \ {c} : task'[b] = task[b]
  BY <1>1, BecomeOne DEF Inv
<1>3. TaskInv'
  BY <1>2 DEF TaskInv, Inv, Capturing, IsCapture
<1>4. CaptureInv'
  BY <1>1, <1>2 DEF CaptureInv, Inv, Capturing, At, registered, NoTrace
<1> QED
  BY <1>1, <1>3, <1>4 DEF Inv, registered, ReceiptIsSource

\* A finalizer that goes on keeps its trace.
LEMMA GotoKeepsCapture ==
  ASSUME TaskInv, NEW c \in Clients, Capturing(c), NEW label, Goto(c, label)
  PROVE  /\ task' = [b \in Clients |-> task'[b]]
         /\ task'[c] = [at |-> label, source |-> task[c].source,
                        content |-> task[c].content, known |-> task[c].known]
         /\ \A b \in Clients \ {c} : task'[b] = task[b]
<1>1. task[c] = [at |-> task[c].at, source |-> task[c].source,
                 content |-> task[c].content, known |-> task[c].known]
  BY DEF TaskInv, IsCapture
<1>2. [task[c] EXCEPT !.at = label] =
        [at |-> label, source |-> task[c].source,
         content |-> task[c].content, known |-> task[c].known]
  BY <1>1
<1> QED
  BY <1>2, BecomeOne DEF Goto

\* A capture that is over, by success or by refusal, goes elsewhere.
LEMMA CaptureOver ==
  ASSUME TaskInv, NEW c \in Clients, AfterCapture(c) \/ Fail(c)
  PROVE  \E t : Elsewhere(c, t)
<1>1. "at" \in DOMAIN task[c]
  BY DEF TaskInv
<1>2. \/ Elsewhere(c, [task[c] EXCEPT !.at = "archive"])
      \/ Elsewhere(c, [task[c] EXCEPT !.at = "done"])
      \/ Elsewhere(c, Idle)
  BY <1>1, LabelIs DEF AfterCapture, Fail, Goto, Elsewhere, Idle
<1> QED
  BY <1>2

\* The receipt of the trace is looked up.
LEMMA LookupKeeps ==
  ASSUME Inv, NEW c \in Clients, Lookup(c)
  PROVE  Inv'
<1>1. CASE Goto(c, "trace")
  <2>1. Capturing(c) /\ UNCHANGED registered
    BY DEF Lookup, At, Capturing
  <2>2. /\ task' = [b \in Clients |-> task'[b]]
        /\ task'[c] = [at |-> "trace", source |-> task[c].source,
                       content |-> task[c].content, known |-> task[c].known]
        /\ \A b \in Clients \ {c} : task'[b] = task[b]
    BY <1>1, <2>1, GotoKeepsCapture DEF Inv
  <2>3. TaskInv'
    BY <2>2 DEF TaskInv, Inv, Capturing, IsCapture
  <2>4. CaptureInv'
    BY <2>1, <2>2 DEF CaptureInv, Inv, Capturing, At, registered
  <2> QED
    BY <2>1, <2>3, <2>4 DEF Inv, registered, ReceiptIsSource
<1>2. CASE AfterCapture(c) \/ Fail(c)
  BY <1>2, CaptureOver, ElsewhereKeeps DEF Inv, Lookup
<1> QED
  BY <1>1, <1>2 DEF Lookup

\* The source file is created, or found with the same bytes: then no other
\* finalizer that has passed here carries other bytes.
LEMMA WriteTraceKeeps ==
  ASSUME Inv, NEW c \in Clients, WriteTrace(c)
  PROVE  Inv'
<1>1. /\ Capturing(c)
      /\ trace \in {NoTrace, task[c].content}
      /\ trace' = task[c].content
      /\ Goto(c, "register")
      /\ receipt' = receipt
  BY DEF WriteTrace, At, Capturing
<1>2. /\ task' = [b \in Clients |-> task'[b]]
      /\ task'[c] = [at |-> "register", source |-> task[c].source,
                     content |-> task[c].content, known |-> task[c].known]
      /\ \A b \in Clients \ {c} : task'[b] = task[b]
  BY <1>1, GotoKeepsCapture DEF Inv
<1>3. task[c].content # NoTrace /\ Contiguous(task[c].content)
  BY <1>1 DEF Inv, CaptureInv
<1>4. TaskInv'
  BY <1>2 DEF TaskInv, Inv, Capturing, IsCapture
<1>5. ASSUME NEW b \in Clients, At(b, "register"), b # c
      PROVE  trace' = task[b].content
  BY <1>1, <1>5 DEF Inv, CaptureInv, Capturing, At
<1>6. CaptureInv'
  BY <1>1, <1>2, <1>3, <1>5 DEF CaptureInv, Inv, Capturing, At
<1>7. receipt # NoTrace => receipt = trace'
  BY <1>1 DEF Inv, ReceiptIsSource
<1> QED
  BY <1>1, <1>3, <1>4, <1>6, <1>7 DEF Inv, ReceiptIsSource

\* The receipt is of what this finalizer wrote, or of the same bytes.
LEMMA RegisterKeeps ==
  ASSUME Inv, NEW c \in Clients, Register(c)
  PROVE  Inv'
<1>1. /\ Capturing(c)
      /\ trace = task[c].content
      /\ trace' = trace
      /\ task[c].content # NoTrace
      /\ Contiguous(trace)
  BY DEF Register, At, Capturing, Inv, CaptureInv
<1>2. receipt' \in {receipt, task[c].content}
  BY DEF Register
<1>3. PICK t : Elsewhere(c, t)
  BY CaptureOver DEF Register, Inv
<1>4. /\ task' = [b \in Clients |-> task'[b]]
      /\ task'[c] = t
      /\ \A b \in Clients \ {c} : task'[b] = task[b]
  BY <1>3, BecomeOne DEF Inv, Elsewhere
<1>5. TaskInv'
  BY <1>3, <1>4 DEF TaskInv, Inv, Elsewhere, Capturing
<1>6. CaptureInv'
  BY <1>1, <1>3, <1>4 DEF CaptureInv, Inv, Elsewhere, Capturing, At
<1> QED
  BY <1>1, <1>2, <1>5, <1>6 DEF Inv, ReceiptIsSource

-----------------------------------------------------------------------------
\* Every step keeps the invariant.
LEMMA NextInv == Inv /\ [Next]_vars => Inv'
<1> SUFFICES ASSUME Inv, [Next]_vars PROVE Inv'
  OBVIOUS
<1>1. CASE UNCHANGED vars
  BY <1>1 DEF Inv, vars, registered, TaskInv, CaptureInv, Capturing, At, ReceiptIsSource
<1>2. ASSUME NEW c \in Clients, Quiet(c)
      PROVE  Inv'
  BY <1>2, QuietElsewhere, ElsewhereKeeps DEF Inv
<1>3. ASSUME NEW c \in Clients, TraceConflict(c)
      PROVE  Inv'
  BY <1>3, CaptureOver, ElsewhereKeeps DEF Inv, TraceConflict
<1> QED
  BY <1>1, <1>2, <1>3, FinalizeKeeps, LookupKeeps, WriteTraceKeeps, RegisterKeeps
     DEF Next, Quiet

\* The receipt of a session is of the bytes of its immutable source file, and
\* they are a trace: _write_immutable_task_trace and the receipt's transaction
\* hold whatever finalizers race and wherever they die.
THEOREM ReceiptIsOfSource == Spec => []ReceiptIsSource
<1>1. Inv => ReceiptIsSource
  BY DEF Inv
<1> QED
  BY InitInv, NextInv, <1>1, PTL DEF Spec

-----------------------------------------------------------------------------
(* What a capture keeps.                                                   *)

Events == [id : Nat, sequence : Nat]
Starts == [at : {"start", "look", "link"}, next : {"idle", "event"}, id : Nat]
Makes == [at : {"event"}, id : Nat]
Appends == [at : {"append", "open"}, id : Nat, sequence : Nat]
Writes == [at : {"write"}, id : Nat, sequence : Nat, inode : Nat]
Captures == [at : {"lookup", "trace", "register", "archive", "unlink", "done"},
             source : {"pending", "captured"}, content : Seq(Events), known : SUBSET Nat]
Prunes == [at : {"prune"}, inode : Nat]
Tasks == {Idle} \cup Starts \cup Makes \cup Appends \cup Writes \cup Captures \cup Prunes
TypeInv ==
  /\ files \in Seq(Seq(Events))
  /\ pending \in 0 .. Len(files) /\ captured \in 0 .. Len(files)
  /\ trace \in Seq(Events) /\ receipt \in Seq(Events)
  /\ task \in [Clients -> Tasks]
  /\ calls \in Nat /\ acked \subseteq Nat
  /\ raced \in BOOLEAN /\ pruned \in BOOLEAN

\* Without prune the first buffer is the one that is captured, and a second one
\* is made only after that; every acknowledged event is in some buffer.
Store(F, p, q, R, A, gone) ==
  /\ gone = FALSE =>
       /\ q = Absent => p = Len(F) /\ Len(F) <= 1
       /\ q # Absent => q = 1 /\ R # NoTrace
       /\ R # NoTrace => Len(F) >= 1 /\ IsPrefix(R, F[1])
  /\ A \subseteq UNION {Ids(F[i]) : i \in DOMAIN F}
\* What a client may rely on, whoever runs beside it.
Knows(t, F, q, R, gone) ==
  /\ t.at = "write" => t.inode \in DOMAIN F
  /\ t.at \in {"lookup", "trace", "register"} =>
       /\ gone = FALSE /\ R = NoTrace => Len(F) >= 1 /\ IsPrefix(t.content, F[1])
       /\ Len(F) <= 1 => t.known \subseteq Ids(t.content)
  /\ t.at \in {"archive", "unlink", "done"} =>
       R # NoTrace /\ (Len(F) <= 1 => t.known \subseteq Ids(R))
  /\ t.at = "unlink" /\ gone = FALSE => q # Absent
\* As long as calls do not overlap: what a buffer's archive does not have is in
\* the receipt, and a client finds what it has read as it was.
Calm(F, p, q, R, A) ==
  /\ \A i \in {p, q} \ {Absent} : Contiguous(F[i])
  /\ A \subseteq Ids(R) \cup UNION {Ids(F[i]) : i \in {p, q} \ {Absent}}
  /\ q \notin {Absent, p} => Ids(F[q]) \subseteq Ids(R)
Alone(t, F, p, q, R) ==
  /\ t.at \in {"open", "write"} => p # Absent /\ t.sequence = Len(F[p]) + 1
  /\ t.at = "write" => t.inode = p
  /\ t.at \in {"lookup", "trace", "register", "archive"} /\ t.source = "pending" =>
       p # Absent /\ t.content = F[p]
  /\ t.at = "archive" => t.source = "pending" /\ R = t.content
  /\ t.at = "unlink" => p # Absent /\ q # Absent /\ F[p] = R /\ F[q] = R
KeepInv ==
  /\ Store(files, pending, captured, receipt, acked, pruned)
  /\ \A c \in Clients : Knows(task[c], files, captured, receipt, pruned)
  /\ raced = FALSE =>
       /\ Calm(files, pending, captured, receipt, acked)
       /\ \A c \in Clients : Alone(task[c], files, pending, captured, receipt)
       /\ \A b, c \in Clients : task[b] # Idle /\ task[c] # Idle => b = c

LEMMA TaskIs ==
  ASSUME NEW t \in Tasks
  PROVE  /\ t.at = "idle" => t = Idle
         /\ t.at \in {"start", "look", "link"} => t \in Starts
         /\ t.at = "event" => t \in Makes
         /\ t.at \in {"append", "open"} => t \in Appends
         /\ t.at = "write" => t \in Writes
         /\ t.at \in {"lookup", "trace", "register", "archive", "unlink", "done"} => t \in Captures
         /\ t.at = "prune" => t \in Prunes
BY DEF Tasks, Starts, Makes, Appends, Writes, Captures, Prunes, Idle

\* One client moves.
LEMMA BecomeTask ==
  ASSUME TypeInv, NEW c \in Clients, NEW u \in Tasks, Become(c, u)
  PROVE  /\ task' \in [Clients -> Tasks] /\ task'[c] = u
         /\ \A b \in Clients \ {c} : task'[b] = task[b]
BY DEF TypeInv, Become

\* No call overlaps this one.
Lonely(c) ==
  /\ raced' \in BOOLEAN
  /\ raced' = FALSE => raced = FALSE /\ \A b \in Clients \ {c} : task[b] = Idle

LEMMA CallLonely ==
  ASSUME TypeInv, NEW c \in Clients, raced' = (raced \/ \E b \in Clients : ~At(b, "idle"))
  PROVE  Lonely(c)
<1>1. \A b \in Clients : At(b, "idle") => task[b] = Idle
  BY TaskIs DEF TypeInv, At
<1>2. raced \in BOOLEAN
  BY DEF TypeInv
<1> QED
  BY <1>1, <1>2 DEF Lonely

LEMMA StepLonely ==
  ASSUME TypeInv, KeepInv, NEW c \in Clients, ~At(c, "idle"), raced' = raced
  PROVE  Lonely(c)
<1>1. task[c] # Idle
  BY DEF At, Idle
<1> QED
  BY <1>1 DEF TypeInv, KeepInv, Lonely

LEMMA Move ==
  ASSUME TypeInv, KeepInv, NEW c \in Clients, NEW u \in Tasks, Become(c, u), Lonely(c),
         files' \in Seq(Seq(Events)), pending' \in 0 .. Len(files'), captured' \in 0 .. Len(files'),
         trace' \in Seq(Events), receipt' \in Seq(Events),
         calls' \in Nat, acked' \subseteq Nat, pruned' \in BOOLEAN,
         Store(files', pending', captured', receipt', acked', pruned'),
         \A t \in Tasks : Knows(t, files, captured, receipt, pruned)
                            => Knows(t, files', captured', receipt', pruned'),
         Knows(u, files', captured', receipt', pruned'),
         raced = FALSE /\ raced' = FALSE =>
           /\ Calm(files', pending', captured', receipt', acked')
           /\ Alone(u, files', pending', captured', receipt')
  PROVE  TypeInv' /\ KeepInv'
<1>1. /\ task' \in [Clients -> Tasks] /\ task'[c] = u
      /\ \A b \in Clients \ {c} : task'[b] = task[b]
  BY BecomeTask
<1>2. TypeInv'
  BY <1>1 DEF TypeInv, Lonely
<1>3. ASSUME NEW b \in Clients PROVE Knows(task'[b], files', captured', receipt', pruned')
  <2>1. CASE b = c
    BY <1>1, <2>1
  <2>2. CASE b # c
    BY <1>1, <2>2 DEF KeepInv, TypeInv
  <2> QED
    BY <2>1, <2>2
<1>4. ASSUME raced' = FALSE
      PROVE  /\ Calm(files', pending', captured', receipt', acked')
             /\ \A b \in Clients : Alone(task'[b], files', pending', captured', receipt')
             /\ \A a, b \in Clients : task'[a] # Idle /\ task'[b] # Idle => a = b
  <2>1. \A t : t = Idle => Alone(t, files', pending', captured', receipt')
    BY DEF Alone, Idle
  <2>2. raced = FALSE /\ \A b \in Clients \ {c} : task'[b] = Idle
    BY <1>1, <1>4 DEF Lonely
  <2>3. ASSUME NEW b \in Clients PROVE Alone(task'[b], files', pending', captured', receipt')
    <3>1. CASE b = c
      BY <1>1, <1>4, <2>2, <3>1
    <3>2. CASE b # c
      <4>1. PICK t : t = task'[b] /\ t = Idle
        BY <2>2, <3>2
      <4> QED
        BY <2>1, <4>1
    <3> QED
      BY <3>1, <3>2
  <2>4. Calm(files', pending', captured', receipt', acked')
    BY <1>4, <2>2
  <2>5. \A a, b \in Clients : task'[a] # Idle /\ task'[b] # Idle => a = b
    BY <2>2
  <2> QED
    BY <2>3, <2>4, <2>5
<1> QED
  BY <1>2, <1>3, <1>4 DEF KeepInv

\* A step that leaves the buffers, the receipt and the acknowledgements alone.
LEMMA QuietMove ==
  ASSUME TypeInv, KeepInv, NEW c \in Clients, NEW u \in Tasks, Become(c, u), Lonely(c),
         UNCHANGED <<files, pending, captured, receipt, acked, pruned>>,
         trace' \in Seq(Events), calls' \in Nat,
         Knows(u, files, captured, receipt, pruned),
         raced = FALSE => Alone(u, files, pending, captured, receipt)
  PROVE  TypeInv' /\ KeepInv'
BY Move DEF TypeInv, KeepInv

\* Tasks of which nothing is claimed.
LEMMA NothingClaimed ==
  ASSUME NEW u, u.at \in {"idle", "start", "look", "link", "event", "append", "prune"},
         NEW F, NEW p, NEW q, NEW R, NEW gone
  PROVE  Knows(u, F, q, R, gone) /\ Alone(u, F, p, q, R)
BY DEF Knows, Alone

LEMMA StillKeeps ==
  ASSUME TypeInv, KeepInv, UNCHANGED vars
  PROVE  TypeInv' /\ KeepInv'
BY DEF TypeInv, KeepInv, vars, buffers, registered, history

LEMMA KeepInit == Init => TypeInv /\ KeepInv
<1> SUFFICES ASSUME Init PROVE TypeInv /\ KeepInv
  OBVIOUS
<1>1. TypeInv
  <2>1. <<>> \in Seq(Seq(Events)) /\ <<>> \in Seq(Events) /\ Len(<<>>) = 0
    OBVIOUS
  <2>2. task \in [Clients -> Tasks]
    BY DEF Init, Tasks
  <2>3. /\ files = <<>> /\ pending = 0 /\ captured = 0 /\ receipt = <<>> /\ trace = <<>>
        /\ acked = {} /\ calls = 0
    BY DEF Init, Absent, NoTrace
  <2>4. files \in Seq(Seq(Events)) /\ trace \in Seq(Events) /\ receipt \in Seq(Events) /\ Len(files) = 0
    BY <2>1, <2>3, Zenon
  <2>5. raced \in BOOLEAN /\ pruned \in BOOLEAN
    BY DEF Init
  <2>6. pending \in 0 .. Len(files) /\ captured \in 0 .. Len(files) /\ calls \in Nat /\ acked \subseteq Nat
    BY <2>3, <2>4
  <2> QED
    BY <2>2, <2>4, <2>5, <2>6 DEF TypeInv
<1>2. /\ files = <<>> /\ pending = 0 /\ captured = 0 /\ receipt = <<>> /\ acked = {} /\ pruned = FALSE
      /\ \A c \in Clients : task[c] = Idle
  BY DEF Init, Absent, NoTrace
<1>3. Store(files, pending, captured, receipt, acked, pruned)
  BY <1>2 DEF Store, Absent, NoTrace
<1>4. \A t : t = Idle => /\ Knows(t, files, captured, receipt, pruned)
                        /\ Alone(t, files, pending, captured, receipt)
  BY DEF Knows, Alone, Idle
<1>5. Calm(files, pending, captured, receipt, acked)
  BY <1>2 DEF Calm, Absent
<1>6. KeepInv
  BY <1>2, <1>3, <1>4, <1>5 DEF KeepInv
<1> QED
  BY <1>1, <1>6

-----------------------------------------------------------------------------
\* A call begins: a hook, or prune.
LEMMA BeginsKeeps ==
  ASSUME TypeInv, KeepInv, NEW c \in Clients,
         \/ \E next \in {"idle", "event"} : Start(c, next)
         \/ \E sequence \in 1 .. MaxCalls : AppendGiven(c, sequence)
         \/ Event(c) \/ Prune(c)
  PROVE  TypeInv' /\ KeepInv'
<1>1. PICK u \in Tasks : u.at \in {"start", "append", "event", "prune"} /\ Call(c, u)
  <2>1. calls + 1 \in Nat /\ captured \in Nat
    BY DEF TypeInv
  <2>2. ASSUME NEW next \in {"idle", "event"}, Start(c, next)
        PROVE  \E u \in Tasks : u.at \in {"start", "append", "event", "prune"} /\ Call(c, u)
    <3>1. PICK u : u = [at |-> "start", next |-> next, id |-> calls + 1]
      OBVIOUS
    <3>2. u \in Starts /\ u.at = "start"
      BY <2>1, <3>1 DEF Starts
    <3> QED
      BY <2>2, <3>1, <3>2 DEF Start, Tasks
  <2>3. ASSUME NEW sequence \in 1 .. MaxCalls, AppendGiven(c, sequence)
        PROVE  \E u \in Tasks : u.at \in {"start", "append", "event", "prune"} /\ Call(c, u)
    <3>1. PICK u : u = [at |-> "append", id |-> calls + 1, sequence |-> sequence]
      OBVIOUS
    <3>2. u \in Appends /\ u.at = "append"
      BY <2>1, <3>1, MaxCallsAssumption DEF Appends
    <3> QED
      BY <2>3, <3>1, <3>2 DEF AppendGiven, Tasks
  <2>4. ASSUME Event(c)
        PROVE  \E u \in Tasks : u.at \in {"start", "append", "event", "prune"} /\ Call(c, u)
    <3>1. PICK u : u = [at |-> "event", id |-> calls + 1]
      OBVIOUS
    <3>2. u \in Makes /\ u.at = "event"
      BY <2>1, <3>1 DEF Makes
    <3> QED
      BY <2>4, <3>1, <3>2 DEF Event, Tasks
  <2>5. ASSUME Prune(c)
        PROVE  \E u \in Tasks : u.at \in {"start", "append", "event", "prune"} /\ Call(c, u)
    <3>1. PICK u : u = [at |-> "prune", inode |-> captured]
      OBVIOUS
    <3>2. u \in Prunes /\ u.at = "prune"
      BY <2>1, <3>1 DEF Prunes
    <3> QED
      BY <2>5, <3>1, <3>2 DEF Prune, Tasks
  <2> QED
    BY <2>2, <2>3, <2>4, <2>5
<1>2. /\ Become(c, u) /\ UNCHANGED <<files, pending, captured, receipt, acked, pruned>>
      /\ trace' \in Seq(Events) /\ calls' \in Nat
  BY <1>1 DEF Call, buffers, registered, TypeInv
<1>3. Lonely(c)
  BY <1>1, CallLonely DEF Call
<1>4. Knows(u, files, captured, receipt, pruned) /\ Alone(u, files, pending, captured, receipt)
  BY <1>1, NothingClaimed
<1> QED
  BY <1>2, <1>3, <1>4, QuietMove

\* finalize reads a buffer; without prune, and while nothing is registered, that
\* is the first one, and it has what was acknowledged.
LEMMA FinalizeReads ==
  ASSUME TypeInv, KeepInv, NEW c \in Clients, Finalize(c)
  PROVE  TypeInv' /\ KeepInv'
<1>a. PICK source \in {"pending", "captured"}, inode \in DOMAIN files : \E u :
        /\ u = [at |-> "lookup", source |-> source, content |-> files[inode], known |-> acked]
        /\ Call(c, u)
        /\ inode = IF pending # Absent THEN pending ELSE captured
        /\ source = IF pending # Absent THEN "pending" ELSE "captured"
  <2>1. PICK inode : inode = IF pending # Absent THEN pending ELSE captured
    OBVIOUS
  <2>2. PICK source : source = IF pending # Absent THEN "pending" ELSE "captured"
    OBVIOUS
  <2>3. inode \in DOMAIN files
    BY <2>1 DEF Finalize, NoBuffer, TypeInv, Absent
  <2>4. source \in {"pending", "captured"}
    BY <2>2
  <2>5. PICK u : u = [at |-> "lookup", source |-> source, content |-> files[inode], known |-> acked]
    OBVIOUS
  <2>6. Call(c, u)
    BY <2>1, <2>2, <2>5 DEF Finalize
  <2> QED
    BY <2>1, <2>2, <2>3, <2>4, <2>5, <2>6
<1>1. PICK u :
        /\ u = [at |-> "lookup", source |-> source, content |-> files[inode], known |-> acked]
        /\ Call(c, u)
        /\ inode = IF pending # Absent THEN pending ELSE captured
        /\ source = IF pending # Absent THEN "pending" ELSE "captured"
  BY <1>a
<1>2. /\ Become(c, u) /\ UNCHANGED <<files, pending, captured, receipt, acked, pruned>>
      /\ trace' \in Seq(Events) /\ calls' \in Nat
  BY <1>1 DEF Call, buffers, registered, TypeInv
<1>3. Lonely(c)
  BY <1>1, CallLonely DEF Call
<1>4. /\ files[inode] \in Seq(Events) /\ acked \subseteq Nat /\ Len(files) \in Nat
      /\ DOMAIN files = 1 .. Len(files)
  BY DEF TypeInv
<1>5. u.at = "lookup" /\ u.source = source /\ u.content = files[inode] /\ u.known = acked
  BY <1>1
<1>6. u \in Captures
  BY <1>1, <1>4 DEF Captures
<1>7. Store(files, pending, captured, receipt, acked, pruned)
  BY DEF KeepInv
<1>8. ASSUME pruned = FALSE, receipt = NoTrace
      PROVE  Len(files) >= 1 /\ IsPrefix(files[inode], files[1])
  <2>1. inode = 1
    BY <1>1, <1>4, <1>7, <1>8 DEF Store, Absent
  <2>2. IsPrefix(files[inode], files[1])
    BY <1>4, <2>1 DEF IsPrefix
  <2> QED
    BY <1>4, <2>1, <2>2
<1>9. Len(files) <= 1 => acked \subseteq Ids(files[inode])
  BY <1>4, <1>7 DEF Store
<1>10. Knows(u, files, captured, receipt, pruned)
  BY <1>5, <1>8, <1>9 DEF Knows
<1>11. Alone(u, files, pending, captured, receipt)
  BY <1>1, <1>5 DEF Alone
<1> QED
  BY <1>2, <1>3, <1>6, <1>10, <1>11, QuietMove DEF Tasks

\* The steps of a hook before it writes, and the ends of calls.
LEMMA HookKeeps ==
  ASSUME TypeInv, KeepInv, NEW c \in Clients,
         \/ LookCaptured(c) \/ LookPending(c) \/ MakeEvent(c) \/ ReadBuffer(c) \/ Open(c)
         \/ Return(c) \/ Crash(c) \/ TraceConflict(c)
  PROVE  TypeInv' /\ KeepInv'
<1>1. /\ UNCHANGED <<files, pending, captured, receipt, acked, pruned>>
      /\ trace' \in Seq(Events) /\ calls' \in Nat /\ Lonely(c)
  <2>1. /\ UNCHANGED <<files, pending, captured, receipt, acked, pruned, trace, calls, raced>>
        /\ ~At(c, "idle")
    BY DEF LookCaptured, LookPending, MakeEvent, ReadBuffer, Open, Return, Crash, TraceConflict,
           Step, buffers, registered, history, At
  <2> QED
    BY <2>1, StepLonely DEF TypeInv
<1>2. PICK t \in Tasks : t = task[c]
  BY DEF TypeInv
<1>3. ASSUME NEW u \in Tasks, Become(c, u),
             u.at \in {"idle", "start", "look", "link", "event", "append", "prune"}
      PROVE  TypeInv' /\ KeepInv'
  <2>1. Knows(u, files, captured, receipt, pruned) /\ Alone(u, files, pending, captured, receipt)
    BY <1>3, NothingClaimed
  <2> QED
    BY <1>1, <1>3, <2>1, QuietMove
<1>4. Idle \in Tasks /\ Idle.at = "idle"
  BY DEF Tasks, Idle
<1>5. CASE Become(c, Idle)
  BY <1>3, <1>4, <1>5
<1>6. CASE LookCaptured(c) \/ LookPending(c)
  <2>1. t \in Starts
    BY <1>2, <1>6, TaskIs DEF LookCaptured, LookPending, At
  <2>2. PICK u : Become(c, u) /\ (u = Idle \/ u \in Makes \/ \E label \in {"look", "link"} : u = [t EXCEPT !.at = label])
    <3>1. [at |-> "event", id |-> t.id] \in Makes
      BY <2>1 DEF Starts, Makes
    <3> QED
      BY <1>2, <1>6, <3>1 DEF LookCaptured, LookPending, Goto, Started
  <2>3. u = Idle \/ u \in Makes \/ (u \in Starts /\ u.at \in {"look", "link"})
    BY <2>1, <2>2 DEF Starts
  <2>4. u \in Tasks /\ u.at \in {"idle", "event", "look", "link"}
    BY <1>4, <2>3 DEF Tasks, Makes
  <2> QED
    BY <1>3, <2>2, <2>4
<1>7. CASE MakeEvent(c) /\ pending # Absent
  <2>1. t \in Makes
    BY <1>2, <1>7, TaskIs DEF MakeEvent, At
  <2>2. Len(files[pending]) \in Nat
    BY <1>7 DEF TypeInv, Absent
  <2>3. PICK u : u = [at |-> "append", id |-> t.id, sequence |-> Len(files[pending]) + 1] /\ Become(c, u)
    BY <1>2, <1>7 DEF MakeEvent
  <2>4. u \in Appends /\ u.at = "append"
    BY <2>1, <2>2, <2>3 DEF Appends, Makes
  <2> QED
    BY <1>3, <2>3, <2>4 DEF Tasks
<1>8. CASE ReadBuffer(c) /\ pending # Absent /\ t.sequence = Len(files[pending]) + 1
  <2>1. t \in Appends
    BY <1>2, <1>8, TaskIs DEF ReadBuffer, At
  <2>2. PICK u : u = [t EXCEPT !.at = "open"] /\ Become(c, u)
    BY <1>2, <1>8 DEF ReadBuffer, Goto
  <2>3. u \in Appends /\ u.at = "open" /\ u.sequence = t.sequence
    BY <2>1, <2>2 DEF Appends
  <2>4. Knows(u, files, captured, receipt, pruned) /\ Alone(u, files, pending, captured, receipt)
    BY <1>8, <2>3 DEF Knows, Alone
  <2> QED
    BY <1>1, <2>2, <2>3, <2>4, QuietMove DEF Tasks
<1>9. CASE Open(c) /\ pending # Absent
  <2>1. t \in Appends
    BY <1>2, <1>9, TaskIs DEF Open, At
  <2>2. pending \in DOMAIN files /\ pending \in Nat
    BY <1>9 DEF TypeInv, Absent
  <2>3. PICK u : u = [at |-> "write", id |-> t.id, sequence |-> t.sequence, inode |-> pending] /\ Become(c, u)
    BY <1>2, <1>9 DEF Open
  <2>4. u \in Writes /\ u.at = "write" /\ u.sequence = t.sequence /\ u.inode = pending
    BY <2>1, <2>2, <2>3 DEF Appends, Writes
  <2>5. Knows(u, files, captured, receipt, pruned)
    BY <2>2, <2>4 DEF Knows
  <2>6. ASSUME raced = FALSE PROVE Alone(u, files, pending, captured, receipt)
    <3>1. Alone(t, files, pending, captured, receipt) /\ t.at = "open"
      BY <1>2, <1>9, <2>6 DEF KeepInv, Open, At
    <3> QED
      BY <2>4, <3>1 DEF Alone
  <2> QED
    BY <1>1, <2>3, <2>4, <2>5, <2>6, QuietMove DEF Tasks
<1>10. CASE MakeEvent(c) \/ ReadBuffer(c) \/ Open(c)
  <2>1. CASE MakeEvent(c)
    BY <1>5, <1>7, <2>1 DEF MakeEvent, Fail
  <2>2. CASE Open(c)
    BY <1>5, <1>9, <2>2 DEF Open, Fail
  <2>3. CASE ReadBuffer(c)
    <3>1. CASE pending # Absent /\ task[c].sequence = Len(files[pending]) + 1
      BY <1>2, <1>8, <2>3, <3>1
    <3>2. CASE ~(pending # Absent /\ task[c].sequence = Len(files[pending]) + 1)
      BY <1>5, <2>3, <3>2 DEF ReadBuffer, Fail
    <3> QED
      BY <3>1, <3>2
  <2> QED
    BY <1>10, <2>1, <2>2, <2>3
<1>11. CASE Return(c) \/ Crash(c) \/ TraceConflict(c)
  BY <1>5, <1>11 DEF Return, Crash, TraceConflict, Fail
<1> QED
  BY <1>6, <1>10, <1>11

-----------------------------------------------------------------------------
\* A finalizer goes on with what it has read.
LEMMA CaptureMoves ==
  ASSUME NEW t \in Captures, NEW u,
         NEW label \in {"lookup", "trace", "register", "archive", "unlink", "done"},
         u = [t EXCEPT !.at = label]
  PROVE  /\ u \in Tasks /\ u.at = label
         /\ u.source = t.source /\ u.content = t.content /\ u.known = t.known
<1>1. u \in Captures /\ u.at = label /\ u.source = t.source /\ u.content = t.content /\ u.known = t.known
  BY DEF Captures
<1> QED
  BY <1>1 DEF Tasks

LEMMA FinalizerIs ==
  ASSUME Inv, TypeInv, KeepInv, NEW c \in Clients,
         task[c].at \in {"lookup", "trace", "register", "archive", "unlink", "done"}
  PROVE  /\ task[c] \in Captures
         /\ Knows(task[c], files, captured, receipt, pruned)
         /\ task[c].at \in {"lookup", "trace", "register"} => task[c].content # NoTrace
         /\ raced = FALSE => Alone(task[c], files, pending, captured, receipt)
         /\ ~At(c, "idle")
<1>1. task[c] \in Tasks
  BY DEF TypeInv
<1> QED
  BY <1>1, TaskIs DEF KeepInv, Inv, CaptureInv, Capturing, At

\* Where a finalizer stands after the registration.
Registers(t, u, F, p, q, R, gone) ==
  /\ Knows(u, F, q, R, gone)
  /\ (t.source = "pending" => p # Absent /\ t.content = F[p]) => Alone(u, F, p, q, R)

LEMMA RegisteredKnows ==
  ASSUME NEW t, NEW u, NEW F, NEW p, NEW q, NEW R, NEW gone,
         R = t.content, R # NoTrace, Len(F) <= 1 => t.known \subseteq Ids(t.content),
         u.at = IF t.source = "pending" THEN "archive" ELSE "done",
         u.source = t.source, u.content = t.content, u.known = t.known
  PROVE  Registers(t, u, F, p, q, R, gone)
BY DEF Registers, Knows, Alone

LEMMA LookupMoves ==
  ASSUME Inv, TypeInv, KeepInv, NEW c \in Clients, Lookup(c) \/ WriteTrace(c)
  PROVE  TypeInv' /\ KeepInv'
<1>1. PICK t \in Captures : /\ t = task[c] /\ Knows(t, files, captured, receipt, pruned) /\ t.content # NoTrace
                            /\ raced = FALSE => Alone(t, files, pending, captured, receipt)
                            /\ t.at \in {"lookup", "trace"} /\ ~At(c, "idle")
  BY FinalizerIs DEF Lookup, WriteTrace, At
<1>2. /\ UNCHANGED <<files, pending, captured, receipt, acked, pruned>>
      /\ trace' \in Seq(Events) /\ calls' \in Nat /\ Lonely(c)
  <2>1. /\ UNCHANGED <<files, pending, captured, receipt, acked, pruned, calls, raced>>
        /\ trace' \in {trace, t.content}
    BY <1>1 DEF Lookup, WriteTrace, Step, buffers, registered, history
  <2>2. t.content \in Seq(Events)
    BY DEF Captures
  <2> QED
    BY <1>1, <2>1, <2>2, StepLonely DEF TypeInv
<1>3. CASE Become(c, Idle)
  BY <1>2, <1>3, QuietMove DEF Tasks, Knows, Alone, Idle
<1>4. CASE \E label \in {"trace", "register"} : Goto(c, label)
  <2>a. PICK label \in {"trace", "register"} : \E u : u = [t EXCEPT !.at = label] /\ Become(c, u)
    BY <1>1, <1>4 DEF Goto
  <2>1. PICK u : u = [t EXCEPT !.at = label] /\ Become(c, u)
    BY <2>a
  <2>2. u \in Tasks /\ u.at = label /\ u.source = t.source /\ u.content = t.content /\ u.known = t.known
    BY <2>1, CaptureMoves
  <2>3. Knows(u, files, captured, receipt, pruned)
    BY <1>1, <2>2 DEF Knows
  <2>4. raced = FALSE => Alone(u, files, pending, captured, receipt)
    BY <1>1, <2>2 DEF Alone
  <2> QED
    BY <1>2, <2>1, <2>2, <2>3, <2>4, QuietMove
<1>5. CASE AfterCapture(c) /\ receipt = t.content /\ t.at = "lookup"
  <2>a. PICK label \in {"archive", "done"} : \E u :
          /\ label = (IF t.source = "pending" THEN "archive" ELSE "done")
          /\ u = [t EXCEPT !.at = label] /\ Become(c, u)
    BY <1>1, <1>5 DEF AfterCapture, Goto
  <2>1. PICK u :
          /\ label = (IF t.source = "pending" THEN "archive" ELSE "done")
          /\ u = [t EXCEPT !.at = label] /\ Become(c, u)
    BY <2>a
  <2>2. u \in Tasks /\ u.at = label /\ u.source = t.source /\ u.content = t.content /\ u.known = t.known
    BY <2>1, CaptureMoves
  <2>3. Len(files) <= 1 => t.known \subseteq Ids(t.content)
    BY <1>1, <1>5 DEF Knows
  <2>4. raced = FALSE => (t.source = "pending" => pending # Absent /\ t.content = files[pending])
    BY <1>1, <1>5 DEF Alone
  <2>5. /\ Knows(u, files, captured, receipt, pruned)
        /\ raced = FALSE => Alone(u, files, pending, captured, receipt)
    <3>1. Registers(t, u, files, pending, captured, receipt, pruned)
      BY <1>1, <1>5, <2>1, <2>2, <2>3, RegisteredKnows
    <3> QED
      BY <2>4, <3>1 DEF Registers
  <2> QED
    BY <1>2, <2>1, <2>2, <2>5, QuietMove
<1>6. CASE Lookup(c)
  BY <1>1, <1>3, <1>4, <1>5, <1>6 DEF Lookup, Fail, At
<1>7. CASE WriteTrace(c)
  BY <1>4, <1>7 DEF WriteTrace
<1> QED
  BY <1>6, <1>7

\* The first receipt is of the beginning of the only buffer, unless one was
\* pruned; later ones change nothing.
LEMMA RegisterMoves ==
  ASSUME Inv, TypeInv, KeepInv, NEW c \in Clients, Register(c)
  PROVE  TypeInv' /\ KeepInv'
<1>1. PICK t \in Captures : /\ t = task[c] /\ Knows(t, files, captured, receipt, pruned) /\ t.content # NoTrace
                            /\ raced = FALSE => Alone(t, files, pending, captured, receipt)
                            /\ t.at = "register" /\ ~At(c, "idle")
  BY FinalizerIs DEF Register, At
<1>2. /\ UNCHANGED <<files, pending, captured, acked, pruned, trace, calls, raced>>
  BY DEF Register, Step, buffers, history
<1>3. Lonely(c)
  BY <1>1, <1>2, StepLonely
<1>4. CASE Become(c, Idle) /\ UNCHANGED receipt
  BY <1>2, <1>3, <1>4, QuietMove DEF Tasks, Knows, Alone, Idle, TypeInv
<1>5. CASE receipt \in {NoTrace, t.content} /\ receipt' = t.content /\ AfterCapture(c)
  <2>a. PICK label \in {"archive", "done"} : \E u :
          /\ label = (IF t.source = "pending" THEN "archive" ELSE "done")
          /\ u = [t EXCEPT !.at = label] /\ Become(c, u)
    BY <1>1, <1>5 DEF AfterCapture, Goto
  <2>1. PICK u :
          /\ label = (IF t.source = "pending" THEN "archive" ELSE "done")
          /\ u = [t EXCEPT !.at = label] /\ Become(c, u)
    BY <2>a
  <2>2. u \in Tasks /\ u.at = label /\ u.source = t.source /\ u.content = t.content /\ u.known = t.known
    BY <2>1, CaptureMoves
  <2>3. PICK R : R = t.content
    OBVIOUS
  <2>4. Store(files, pending, captured, R, acked, pruned)
    <3>1. pruned = FALSE => Len(files) >= 1 /\ IsPrefix(R, files[1])
      BY <1>1, <1>5, <2>3 DEF KeepInv, Store, Knows
    <3> QED
      BY <1>1, <1>5, <2>3, <3>1 DEF KeepInv, Store
  <2>5. \A v \in Tasks : Knows(v, files, captured, receipt, pruned) => Knows(v, files, captured, R, pruned)
    BY <1>1, <1>5, <2>3 DEF Knows
  <2>6. Len(files) <= 1 => t.known \subseteq Ids(t.content)
    BY <1>1 DEF Knows
  <2>7. raced = FALSE => (t.source = "pending" => pending # Absent /\ t.content = files[pending])
    BY <1>1 DEF Alone
  <2>8. /\ Knows(u, files, captured, R, pruned)
        /\ raced = FALSE => Alone(u, files, pending, captured, R)
    <3>1. Registers(t, u, files, pending, captured, R, pruned)
      BY <1>1, <2>1, <2>2, <2>3, <2>6, RegisteredKnows
    <3> QED
      BY <2>7, <3>1 DEF Registers
  <2>9. raced = FALSE => Calm(files, pending, captured, R, acked)
    <3>1. Ids(receipt) \subseteq Ids(R)
      BY <1>5, <2>3 DEF Ids, NoTrace
    <3> QED
      BY <3>1 DEF KeepInv, Calm
  <2>10. R \in Seq(Events) /\ receipt' = R
    BY <1>5, <2>3 DEF Captures
  <2> QED
    BY <1>2, <1>3, <2>1, <2>2, <2>4, <2>5, <2>8, <2>9, <2>10, Move DEF TypeInv
<1> QED
  BY <1>1, <1>4, <1>5 DEF Register, Fail

-----------------------------------------------------------------------------
(* The steps that change the buffers.                                      *)

LEMMA PrefixAppend ==
  ASSUME NEW s \in Seq(Events), NEW t \in Seq(Events), IsPrefix(s, t), NEW x \in Events
  PROVE  IsPrefix(s, Append(t, x))
<1>1. PICK z : z = Append(t, x)
  OBVIOUS
<1>2. /\ Len(s) \in Nat /\ Len(t) \in Nat /\ Len(s) <= Len(t) /\ z \in Seq(Events) /\ Len(z) = Len(t) + 1
      /\ \A i \in 1 .. Len(t) : z[i] = t[i]
  BY <1>1 DEF IsPrefix
<1>3. SubSeq(s, 1, Len(s)) = SubSeq(t, 1, Len(s))
  BY DEF IsPrefix
<1>4. SubSeq(t, 1, Len(s)) = [i \in 1 .. Len(s) |-> t[i]]
  BY <1>2
<1>5. SubSeq(z, 1, Len(s)) = [i \in 1 .. Len(s) |-> z[i]]
  BY <1>2
<1>6. SubSeq(s, 1, Len(s)) = SubSeq(z, 1, Len(s))
  BY <1>2, <1>3, <1>4, <1>5
<1> QED
  BY <1>1, <1>2, <1>6 DEF IsPrefix

LEMMA LinkKeeps ==
  ASSUME TypeInv, KeepInv, NEW c \in Clients, LinkNew(c)
  PROVE  TypeInv' /\ KeepInv'
<1>1. PICK t \in Starts : t = task[c]
  BY TaskIs DEF TypeInv, LinkNew, At
<1>2. UNCHANGED <<captured, receipt, acked, pruned, trace, calls, raced>> /\ ~At(c, "idle")
  BY DEF LinkNew, Step, registered, history, At
<1>3. Lonely(c)
  BY <1>2, StepLonely
<1>4. PICK u \in Tasks : Become(c, u) /\ u.at \in {"idle", "event"}
  <2>1. Idle \in Tasks /\ Idle.at = "idle"
    BY DEF Tasks, Idle
  <2>2. [at |-> "event", id |-> t.id] \in Tasks
    BY DEF Starts, Makes, Tasks
  <2>3. Become(c, Idle) \/ Become(c, [at |-> "event", id |-> t.id])
    BY <1>1 DEF LinkNew, Started, Fail
  <2>4. [at |-> "event", id |-> t.id].at = "event"
    OBVIOUS
  <2> QED
    BY <2>1, <2>2, <2>3, <2>4
<1>5. CASE pending # Absent
  <2>1. UNCHANGED <<files, pending>>
    BY <1>5 DEF LinkNew
  <2>2. Knows(u, files, captured, receipt, pruned) /\ Alone(u, files, pending, captured, receipt)
    BY <1>4, NothingClaimed
  <2> QED
    BY <1>2, <1>3, <1>4, <2>1, <2>2, QuietMove DEF TypeInv
<1>6. CASE pending = Absent
  <2>1. PICK F, G : F = files /\ G = files' /\ G = Append(F, <<>>) /\ pending' = Len(G)
    BY <1>6 DEF LinkNew
  <2>2. /\ F \in Seq(Seq(Events)) /\ Len(F) \in Nat /\ DOMAIN F = 1 .. Len(F)
        /\ <<>> \in Seq(Events) /\ captured \in 0 .. Len(F)
    BY <2>1 DEF TypeInv
  <2>3. /\ G \in Seq(Seq(Events)) /\ Len(G) = Len(F) + 1 /\ DOMAIN G = 1 .. Len(F) + 1
        /\ \A i \in DOMAIN F : G[i] = F[i]
        /\ G[Len(F) + 1] = <<>>
    BY <2>1, <2>2
  <2>4. Store(F, pending, captured, receipt, acked, pruned)
    BY <2>1 DEF KeepInv
  <2>5. Store(G, Len(G), captured, receipt, acked, pruned)
    <3>1. acked \subseteq UNION {Ids(G[i]) : i \in DOMAIN G}
      BY <2>2, <2>3, <2>4 DEF Store
    <3>2. ASSUME pruned = FALSE, captured = Absent PROVE Len(G) <= 1
      BY <1>6, <2>2, <2>3, <2>4, <3>2 DEF Store, Absent
    <3>3. ASSUME pruned = FALSE, captured # Absent PROVE captured = 1 /\ receipt # NoTrace
      BY <2>4, <3>3 DEF Store
    <3>4. ASSUME pruned = FALSE, receipt # NoTrace PROVE Len(G) >= 1 /\ IsPrefix(receipt, G[1])
      BY <2>2, <2>3, <2>4, <3>4 DEF Store
    <3> QED
      BY <3>1, <3>2, <3>3, <3>4 DEF Store
  <2>6. ASSUME NEW v, Knows(v, F, captured, receipt, pruned) PROVE Knows(v, G, captured, receipt, pruned)
    <3>1. v.at = "write" => v.inode \in DOMAIN G
      BY <2>2, <2>3, <2>6 DEF Knows
    <3>2. Len(G) <= 1 => Len(F) <= 1
      BY <2>2, <2>3
    <3>3. ASSUME Len(F) >= 1 PROVE Len(G) >= 1 /\ G[1] = F[1]
      <4>1. 1 \in DOMAIN F
        BY <2>2, <3>3
      <4>2. G[1] = F[1]
        BY <2>3, <4>1
      <4>3. Len(G) >= 1
        BY <2>2, <2>3
      <4> QED
        BY <4>2, <4>3
    <3> QED
      BY <2>6, <3>1, <3>2, <3>3 DEF Knows
  <2>7. Knows(u, G, captured, receipt, pruned) /\ Alone(u, G, Len(G), captured, receipt)
    BY <1>4, NothingClaimed
  <2>8. ASSUME raced = FALSE PROVE Calm(G, Len(G), captured, receipt, acked)
    <3>1. Calm(F, pending, captured, receipt, acked)
      BY <2>1, <2>8 DEF KeepInv
    <3>2. ASSUME captured # Absent PROVE captured \in DOMAIN F /\ G[captured] = F[captured]
      <4>1. captured \in DOMAIN F
        BY <2>2, <3>2 DEF Absent
      <4> QED
        BY <2>3, <4>1
    <3>3. Contiguous(G[Len(G)])
      BY <2>2, <2>3 DEF Contiguous
    <3> QED
      BY <1>6, <3>1, <3>2, <3>3 DEF Calm
  <2>9. Len(G) \in 0 .. Len(G) /\ captured \in 0 .. Len(G)
    BY <2>2, <2>3
  <2> QED
    BY <1>2, <1>3, <1>4, <2>1, <2>3, <2>5, <2>6, <2>7, <2>8, <2>9, Move DEF TypeInv
<1> QED
  BY <1>5, <1>6

\* An event is appended to the buffer that was opened, wherever its names are.
LEMMA WriteKeeps ==
  ASSUME TypeInv, KeepInv, NEW c \in Clients, Write(c)
  PROVE  TypeInv' /\ KeepInv'
<1>1. PICK t \in Writes : /\ t = task[c] /\ Knows(t, files, captured, receipt, pruned) /\ t.at = "write"
                          /\ raced = FALSE => Alone(t, files, pending, captured, receipt)
  BY TaskIs DEF TypeInv, KeepInv, Write, At
<1>2. UNCHANGED <<pending, captured, receipt, pruned, trace, calls, raced>> /\ ~At(c, "idle")
  BY DEF Write, registered, At
<1>3. Lonely(c)
  BY <1>2, StepLonely
<1>4. PICK F, G, e, n : /\ F = files /\ G = files' /\ n = t.inode /\ n \in DOMAIN F
                        /\ e = [id |-> t.id, sequence |-> t.sequence]
                        /\ G = [F EXCEPT ![n] = Append(F[n], e)]
  BY <1>1 DEF Write, Knows
<1>5. e \in Events /\ e.id = t.id /\ e.sequence = t.sequence /\ t.id \in Nat
  BY <1>4 DEF Writes, Events
<1>6. /\ F \in Seq(Seq(Events)) /\ Len(F) \in Nat /\ DOMAIN F = 1 .. Len(F) /\ F[n] \in Seq(Events)
      /\ receipt \in Seq(Events)
  BY <1>4 DEF TypeInv
<1>7. PICK z : /\ z = Append(F[n], e) /\ z \in Seq(Events) /\ Len(z) = Len(F[n]) + 1
               /\ DOMAIN z = 1 .. Len(F[n]) + 1 /\ DOMAIN F[n] = 1 .. Len(F[n]) /\ Len(F[n]) \in Nat
               /\ z[Len(F[n]) + 1] = e /\ \A i \in DOMAIN F[n] : z[i] = F[n][i]
  <2>1. PICK s : s = F[n] /\ s \in Seq(Events)
    BY <1>6
  <2>2. PICK z : z = Append(s, e)
    OBVIOUS
  <2>3. /\ z \in Seq(Events) /\ Len(z) = Len(s) + 1 /\ DOMAIN z = 1 .. Len(s) + 1 /\ DOMAIN s = 1 .. Len(s)
        /\ Len(s) \in Nat /\ z[Len(s) + 1] = e /\ \A i \in DOMAIN s : z[i] = s[i]
    BY <1>5, <2>1, <2>2
  <2> QED
    BY <2>1, <2>2, <2>3
<1>8. /\ G \in Seq(Seq(Events)) /\ Len(G) = Len(F) /\ DOMAIN G = DOMAIN F
      /\ G[n] = z /\ \A i \in DOMAIN F \ {n} : G[i] = F[i]
  BY <1>4, <1>6, <1>7
<1>9. Ids(z) = Ids(F[n]) \cup {t.id}
  <2>1. \A i \in DOMAIN z : i \in DOMAIN F[n] \/ i = Len(F[n]) + 1
    BY <1>7
  <2>2. \A i \in DOMAIN F[n] : i \in DOMAIN z
    BY <1>7
  <2>3. Len(F[n]) + 1 \in DOMAIN z
    BY <1>7
  <2> QED
    BY <1>5, <1>7, <2>1, <2>2, <2>3 DEF Ids
<1>10. ASSUME NEW s \in Seq(Events), Len(F) >= 1, IsPrefix(s, F[1]) PROVE IsPrefix(s, G[1])
  <2>1. 1 \in DOMAIN F
    BY <1>6, <1>10
  <2>2. CASE n = 1
    <3>1. PICK y : y = F[n] /\ y \in Seq(Events) /\ IsPrefix(s, y) /\ z = Append(y, e)
      BY <1>6, <1>7, <1>10, <2>2
    <3>2. IsPrefix(s, z)
      BY <1>5, <3>1, PrefixAppend
    <3> QED
      BY <1>8, <2>2, <3>2
  <2>3. CASE n # 1
    BY <1>8, <1>10, <2>1, <2>3
  <2> QED
    BY <2>2, <2>3
<1>11. acked' = acked \cup {t.id} /\ Become(c, Idle)
  BY <1>1 DEF Write
<1>12. Store(G, pending, captured, receipt, acked', pruned)
  <2>1. Store(F, pending, captured, receipt, acked, pruned)
    BY <1>4 DEF KeepInv
  <2>2. acked' \subseteq UNION {Ids(G[i]) : i \in DOMAIN G}
    <3>1. ASSUME NEW x \in acked PROVE \E i \in DOMAIN G : x \in Ids(G[i])
      <4>1. PICK i \in DOMAIN F : x \in Ids(F[i])
        BY <2>1, <3>1 DEF Store
      <4> QED
        BY <1>8, <1>9, <4>1
    <3>2. t.id \in Ids(G[n])
      BY <1>8, <1>9
    <3>3. ASSUME NEW x \in acked' PROVE \E i \in DOMAIN G : x \in Ids(G[i])
      <4>1. n \in DOMAIN G
        BY <1>4, <1>8
      <4>2. x \in acked \/ x = t.id
        BY <1>11, <3>3
      <4> QED
        BY <3>1, <3>2, <4>1, <4>2, Zenon
    <3> QED
      BY <3>3
  <2> QED
    BY <1>6, <1>8, <1>10, <2>1, <2>2 DEF Store
<1>13. ASSUME NEW v \in Tasks, Knows(v, F, captured, receipt, pruned) PROVE Knows(v, G, captured, receipt, pruned)
  <2>1. v.at \in {"lookup", "trace", "register"} => v.content \in Seq(Events)
    BY TaskIs DEF Captures
  <2> QED
    BY <1>8, <1>10, <1>13, <2>1 DEF Knows
<1>14. Idle \in Tasks /\ Knows(Idle, G, captured, receipt, pruned) /\ Alone(Idle, G, pending, captured, receipt)
  BY NothingClaimed DEF Tasks, Idle
<1>15. ASSUME raced = FALSE PROVE Calm(G, pending, captured, receipt, acked')
  <2>1. Calm(F, pending, captured, receipt, acked)
    BY <1>4, <1>15 DEF KeepInv
  <2>2. pending = n /\ n # Absent /\ t.sequence = Len(F[n]) + 1
    BY <1>1, <1>4, <1>15 DEF Alone
  <2>3. Contiguous(z)
    <3>1. Contiguous(F[n])
      BY <2>1, <2>2 DEF Calm
    <3>2. ASSUME NEW i \in DOMAIN z PROVE z[i].sequence = i
      <4>1. CASE i \in DOMAIN F[n]
        BY <1>7, <3>1, <4>1 DEF Contiguous
      <4>2. CASE i = Len(F[n]) + 1
        BY <1>5, <1>7, <2>2, <4>2
      <4> QED
        BY <1>7, <4>1, <4>2
    <3> QED
      BY <3>2 DEF Contiguous
  <2>4. captured \notin {Absent, n} => G[captured] = F[captured]
    BY <1>4, <1>6, <1>8 DEF TypeInv, Absent
  <2>5. /\ \A i \in {pending, captured} \ {Absent} : Contiguous(G[i])
        /\ captured \notin {Absent, pending} => Ids(G[captured]) \subseteq Ids(receipt)
    BY <1>8, <2>1, <2>2, <2>3, <2>4 DEF Calm
  <2>6. ASSUME NEW x \in acked'
        PROVE  x \in Ids(receipt) \/ \E i \in {pending, captured} \ {Absent} : x \in Ids(G[i])
    <3>1. CASE x = t.id
      BY <1>8, <1>9, <2>2, <3>1
    <3>2. CASE x \in acked
      <4>1. x \in Ids(receipt) \/ \E i \in {pending, captured} \ {Absent} : x \in Ids(F[i])
        BY <2>1, <3>2 DEF Calm
      <4> QED
        BY <1>8, <1>9, <2>2, <2>4, <4>1
    <3> QED
      BY <1>11, <3>1, <3>2
  <2> QED
    BY <2>5, <2>6 DEF Calm
<1>16. pending \in 0 .. Len(G) /\ captured \in 0 .. Len(G) /\ acked' \subseteq Nat
  BY <1>4, <1>5, <1>8, <1>11 DEF TypeInv
<1>17. trace \in Seq(Events) /\ calls \in Nat /\ pruned \in BOOLEAN
  BY DEF TypeInv
<1>18. /\ files' \in Seq(Seq(Events)) /\ pending' \in 0 .. Len(files') /\ captured' \in 0 .. Len(files')
       /\ trace' \in Seq(Events) /\ receipt' \in Seq(Events) /\ calls' \in Nat /\ acked' \subseteq Nat
       /\ pruned' \in BOOLEAN
  BY <1>2, <1>4, <1>6, <1>8, <1>16, <1>17
<1>19. /\ Store(files', pending', captured', receipt', acked', pruned')
       /\ \A v \in Tasks : Knows(v, files, captured, receipt, pruned)
                              => Knows(v, files', captured', receipt', pruned')
       /\ Knows(Idle, files', captured', receipt', pruned')
       /\ raced = FALSE => Calm(files', pending', captured', receipt', acked')
       /\ Alone(Idle, files', pending', captured', receipt')
  BY <1>2, <1>4, <1>12, <1>13, <1>14, <1>15
<1> QED
  BY <1>3, <1>11, <1>14, <1>18, <1>19, Move

\* Without prune, what is archived first is the first buffer.
LEMMA ArchiveKeeps ==
  ASSUME Inv, TypeInv, KeepInv, NEW c \in Clients, Archive(c)
  PROVE  TypeInv' /\ KeepInv'
<1>1. PICK t \in Captures : /\ t = task[c] /\ Knows(t, files, captured, receipt, pruned)
                            /\ raced = FALSE => Alone(t, files, pending, captured, receipt)
                            /\ t.at = "archive" /\ ~At(c, "idle")
  BY FinalizerIs DEF Archive, At
<1>2. UNCHANGED <<files, pending, receipt, acked, pruned, trace, calls, raced>>
  BY DEF Archive, Step, registered, history
<1>3. Lonely(c)
  BY <1>1, <1>2, StepLonely
<1>4. CASE Become(c, Idle) /\ UNCHANGED captured
  BY <1>2, <1>3, <1>4, QuietMove DEF Tasks, Knows, Alone, Idle, TypeInv
<1>5. CASE /\ pending # Absent /\ (captured = Absent \/ files[captured] = files[pending])
           /\ Goto(c, "unlink") /\ captured' = IF captured = Absent THEN pending ELSE captured
  <2>1. PICK u : u = [t EXCEPT !.at = "unlink"] /\ Become(c, u)
    BY <1>1, <1>5 DEF Goto
  <2>2. u \in Tasks /\ u.at = "unlink" /\ u.known = t.known
    BY <2>1, CaptureMoves
  <2>3. PICK q : q = captured' /\ q # Absent /\ q \in {pending, captured} /\ q \in 0 .. Len(files)
                 /\ (captured = Absent => q = pending) /\ (captured # Absent => q = captured)
    BY <1>5 DEF TypeInv
  <2>4. receipt # NoTrace /\ (Len(files) <= 1 => t.known \subseteq Ids(receipt))
    BY <1>1 DEF Knows
  <2>5. Store(files, pending, q, receipt, acked, pruned)
    <3>1. Store(files, pending, captured, receipt, acked, pruned)
      BY DEF KeepInv
    <3>2. pruned = FALSE => q = 1
      BY <1>5, <2>3, <3>1 DEF Store, TypeInv, Absent
    <3> QED
      BY <2>3, <2>4, <3>1, <3>2 DEF Store
  <2>6. \A v \in Tasks : Knows(v, files, captured, receipt, pruned) => Knows(v, files, q, receipt, pruned)
    BY <2>3 DEF Knows
  <2>7. Knows(u, files, q, receipt, pruned)
    BY <2>2, <2>3, <2>4 DEF Knows
  <2>8. ASSUME raced = FALSE
        PROVE  Calm(files, pending, q, receipt, acked) /\ Alone(u, files, pending, q, receipt)
    <3>1. Calm(files, pending, captured, receipt, acked)
      BY <2>8 DEF KeepInv
    <3>2. files[pending] = receipt
      BY <1>1, <2>8 DEF Alone
    <3>3. files[q] = receipt
      BY <1>5, <2>3, <3>2
    <3>4. Calm(files, pending, q, receipt, acked)
      BY <1>5, <2>3, <3>1, <3>3 DEF Calm
    <3>5. Alone(u, files, pending, q, receipt)
      BY <1>5, <2>2, <2>3, <3>2, <3>3 DEF Alone
    <3> QED
      BY <3>4, <3>5
  <2> QED
    BY <1>2, <1>3, <2>1, <2>2, <2>3, <2>5, <2>6, <2>7, <2>8, Move DEF TypeInv
<1> QED
  BY <1>4, <1>5 DEF Archive, Fail

LEMMA UnlinkKeeps ==
  ASSUME Inv, TypeInv, KeepInv, NEW c \in Clients, Unlink(c)
  PROVE  TypeInv' /\ KeepInv'
<1>1. PICK t \in Captures : /\ t = task[c] /\ Knows(t, files, captured, receipt, pruned)
                            /\ raced = FALSE => Alone(t, files, pending, captured, receipt)
                            /\ t.at = "unlink" /\ ~At(c, "idle")
  BY FinalizerIs DEF Unlink, At
<1>2. UNCHANGED <<files, captured, receipt, acked, pruned, trace, calls, raced>> /\ pending' = Absent
  BY DEF Unlink, Step, registered, history
<1>3. Lonely(c)
  BY <1>1, <1>2, StepLonely
<1>4. receipt # NoTrace /\ (Len(files) <= 1 => t.known \subseteq Ids(receipt))
      /\ (pruned = FALSE => captured # Absent)
  BY <1>1 DEF Knows
<1>5. PICK u \in Tasks : /\ Become(c, u)
                         /\ Knows(u, files, captured, receipt, pruned)
                         /\ Alone(u, files, Absent, captured, receipt)
  <2>1. CASE Become(c, Idle)
    BY <2>1 DEF Tasks, Knows, Alone, Idle
  <2>2. CASE Goto(c, "done")
    <3>1. PICK u : u = [t EXCEPT !.at = "done"] /\ Become(c, u)
      BY <1>1, <2>2 DEF Goto
    <3>2. u \in Tasks /\ u.at = "done" /\ u.known = t.known
      BY <3>1, CaptureMoves
    <3>3. Knows(u, files, captured, receipt, pruned)
      BY <1>4, <3>2 DEF Knows
    <3>4. Alone(u, files, Absent, captured, receipt)
      BY <3>2 DEF Alone
    <3> QED
      BY <3>1, <3>2, <3>3, <3>4
  <2> QED
    BY <2>1, <2>2 DEF Unlink, Fail
<1>6. Store(files, Absent, captured, receipt, acked, pruned)
  BY <1>4 DEF KeepInv, Store
<1>7. ASSUME raced = FALSE PROVE Calm(files, Absent, captured, receipt, acked)
  <2>1. Calm(files, pending, captured, receipt, acked)
    BY <1>7 DEF KeepInv
  <2>2. files[pending] = receipt /\ files[captured] = receipt
    BY <1>1, <1>7 DEF Alone
  <2> QED
    BY <2>1, <2>2 DEF Calm
<1>8. Absent \in 0 .. Len(files)
  BY DEF TypeInv, Absent
<1> QED
  BY <1>2, <1>3, <1>5, <1>6, <1>7, <1>8, Move DEF TypeInv

\* What prune takes away is in the receipt, or under the other name.
LEMMA PruneKeeps ==
  ASSUME TypeInv, KeepInv, NEW c \in Clients, PruneUnlink(c)
  PROVE  TypeInv' /\ KeepInv'
<1>1. /\ UNCHANGED <<files, pending, receipt, acked, trace, calls, raced>> /\ ~At(c, "idle") /\ Become(c, Idle)
      /\ captured' = IF captured = task[c].inode THEN Absent ELSE captured
      /\ pruned' = (pruned \/ captured = task[c].inode)
  BY DEF PruneUnlink, registered, At
<1>2. Lonely(c)
  BY <1>1, StepLonely
<1>3. pruned \in BOOLEAN /\ pruned' \in BOOLEAN
  BY <1>1 DEF TypeInv
<1>4. Idle \in Tasks /\ Idle.at = "idle"
  BY DEF Tasks, Idle
<1>5. CASE captured # task[c].inode
  <2>1. captured' = captured /\ pruned' = pruned
    BY <1>1, <1>3, <1>5
  <2>2. Knows(Idle, files, captured, receipt, pruned) /\ Alone(Idle, files, pending, captured, receipt)
    BY <1>4, NothingClaimed
  <2> QED
    BY <1>1, <1>2, <1>4, <2>1, <2>2, QuietMove DEF TypeInv
<1>6. CASE captured = task[c].inode
  <2>1. captured' = Absent /\ pruned' = TRUE
    BY <1>1, <1>3, <1>6
  <2>2. Store(files, pending, Absent, receipt, acked, TRUE)
    BY DEF KeepInv, Store
  <2>3. ASSUME NEW v \in Tasks, Knows(v, files, captured, receipt, pruned)
        PROVE  Knows(v, files, Absent, receipt, TRUE)
    <3>1. PICK gone : gone = TRUE /\ gone # FALSE
      OBVIOUS
    <3>2. Knows(v, files, Absent, receipt, gone)
      BY <2>3, <3>1 DEF Knows
    <3> QED
      BY <3>1, <3>2
  <2>4. Knows(Idle, files, Absent, receipt, TRUE) /\ Alone(Idle, files, pending, Absent, receipt)
    <3>1. PICK gone : gone = TRUE
      OBVIOUS
    <3>2. Knows(Idle, files, Absent, receipt, gone) /\ Alone(Idle, files, pending, Absent, receipt)
      BY <1>4, NothingClaimed
    <3> QED
      BY <3>1, <3>2
  <2>5. ASSUME raced = FALSE PROVE Calm(files, pending, Absent, receipt, acked)
    <3>1. Calm(files, pending, captured, receipt, acked)
      BY <2>5 DEF KeepInv
    <3>2. CASE captured \in {Absent, pending}
      BY <3>1, <3>2 DEF Calm
    <3>3. CASE captured \notin {Absent, pending}
      <4>1. Ids(files[captured]) \subseteq Ids(receipt)
        BY <3>1, <3>3 DEF Calm
      <4> QED
        BY <3>1, <4>1 DEF Calm
    <3> QED
      BY <3>2, <3>3
  <2>6. Absent \in 0 .. Len(files)
    BY DEF TypeInv, Absent
  <2> QED
    BY <1>1, <1>2, <1>3, <1>4, <2>1, <2>2, <2>3, <2>4, <2>5, <2>6, Move DEF TypeInv
<1> QED
  BY <1>5, <1>6

-----------------------------------------------------------------------------
LEMMA KeepNext ==
  ASSUME Inv, TypeInv, KeepInv, [Next]_vars
  PROVE  TypeInv' /\ KeepInv'
<1>1. CASE UNCHANGED vars
  BY <1>1, StillKeeps
<1>2. ASSUME NEW c \in Clients,
             \/ \E next \in {"idle", "event"} : Start(c, next)
             \/ \E sequence \in 1 .. MaxCalls : AppendGiven(c, sequence)
             \/ Event(c) \/ Prune(c)
      PROVE  TypeInv' /\ KeepInv'
  BY <1>2, BeginsKeeps
<1>3. ASSUME NEW c \in Clients,
             \/ LookCaptured(c) \/ LookPending(c) \/ MakeEvent(c) \/ ReadBuffer(c) \/ Open(c)
             \/ Return(c) \/ Crash(c) \/ TraceConflict(c)
      PROVE  TypeInv' /\ KeepInv'
  BY <1>3, HookKeeps
<1> QED
  BY <1>1, <1>2, <1>3, FinalizeReads, LookupMoves, RegisterMoves, LinkKeeps, WriteKeeps, ArchiveKeeps,
     UnlinkKeeps, PruneKeeps DEF Next

LEMMA KeepHolds ==
  ASSUME TypeInv, KeepInv
  PROVE  CaptureKeepsEvents
<1>1. Store(files, pending, captured, receipt, acked, pruned)
  BY DEF KeepInv
<1>2. pruned \in BOOLEAN /\ raced \in BOOLEAN
  BY DEF TypeInv
<1>3. captured # Absent /\ ~pruned => receipt # NoTrace /\ IsPrefix(receipt, files[captured])
  BY <1>1, <1>2 DEF Store
<1>4. ASSUME Len(files) = 1, NEW c \in Clients, At(c, "done") PROVE task[c].known \subseteq Ids(receipt)
  <2>1. Knows(task[c], files, captured, receipt, pruned)
    BY DEF KeepInv
  <2> QED
    BY <1>4, <2>1 DEF Knows, At
<1>5. ~raced => Calm(files, pending, captured, receipt, acked)
  BY <1>2 DEF KeepInv
<1> QED
  BY <1>3, <1>4, <1>5 DEF CaptureKeepsEvents, Calm, Named

\* What observe keeps: a buffer is archived only with a receipt of its
\* beginning; a finalize of a session with one buffer covers all that was
\* acknowledged before it; and as long as calls do not overlap, buffers stay
\* well numbered and every acknowledged event is in a buffer or in the receipt.
THEOREM CaptureIsKept == Spec => []CaptureKeepsEvents
<1>1. Init => Inv /\ TypeInv /\ KeepInv
  BY InitInv, KeepInit
<1>2. Inv /\ TypeInv /\ KeepInv /\ [Next]_vars => (Inv /\ TypeInv /\ KeepInv)'
  BY NextInv, KeepNext
<1>3. TypeInv /\ KeepInv => CaptureKeepsEvents
  BY KeepHolds
<1> QED
  BY <1>1, <1>2, <1>3, PTL DEF Spec
=============================================================================
