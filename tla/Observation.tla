---------------------------- MODULE Observation ----------------------------
(***************************************************************************)
(* Observation capture: the hooks of an agent append the events of a       *)
(* session to a buffer file, finalize registers them as a task trace and   *)
(* archives the buffer, prune deletes archived buffers.                    *)
(*                                                                         *)
(* Every hook is a process of its own and nothing locks the files: each    *)
(* system call on a path is a step, and others run between the steps.  A   *)
(* buffer is an inode; pending and captured are the names it may have.     *)
(*                                                                         *)
(* The module follows one session.  Its header never differs, the size     *)
(* limit is not reached, and registering the trace is one step that may    *)
(* fail (ingestion and consolidation are other components).                *)
(***************************************************************************)
EXTENDS Naturals, Sequences, SequencesExt

CONSTANTS
  Clients,          \* hook processes and CLI commands
  MaxCalls          \* bound on the calls of one behaviour

ASSUME MaxCallsAssumption == MaxCalls \in Nat

VARIABLES
  files,            \* the buffers, by inode: sequences of [id, sequence]
  pending, captured,\* the inodes under the two names, or Absent
  trace,            \* the immutable file under task-traces, or NoTrace
  receipt,          \* the content of the capture receipt, or NoTrace
  task,             \* where each client stands in a call
  calls,            \* calls started; also the id of an event
  acked,            \* history: the events whose append succeeded
  raced, pruned     \* history: whether calls overlapped, whether prune deleted

buffers == <<files, pending, captured>>
registered == <<trace, receipt>>
history == <<calls, acked, raced, pruned>>
vars == <<buffers, registered, task, history>>

Absent == 0
NoTrace == <<>>     \* a trace has at least one event
Idle == [at |-> "idle"]

At(c, label) == task[c].at = label
Become(c, t) == task' = [task EXCEPT ![c] = t]
Goto(c, label) == Become(c, [task[c] EXCEPT !.at = label])
Fail(c) == Become(c, Idle)
Ids(content) == {content[i].id : i \in DOMAIN content}

Init ==
  /\ files = <<>>
  /\ pending = Absent /\ captured = Absent
  /\ trace = NoTrace /\ receipt = NoTrace
  /\ task = [c \in Clients |-> Idle]
  /\ calls = 0 /\ acked = {}
  /\ raced = FALSE /\ pruned = FALSE

Call(c, t) ==
  /\ At(c, "idle")
  /\ calls < MaxCalls
  /\ calls' = calls + 1
  /\ raced' = (raced \/ \E b \in Clients : ~At(b, "idle"))
  /\ Become(c, t)
  /\ UNCHANGED <<buffers, registered, acked, pruned>>
Step == UNCHANGED history

-----------------------------------------------------------------------------
(* A hook's append: start lazily, make an event, append it.                *)

NoBuffer == pending = Absent /\ captured = Absent

\* observe start, or _lazy_start of an event that finds no buffer.
Start(c, next) ==
  /\ next = "event" => NoBuffer
  /\ Call(c, [at |-> "start", next |-> next, id |-> calls + 1])
\* Another event of the session.
Event(c) ==
  /\ ~NoBuffer
  /\ Call(c, [at |-> "event", id |-> calls + 1])
\* observe append: the caller names the sequence number.
AppendGiven(c, sequence) == Call(c, [at |-> "append", id |-> calls + 1, sequence |-> sequence])

Started(c) ==
  IF task[c].next = "idle" THEN Idle ELSE [at |-> "event", id |-> task[c].id]
\* start looks for the captured name, then for the pending one; a buffer that
\* exists is left alone.
LookCaptured(c) ==
  /\ At(c, "start")
  /\ IF captured = Absent THEN Goto(c, "look") ELSE Become(c, Started(c))
  /\ UNCHANGED <<buffers, registered>> /\ Step
LookPending(c) ==
  /\ At(c, "look")
  /\ IF pending = Absent THEN Goto(c, "link") ELSE Become(c, Started(c))
  /\ UNCHANGED <<buffers, registered>> /\ Step
\* _write_new_atomic: os.link of the header refuses an existing name, unless
\* the file is still as it was created.
LinkNew(c) ==
  /\ At(c, "link")
  /\ IF pending = Absent
     THEN files' = Append(files, <<>>) /\ pending' = Len(files')
     ELSE UNCHANGED <<files, pending>>
  /\ IF pending = Absent \/ files[pending] = <<>>
     THEN Become(c, Started(c))
     ELSE Fail(c)
  /\ UNCHANGED <<captured, registered>> /\ Step

\* _event_from_payload reads the buffer and numbers the event.
MakeEvent(c) ==
  /\ At(c, "event")
  /\ IF pending = Absent THEN Fail(c)
     ELSE Become(c, [at |-> "append", id |-> task[c].id, sequence |-> Len(files[pending]) + 1])
  /\ UNCHANGED <<buffers, registered>> /\ Step

\* append reads the buffer again and compares the number.
ReadBuffer(c) ==
  /\ At(c, "append")
  /\ IF pending # Absent /\ task[c].sequence = Len(files[pending]) + 1
     THEN Goto(c, "open")
     ELSE Fail(c)
  /\ UNCHANGED <<buffers, registered>> /\ Step

\* os.open by name ...
Open(c) ==
  /\ At(c, "open")
  /\ IF pending = Absent THEN Fail(c)
     ELSE Become(c, [at |-> "write", id |-> task[c].id, sequence |-> task[c].sequence,
                     inode |-> pending])
  /\ UNCHANGED <<buffers, registered>> /\ Step
\* ... and os.write to what was opened, at its end.
Write(c) ==
  /\ At(c, "write")
  /\ files' = [files EXCEPT ![task[c].inode] =
                 Append(@, [id |-> task[c].id, sequence |-> task[c].sequence])]
  /\ acked' = acked \cup {task[c].id}
  /\ Become(c, Idle)
  /\ UNCHANGED <<pending, captured, registered, calls, raced, pruned>>

-----------------------------------------------------------------------------
(* finalize                                                                *)

Contiguous(content) == \A i \in DOMAIN content : content[i].sequence = i

\* The buffer is read, under whichever name it is found, and must be a trace.
Finalize(c) ==
  LET name == IF pending # Absent THEN "pending" ELSE "captured"
      inode == IF pending # Absent THEN pending ELSE captured
  IN /\ ~NoBuffer
     /\ files[inode] # <<>>
     /\ Contiguous(files[inode])
     /\ Call(c, [at |-> "lookup", source |-> name, content |-> files[inode], known |-> acked])

AfterCapture(c) == Goto(c, IF task[c].source = "pending" THEN "archive" ELSE "done")

\* A slip: whatever the receipt is of, the trace counts as captured.
LookupAny(c) ==
  /\ At(c, "lookup")
  /\ IF receipt = NoTrace THEN Goto(c, "trace") ELSE AfterCapture(c)
  /\ UNCHANGED <<buffers, registered>> /\ Step
\* _post_structured_task_capture: a receipt of the trace must be of these bytes.
Lookup(c) ==
  /\ At(c, "lookup")
  /\ IF receipt = NoTrace THEN Goto(c, "trace")
     ELSE IF receipt = task[c].content THEN AfterCapture(c)
     ELSE Fail(c)
  /\ UNCHANGED <<buffers, registered>> /\ Step

\* A slip: the file is replaced.
WriteTraceOver(c) ==
  /\ At(c, "trace")
  /\ trace' = task[c].content
  /\ Goto(c, "register")
  /\ UNCHANGED <<buffers, receipt>> /\ Step
\* _write_immutable_task_trace: os.link, or the same bytes are there.
WriteTrace(c) ==
  /\ At(c, "trace")
  /\ trace \in {NoTrace, task[c].content}
  /\ trace' = task[c].content
  /\ Goto(c, "register")
  /\ UNCHANGED <<buffers, receipt>> /\ Step
TraceConflict(c) ==
  /\ At(c, "trace")
  /\ trace \notin {NoTrace, task[c].content}
  /\ Fail(c)
  /\ UNCHANGED <<buffers, registered>> /\ Step

\* Ingestion, and the receipt in a transaction that looks again.
Register(c) ==
  /\ At(c, "register")
  /\ IF receipt \in {NoTrace, task[c].content}
     THEN receipt' = task[c].content /\ AfterCapture(c)
     ELSE Fail(c) /\ UNCHANGED receipt
  /\ UNCHANGED <<buffers, trace>> /\ Step

\* _archive_no_clobber: os.link gives the buffer its second name; a name that
\* is taken must hold the same bytes.
Archive(c) ==
  /\ At(c, "archive")
  /\ IF pending = Absent \/ (captured # Absent /\ files[captured] # files[pending])
     THEN Fail(c) /\ UNCHANGED captured
     ELSE Goto(c, "unlink") /\ captured' = IF captured = Absent THEN pending ELSE captured
  /\ UNCHANGED <<files, pending, registered>> /\ Step
\* The first name goes, whatever file has it by now.
Unlink(c) ==
  /\ At(c, "unlink")
  /\ pending' = Absent
  /\ IF pending = Absent THEN Fail(c) ELSE Goto(c, "done")
  /\ UNCHANGED <<files, captured, registered>> /\ Step
Return(c) ==
  /\ At(c, "done")
  /\ Become(c, Idle)
  /\ UNCHANGED <<buffers, registered>> /\ Step

-----------------------------------------------------------------------------
(* prune, with a cutoff after the last event; and death of a process.      *)

Prune(c) ==
  /\ captured # Absent
  /\ files[captured] # <<>>
  /\ Call(c, [at |-> "prune", inode |-> captured])
\* lstat finds the inode it inspected, and unlink: taken as one step.
PruneUnlink(c) ==
  /\ At(c, "prune")
  /\ captured' = IF captured = task[c].inode THEN Absent ELSE captured
  /\ pruned' = (pruned \/ captured = task[c].inode)
  /\ Become(c, Idle)
  /\ UNCHANGED <<files, pending, registered, calls, acked, raced>>

Crash(c) ==
  /\ ~At(c, "idle")
  /\ Become(c, Idle)
  /\ UNCHANGED <<buffers, registered>> /\ Step

Next ==
  \E c \in Clients :
    \/ \E next \in {"idle", "event"} : Start(c, next)
    \/ \E sequence \in 1 .. MaxCalls : AppendGiven(c, sequence)
    \/ Event(c) \/ LookCaptured(c) \/ LookPending(c) \/ LinkNew(c) \/ MakeEvent(c) \/ ReadBuffer(c) \/ Open(c) \/ Write(c)
    \/ Finalize(c) \/ Lookup(c) \/ WriteTrace(c) \/ TraceConflict(c) \/ Register(c)
    \/ Archive(c) \/ Unlink(c) \/ Return(c)
    \/ Prune(c) \/ PruneUnlink(c) \/ Crash(c)

Spec == Init /\ [][Next]_vars

-----------------------------------------------------------------------------
(***************************************************************************)
(* Properties.                                                             *)
(***************************************************************************)
Named == {pending, captured} \ {Absent}

\* The receipt is of the bytes of the immutable source file, and these are a
\* trace, whoever else finalized the session and wherever a process died.
ReceiptIsSource ==
  receipt # NoTrace => receipt = trace /\ Contiguous(trace)

\* Nothing acknowledged is lost.  A buffer is archived only when its trace is
\* captured, and what the receipt covers is the beginning of what is archived;
\* later events may follow it.
\*
\* A finalize that succeeds covers every event acknowledged before it began,
\* although hooks append and others finalize meanwhile: as long as the session
\* has only had one buffer.  A start that looks for the captured name before,
\* and for the pending name after, the buffer is archived makes a second one,
\* and so does a start after prune.  Finalize then refuses the other bytes, or,
\* with three processes, succeeds on the old ones after unlinking the new.
\*
\* In a session whose calls never overlap the buffers stay well numbered, so
\* that finalize accepts them, and every acknowledged event is in a buffer or in
\* the receipt, wherever a process died and whatever was pruned.  (Two appends
\* that overlap may take one number; no finalize accepts the buffer after it.)
CaptureKeepsEvents ==
  /\ captured # Absent /\ ~pruned => receipt # NoTrace /\ IsPrefix(receipt, files[captured])
  /\ Len(files) = 1 =>
       \A c \in Clients : At(c, "done") => task[c].known \subseteq Ids(receipt)
  /\ ~raced =>
       /\ \A i \in Named : Contiguous(files[i])
       /\ acked \subseteq Ids(receipt) \cup UNION {Ids(files[i]) : i \in Named}
=============================================================================
