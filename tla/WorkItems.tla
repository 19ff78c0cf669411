------------------------------ MODULE WorkItems ------------------------------
(***************************************************************************)
(* The helpers agents hand work over with: handoff, progress and the list  *)
(* of work items.                                                          *)
(*                                                                         *)
(* Each helper reads first and commits later, over connections of its own: *)
(* the items page after page, then the clock and the state root, then the  *)
(* commit.  Other callers, with the same intent or another, run between    *)
(* those steps.  A caller that dies leaves what it has committed and no    *)
(* more: it is a caller whose answer nobody heard, and its retry a new     *)
(* call with the same intent.                                              *)
(*                                                                         *)
(* The id and the idempotency key of a handoff are taken from its content: *)
(* an item stands for the content it is handed off with.  The key of a     *)
(* transition is taken from its author, its item, the version it expects   *)
(* and the status it wants; the proposal also carries the second it was    *)
(* made in, which is left open, and the state root, for which the length   *)
(* of the ledger stands.                                                   *)
(***************************************************************************)
EXTENDS Naturals, Sequences, SequencesExt, FiniteSets

CONSTANTS
  Callers,       \* processes that use the helpers
  Author,        \* the agent each caller acts for
  NumItems,      \* items 1 .. NumItems, in the order of their ids
  Outside,       \* the items that other programs create
  Related,       \* the items a handoff refers to
  Wanted,        \* the statuses callers and other programs ask for
  PageSize,      \* items a query returns at most
  MaxItemCalls,  \* bound on the calls
  MaxOthers      \* bound on the commits of other programs

Items == 1 .. NumItems
Other == "other"

ASSUME WorkItemsAssumption ==
  /\ Other \notin {Author[c] : c \in Callers}
  /\ NumItems \in Nat /\ Outside \subseteq Items /\ Related \in [Items -> SUBSET Items]
  /\ PageSize \in Nat \ {0}
  /\ {MaxItemCalls, MaxOthers} \subseteq Nat

VARIABLES
  rows,          \* the work items of the workspace: [status, version]
  ledger,        \* accepted entries: [item, version, was, status, author, call]
  itemReceipts,  \* the oldest receipt of each key: [proposal, outcome, call]
  pc,            \* where each caller is
  call,          \* what its call was asked, and what it has read and built
  told,          \* what the call that ends with this step returns
  itemCalls, others

helpersVars == <<rows, ledger, itemReceipts, pc, call, told, itemCalls, others>>
workspace == <<rows, ledger, itemReceipts>>
bounds == <<itemCalls, others>>

Put(f, k, v) == [x \in DOMAIN f \cup {k} |-> IF x = k THEN v ELSE f[x]]
Nothing == [kind |-> "none"]

\* What a caller may ask: to list the items, to hand one off, to move one.
Requests ==
  {[kind |-> "list"]}
    \cup {[kind |-> "handoff", item |-> i] : i \in Items \ Outside}
    \cup {[kind |-> "progress", item |-> i, status |-> s] : i \in Items, s \in Wanted}

Entry(i, version, was, status, author, number) ==
  [item |-> i, version |-> version, was |-> was, status |-> status, author |-> author,
   call |-> number]

HelpersInit ==
  \* Other programs have already created some of their items.
  /\ \E there \in SUBSET Outside :
       /\ rows = [i \in there |-> [status |-> "TODO", version |-> 1]]
       /\ ledger = SetToSeq({Entry(i, 1, "NONE", "TODO", Other, 0) : i \in there})
  /\ itemReceipts = [k \in {} |-> Nothing]
  /\ pc = [c \in Callers |-> "idle"]
  /\ call = [c \in Callers |-> Nothing]
  /\ told = Nothing
  /\ itemCalls = 0 /\ others = 0

Return(c, result) ==
  /\ pc' = [pc EXCEPT ![c] = "idle"]
  /\ call' = [call EXCEPT ![c] = Nothing]
  /\ told' = result

Start(c, request) ==
  /\ pc[c] = "idle" /\ itemCalls < MaxItemCalls
  /\ itemCalls' = itemCalls + 1
  /\ pc' = [pc EXCEPT ![c] = "page"]
  /\ call' = [call EXCEPT ![c] =
       [kind |-> request.kind, request |-> request, number |-> itemCalls + 1, began |-> Len(ledger),
        attempt |-> 0, docs |-> <<>>, offset |-> 0]]
  /\ told' = Nothing
  /\ UNCHANGED <<workspace, others>>

-----------------------------------------------------------------------------
(* Reading the items.                                                      *)

\* The items in the order of a query (the slip: the last one changed first).
LastChange(i) == CHOOSE n \in DOMAIN ledger :
  ledger[n].item = i /\ \A m \in n + 1 .. Len(ledger) : ledger[m].item # i
RecentFirst == SetToSortSeq(DOMAIN rows, LAMBDA i, j : LastChange(i) > LastChange(j))
Rank(i) == Cardinality({j \in DOMAIN rows : j <= i})
Ordered == [n \in 1 .. Cardinality(DOMAIN rows) |-> CHOOSE i \in DOMAIN rows : Rank(i) = n]

Doc(i) == [item |-> i, status |-> rows[i].status, version |-> rows[i].version]

\* Every page is a query of its own, over what the workspace is by then.
ReadPage(c) ==
  /\ pc[c] = "page"
  /\ LET found == Ordered
         last == IF call[c].offset + PageSize < Len(found) THEN call[c].offset + PageSize
                 ELSE Len(found)
         page == [n \in 1 .. last - call[c].offset |-> Doc(found[call[c].offset + n])]
     IN /\ call' = [call EXCEPT ![c].docs = @ \o page, ![c].offset = last]
        /\ pc' = [pc EXCEPT ![c] = IF last < Len(found) THEN "page" ELSE "read"]
  /\ told' = Nothing
  /\ UNCHANGED <<workspace, bounds>>

List(c) ==
  /\ pc[c] = "read" /\ call[c].kind = "list"
  /\ Return(c, [kind |-> "listed", began |-> call[c].began, docs |-> call[c].docs])
  /\ UNCHANGED <<workspace, bounds>>

\* The first document of the item, if any page had it.
Seen(c) ==
  LET at == {n \in DOMAIN call[c].docs : call[c].docs[n].item = call[c].request.item}
  IN {call[c].docs[n] : n \in {n \in at : \A m \in at : n <= m}}

-----------------------------------------------------------------------------
(* Building a proposal.                                                    *)

HandoffKnown(c) ==
  /\ pc[c] = "read" /\ call[c].kind = "handoff" /\ Seen(c) # {}
  /\ Return(c, [kind |-> "handed", item |-> call[c].request.item])
  /\ UNCHANGED <<workspace, bounds>>

Building(c, key, content) ==
  /\ pc' = [pc EXCEPT ![c] = "commit"]
  /\ call' = [call EXCEPT ![c] =
       [field \in DOMAIN @ \cup {"key", "proposal"} |->
          CASE field = "key" -> key
            [] field = "proposal" -> [content |-> content, root |-> Len(ledger)]
            [] OTHER -> @[field]]]
  /\ told' = Nothing
  /\ UNCHANGED <<workspace, bounds>>

PrepareHandoff(c) ==
  /\ pc[c] = "read" /\ call[c].kind = "handoff" /\ Seen(c) = {}
  /\ Building(c, <<"handoff", call[c].request.item>>, [item |-> call[c].request.item])

ProgressUnknown(c) ==
  /\ pc[c] = "read" /\ call[c].kind = "progress" /\ Seen(c) = {}
  /\ Return(c, [kind |-> "refused", code |-> "WORK_ITEM_NOT_FOUND"])
  /\ UNCHANGED <<workspace, bounds>>

\* A slip: a rebased transition has the key of the one that lost.
KeyWithoutVersion(c, doc) == <<"progress", Author[c], doc.item, call[c].request.status>>
ProgressKey(c, doc) == <<"progress", Author[c], doc.item, call[c].request.status, doc.version>>

PrepareProgress(c) ==
  /\ pc[c] = "read" /\ call[c].kind = "progress"
  /\ \E doc \in Seen(c) : Building(c, ProgressKey(c, doc), doc)

-----------------------------------------------------------------------------
(* The commit, as the kernel decides it: what the key has been used for,   *)
(* then what the proposal expects.                                         *)

Expected(c) == call[c].proposal.content
\* A slip: the version is not compared.
StatusAsRead(c) ==
  Expected(c).item \in DOMAIN rows /\ rows[Expected(c).item].status = Expected(c).status
AsRead(c) ==
  /\ Expected(c).item \in DOMAIN rows
  /\ rows[Expected(c).item] = [status |-> Expected(c).status, version |-> Expected(c).version]

Verdict(c) ==
  IF call[c].kind = "handoff"
  THEN IF Related[Expected(c).item] \subseteq DOMAIN rows /\ Expected(c).item \notin DOMAIN rows
       THEN "COMMITTED" ELSE "VALIDATION_ERROR"
  ELSE IF AsRead(c) THEN "COMMITTED" ELSE "TRANSACTION_CONFLICT"

Used(c) == call[c].key \in DOMAIN itemReceipts
Enter(i, status, author, number) ==
  LET was == IF i \in DOMAIN rows THEN rows[i] ELSE [status |-> "NONE", version |-> 0]
  IN /\ rows' = Put(rows, i, [status |-> status, version |-> was.version + 1])
     /\ ledger' = Append(ledger, Entry(i, was.version + 1, was.status, status, author, number))

-----------------------------------------------------------------------------
(* What the caller makes of the outcome.                                   *)

Committed(c) ==
  IF call[c].kind = "handoff" THEN Return(c, [kind |-> "handed", item |-> Expected(c).item])
  ELSE Return(c, [kind |-> "moved", author |-> Author[c], item |-> Expected(c).item,
                  status |-> call[c].request.status, was |-> Expected(c).status,
                  version |-> Expected(c).version + 1, began |-> call[c].began])

Refused(c, outcome) ==
  Return(c, [kind |-> "refused", code |-> outcome, item |-> Expected(c).item,
             key |-> call[c].key, number |-> call[c].number, began |-> call[c].began])

\* A progress that lost reads the items again, once.
MaxRebaseAttempts == 1
Lost(c) ==
  IF call[c].attempt < MaxRebaseAttempts
  THEN /\ pc' = [pc EXCEPT ![c] = "page"]
       /\ call' = [call EXCEPT ![c].attempt = @ + 1, ![c].docs = <<>>, ![c].offset = 0]
       /\ told' = Nothing
  ELSE Refused(c, "TRANSACTION_CONFLICT")

Settle(c, outcome) ==
  CASE outcome = "COMMITTED" -> Committed(c)
    [] outcome = "TRANSACTION_CONFLICT" -> Lost(c)
    [] OTHER -> Refused(c, outcome)

\* The receipt of the same proposal answers it; another proposal under the key
\* is refused, and its receipt never is the oldest one.
CommitAgain(c) ==
  /\ pc[c] = "commit" /\ Used(c)
  /\ \E sameSecond \in BOOLEAN :
       Settle(c, IF sameSecond /\ itemReceipts[call[c].key].proposal = call[c].proposal
                 THEN itemReceipts[call[c].key].outcome ELSE "IDEMPOTENCY_KEY_REUSE")
  /\ UNCHANGED <<workspace, bounds>>

Commit(c) ==
  /\ pc[c] = "commit" /\ ~Used(c)
  /\ Settle(c, Verdict(c))
  /\ itemReceipts' = Put(itemReceipts, call[c].key,
       [proposal |-> call[c].proposal, outcome |-> Verdict(c), call |-> call[c].number])
  /\ IF Verdict(c) = "COMMITTED"
     THEN Enter(Expected(c).item,
                IF call[c].kind = "handoff" THEN "TODO" ELSE call[c].request.status,
                Author[c], call[c].number)
     ELSE UNCHANGED <<rows, ledger>>
  /\ UNCHANGED bounds

-----------------------------------------------------------------------------
(* The others.                                                             *)

\* Another program creates an item or moves one, by a proposal of its own.
OthersCommit(i, status) ==
  /\ others < MaxOthers
  /\ i \in DOMAIN rows \/ (i \in Outside /\ status = "TODO")
  /\ others' = others + 1
  /\ Enter(i, status, Other, 0)
  /\ told' = Nothing
  /\ UNCHANGED <<itemReceipts, pc, call, itemCalls>>

HelpersNext ==
  \/ \E c \in Callers :
       \/ \E request \in Requests : Start(c, request)
       \/ ReadPage(c) \/ List(c)
       \/ HandoffKnown(c) \/ PrepareHandoff(c) \/ ProgressUnknown(c) \/ PrepareProgress(c)
       \/ CommitAgain(c) \/ Commit(c)
  \/ \E i \in Items, status \in Wanted \cup {"TODO"} : OthersCommit(i, status)

HelpersSpec == HelpersInit /\ [][HelpersNext]_helpersVars

-----------------------------------------------------------------------------
(***************************************************************************)
(* Properties.                                                             *)
(***************************************************************************)
\* What a caller is told of its work is in the ledger: an item handed off is
\* there, and of a transition the very version, from the status and to the
\* status told, by the agent told, and made since the call began, also when it
\* was rebased or when the receipt of a twin answered it.
ToldIsRecorded ==
  /\ told.kind = "handed" => told.item \in DOMAIN rows
  /\ told.kind = "moved" =>
       \E n \in told.began + 1 .. Len(ledger) :
         /\ ledger[n].item = told.item /\ ledger[n].version = told.version
         /\ ledger[n].was = told.was /\ ledger[n].status = told.status
         /\ ledger[n].author = told.author

\* "One rebase covers the ordinary two-session race.  A second failure means
\* the workspace is genuinely contended" (work_items.py:40): a transition is
\* refused as a conflict only if the item moved at least twice while the call
\* ran.  Any other refusal has a twin: an earlier call, of the same agent with
\* the same intent, that used the key; or the handoff refers to what was not
\* there when it was tried.
OnlyContendedRefused ==
  told.kind = "refused" =>
    /\ told.code = "TRANSACTION_CONFLICT" =>
         Cardinality({n \in told.began + 1 .. Len(ledger) : ledger[n].item = told.item}) >= 2
    /\ told.code = "IDEMPOTENCY_KEY_REUSE" => itemReceipts[told.key].call # told.number
    /\ told.code = "VALIDATION_ERROR" =>
         \E i \in Related[told.item] : ~ \E n \in 1 .. told.began : ledger[n].item = i

\* A list shows every item that was there when it began, though it is read page
\* after page while items are added and moved; and it shows each as it was at
\* some moment since.
ListIsWhole ==
  told.kind = "listed" =>
    LET shown == {told.docs[n] : n \in DOMAIN told.docs}
    IN /\ {ledger[n].item : n \in 1 .. told.began} \subseteq {doc.item : doc \in shown}
       /\ \A doc \in shown : \E n \in DOMAIN ledger :
            /\ ledger[n].item = doc.item /\ ledger[n].version = doc.version
            /\ ledger[n].status = doc.status
            /\ \A m \in n + 1 .. told.began : ledger[m].item # doc.item
=============================================================================
