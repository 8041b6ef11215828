---------------------------- MODULE AnswerLedger ----------------------------
(***************************************************************************)
(* The assistant's answer on its way from the executor to the saved        *)
(* message.  The executor's event adapter (claude_agent_events.py) turns   *)
(* the model's text parts, tool hooks and its result into public facts and *)
(* keeps a receipt of the answer; callback batches carry the facts, one    *)
(* batch at a time, each possibly delivered again or late; the callback    *)
(* transaction (runtime_callbacks.py, event_ledger_postgres.py, v4.py)     *)
(* appends the facts it does not hold yet after checking them against the  *)
(* ledger; and the worker rebuilds the answer from the ledger with the     *)
(* receipt (load_answer_by_receipt, worker_answer_persistence.py).         *)
(*                                                                         *)
(* A text delta is one piece of length 1: the pair of its part and its     *)
(* number, which is also its source identity.  The parts of an answer are  *)
(* joined by a separator of length 2.  A ledger row is the fact and its    *)
(* identity, the batch and the index in it; its sequence is its place.     *)
(***************************************************************************)
EXTENDS Naturals, FiniteSets, SequencesExt

CONSTANTS Parts,     \* sources of text: provider messages
          Budgets    \* bound: text deltas, other facts, batches given up

VARIABLES route,     \* source_router: the role of each source
          parts,     \* _text_parts: deltas, role, first_seen, last_delta_sequence
          ad,        \* the adapter's flags and its receipt
          calls,     \* tool, policy and task states of one call
          said,      \* the facts the adapter has built, in order
          batches,   \* the batches sent, by the last fact of each
          acked,     \* batches whose acknowledgement has arrived
          authority, \* the stream authority's state
          receipts,  \* batches with a row in run_event_batches
          ledger,    \* run_events: public v4 rows in sequence
          worker,    \* the worker's view: the answer it persisted
          left       \* what is left of the budget

vars == <<route, parts, ad, calls, said, batches, acked, authority, receipts,
          ledger, worker, left>>
adapter  == <<route, parts, ad, calls, said>>
platform == <<authority, receipts, ledger, worker>>

-----------------------------------------------------------------------------
(* Facts *)

Blank == [t |-> "none", p |-> "none", n |-> 0, role |-> "none",
          ref |-> <<"none", 0>>, count |-> 0, len |-> 0]
Plain(t)       == [Blank EXCEPT !.t = t]
Delta(p, n)    == [Blank EXCEPT !.t = "message.part.delta", !.p = p, !.n = n]
Classified(p, r) == [Blank EXCEPT !.t = "message.part.classified", !.p = p, !.role = r]

MessageTypes == {"message.started", "message.part.delta", "message.part.classified",
                 "message.completed"}
TextFact(f)  == f.t = "message.part.delta"
(* What a callback may make public; policy events are withheld *)
Public(f)    == f.t \notin {"policy.checking", "policy.allowed", "policy.denied"}

(* callback_thinking_summary_to_v4 makes three rows of one event *)
Expand(f) ==
  IF f.t = "thinking"
  THEN <<Plain("thinking.started"), Plain("thinking.delta"), Plain("thinking.completed")>>
  ELSE IF Public(f) THEN <<f>> ELSE <<>>
Items(fs) == FlattenSeq([i \in DOMAIN fs |-> Expand(fs[i])])

NoReceipt == [count |-> 0, len |-> 0, last |-> <<"none", 0>>]

-----------------------------------------------------------------------------
(* reduce_assistant_text_part_message: the reading of a whole message *)

Deltas(fs)    == SelectSeq(fs, TextFact)
PartsOf(fs)   == {fs[i].p : i \in {j \in DOMAIN fs : TextFact(fs[j])}}
FirstOf(fs, p) == CHOOSE i \in DOMAIN fs :
                    /\ TextFact(fs[i]) /\ fs[i].p = p
                    /\ \A j \in 1 .. i - 1 : ~(TextFact(fs[j]) /\ fs[j].p = p)
RolesOf(fs, p) == SelectSeq(fs, LAMBDA f : f.t = "message.part.classified" /\ f.p = p)
RoleOf(fs, p) ==
  LET rs == RolesOf(fs, p) IN IF rs = <<>> THEN "pending" ELSE rs[Len(rs)].role
Selected(fs) ==
  SetToSortSeq({p \in PartsOf(fs) : RoleOf(fs, p) = "answer"},
               LAMBDA p, q : FirstOf(fs, p) < FirstOf(fs, q))
PieceOf(fs, p) == SelectSeq(fs, LAMBDA f : TextFact(f) /\ f.p = p)
AnswerText(fs) ==
  FlattenSeq([i \in DOMAIN Selected(fs) |->
                LET ds == PieceOf(fs, Selected(fs)[i])
                IN  [j \in DOMAIN ds |-> <<ds[j].p, ds[j].n>>]])
AnswerDeltas(fs) == SelectSeq(fs, LAMBDA f : TextFact(f) /\ RoleOf(fs, f.p) = "answer")
ReadReceipt(fs) ==
  LET ds == AnswerDeltas(fs)
  IN  [count |-> Len(ds),
       len   |-> Len(AnswerText(fs)) + 2 * (Len(Selected(fs)) - 1),
       last  |-> <<ds[Len(ds)].p, ds[Len(ds)].n>>]

Ordered(fs) ==
  /\ fs # <<>> => fs[1].t = "message.started"
  /\ \A i \in DOMAIN fs :
       /\ fs[i].t = "message.started" => i = 1
       /\ fs[i].t = "message.completed" => i = Len(fs)
       /\ fs[i].t = "message.part.classified" =>
            /\ fs[i].p \in PartsOf(SubSeq(fs, 1, i - 1))
            /\ RoleOf(SubSeq(fs, 1, i - 1), fs[i].p) = "work" => fs[i].role = "work"
       /\ TextFact(fs[i]) => \A j \in 1 .. i - 1 : fs[j] # fs[i]
Completed(fs) == fs # <<>> /\ fs[Len(fs)].t = "message.completed"
Selectable(fs) ==
  Completed(fs) =>
    /\ \A p \in PartsOf(fs) : RoleOf(fs, p) # "pending"
    /\ Selected(fs) # <<>>
    /\ LET c == fs[Len(fs)] IN ReadReceipt(fs) = [count |-> c.count, len |-> c.len, last |-> c.ref]
Reduces(fs) == Ordered(fs) /\ Selectable(fs)

-----------------------------------------------------------------------------
(* The adapter *)

Init ==
  /\ route = [p \in Parts |-> "pending"]
  /\ parts = [p \in Parts |-> [n |-> 0, role |-> "pending", seen |-> 0, last |-> 0]]
  /\ ad = [started |-> FALSE, completed |-> FALSE, sealed |-> FALSE, result |-> FALSE,
           receipt |-> NoReceipt]
  /\ calls = [tool |-> "none", policy |-> "none", task |-> "none"]
  /\ said = <<>> /\ batches = <<>> /\ acked = 0
  /\ authority = "confirmed" /\ receipts = {} /\ ledger = <<>>
  /\ worker = [state |-> "waiting", text |-> <<>>] /\ left \in Budgets

Texts   == Len(Deltas(said))
Sent    == IF batches = <<>> THEN 0 ELSE batches[Len(batches)]
Through == IF acked = 0 THEN 0 ELSE batches[acked]
(* Facts other than text wait for their receipt before the runner goes on *)
Waiting == said # <<>> /\ ~TextFact(said[Len(said)]) /\ Through < Len(said)
Open    == ~ad.sealed /\ ~Waiting /\ ~ad.result

Says(fs) == said' = said \o fs

(* accept_part_text: the first text opens the message; a part's first text *)
(* gives it its place                                                      *)
PartAfter(p) ==
  [n |-> parts[p].n + 1, role |-> parts[p].role,
   seen |-> IF parts[p].n = 0
              THEN Cardinality({q \in Parts : parts[q].n > 0}) + 1 ELSE parts[p].seen,
   last |-> Texts + 1]
TextFacts(p) ==
  (IF ad.started THEN <<>> ELSE <<Plain("message.started")>>) \o <<Delta(p, parts[p].n + 1)>>

(* classify_text_part: a new role is a fact, work never becomes answer *)
RoleFacts(role, p, r) == IF r \in {"pending", role} THEN <<>> ELSE <<Classified(p, r)>>

(* publish_part_text: the text, then the role the router already knows *)
PublishText(p) ==
  /\ Open /\ ~ad.completed /\ left.text > 0
  /\ left' = [left EXCEPT !.text = @ - 1]
  /\ Says(TextFacts(p) \o RoleFacts(parts[p].role, p, route[p]))
  /\ parts' = [parts EXCEPT ![p] =
                 [PartAfter(p) EXCEPT !.role =
                    IF route[p] = "pending" THEN @ ELSE route[p]]]
  /\ ad' = [ad EXCEPT !.started = TRUE]
  /\ UNCHANGED <<route, calls, batches, acked, platform>>

(* classify_source: a source with a tool is work, one that ended is answer *)
Classify(p, r) ==
  /\ Open /\ route[p] # "work" /\ route[p] # r
  /\ route' = [route EXCEPT ![p] = r]
  /\ IF parts[p].n > 0
     THEN /\ parts' = [parts EXCEPT ![p].role = r]
          /\ Says(RoleFacts(parts[p].role, p, r))
     ELSE UNCHANGED <<parts, said>>
  /\ UNCHANGED <<ad, calls, batches, acked, platform, left>>

Extra(k, state, fs) ==
  /\ Open /\ left.extra > 0
  /\ left' = [left EXCEPT !.extra = @ - 1]
  /\ calls' = [calls EXCEPT ![k] = state]
  /\ Says(fs)
  /\ UNCHANGED <<route, parts, ad, batches, acked, platform>>

MayEndAny(s) == TRUE

(* A terminal hook or task message needs a start, and counts once *)
MayEnd(s) == s = "started"

PolicyDecision(allowed) ==
  /\ calls.policy = "none"
  /\ Extra("policy", "decided",
           <<Plain("policy.checking")>> \o
           (IF allowed THEN <<Plain("policy.allowed")>>
                       ELSE <<Plain("policy.denied"), Plain("tool.denied")>>))
PreToolUse  == calls.tool = "none" /\ Extra("tool", "started", <<Plain("tool.started")>>)
PostToolUse(t) == MayEnd(calls.tool) /\ Extra("tool", "terminal", <<Plain(t)>>)
TaskStarted == calls.task = "none" /\ Extra("task", "started", <<Plain("subagent.started")>>)
TaskProgress == calls.task = "started" /\ Extra("task", "started", <<Plain("subagent.progress")>>)
TaskEnds    == MayEnd(calls.task) /\ Extra("task", "terminal", <<Plain("subagent.completed")>>)
ThinkingSummary == Extra("policy", calls.policy, <<Plain("thinking")>>)

AnswerParts == {p \in Parts : parts[p].n > 0 /\ parts[p].role = "answer"}
Unclassified == \E p \in Parts : parts[p].n > 0 /\ parts[p].role = "pending"

LastPartSeen == CHOOSE p \in AnswerParts : \A q \in AnswerParts : parts[q].seen <= parts[p].seen

(* The answer part that spoke last, which need not be the one seen last *)
LastPart == CHOOSE p \in AnswerParts : \A q \in AnswerParts : parts[q].last <= parts[p].last

SumOf(S) == Len(FlattenSeq([i \in 1 .. Cardinality(S) |->
                              [j \in 1 .. parts[SetToSeq(S)[i]].n |-> 0]]))

LengthOfPieces == SumOf(AnswerParts)

(* The length of the answer counts the separators *)
TextLength == SumOf(AnswerParts) + 2 * (Cardinality(AnswerParts) - 1)

(* _complete_part_answer *)
PartReceipt ==
  [count |-> SumOf(AnswerParts), len |-> TextLength, last |-> <<LastPart, parts[LastPart].n>>]

(* accept_result: nothing while a part has no role; a turn of work only is *)
(* complete without a message.completed and without a receipt              *)
AcceptResult ==
  /\ Open
  /\ IF Unclassified
     THEN /\ ad' = [ad EXCEPT !.result = TRUE] /\ UNCHANGED said
     ELSE LET answered == ad.started /\ AnswerParts # {}
          IN  /\ ad' = [ad EXCEPT !.result = TRUE, !.completed = TRUE,
                                  !.receipt = IF answered THEN PartReceipt ELSE NoReceipt]
              /\ Says((IF answered
                       THEN <<[Blank EXCEPT !.t = "message.completed",
                                 !.count = PartReceipt.count, !.len = PartReceipt.len,
                                 !.ref = PartReceipt.last]>>
                       ELSE <<>>) \o <<Plain("model.completed")>>)
  /\ UNCHANGED <<route, parts, calls, batches, acked, platform, left>>

-----------------------------------------------------------------------------
(* Batches *)

(* The next batch takes what is waiting, once the last one is acknowledged *)
SendBatch ==
  /\ ~ad.sealed /\ acked = Len(batches) /\ Sent < Len(said)
  /\ batches' = Append(batches, Len(said))
  /\ UNCHANGED <<adapter, acked, platform, left>>

Acknowledged ==
  /\ acked < Len(batches) /\ Len(batches) \in receipts /\ ~ad.sealed
  /\ acked' = Len(batches)
  /\ UNCHANGED <<adapter, batches, platform, left>>

(* The last attempt failed or was refused: the adapter is sealed *)
GiveUp ==
  /\ acked < Len(batches) /\ ~ad.sealed /\ left.faults > 0
  /\ left' = [left EXCEPT !.faults = @ - 1]
  /\ ad' = [ad EXCEPT !.sealed = TRUE, !.receipt = NoReceipt]
  /\ UNCHANGED <<route, parts, calls, said, batches, acked, platform>>

-----------------------------------------------------------------------------
(* The platform *)

Facts(rows)  == [i \in DOMAIN rows |-> rows[i].fact]
IsMessage(f) == f.t \in MessageTypes
MessageFacts(rows) == SelectSeq(Facts(rows), IsMessage)
HasRow(id)   == \E i \in DOMAIN ledger : ledger[i].id = id

(* append_events and append_event: new rows take the next sequences *)
Appended(rows)  == ledger \o rows
AppendedOne(row) == IF HasRow(row.id) THEN ledger ELSE ledger \o <<row>>

BatchFacts(b) == SubSeq(said, (IF b = 1 THEN 0 ELSE batches[b - 1]) + 1, batches[b])
(* The rows a batch stands for, each known by the batch and its index *)
BatchRows(b)  == LET fs == Items(BatchFacts(b))
                 IN  [i \in DOMAIN fs |-> [id |-> <<b, i>>, fact |-> fs[i]]]

AllRows(rows) == rows

(* Only rows the ledger does not hold are appended *)
NewRows(rows) == SelectSeq(rows, LAMBDA r : ~HasRow(r.id))

(* apply_assistant_text_part_append_fact over the new facts: the check of  *)
(* an ordinary batch, from the indexed lookups of the message and parts    *)
Appendable(new) ==
  LET before == MessageFacts(ledger)
      fs     == MessageFacts(new)
  IN  fs # <<>> =>
        /\ ~Completed(before)
        /\ \A i \in DOMAIN fs :
             LET known == before \o SubSeq(fs, 1, i - 1)
             IN  /\ (fs[i].t = "message.started") = (known = <<>>)
                 /\ fs[i].t = "message.part.classified" =>
                      /\ fs[i].p \in PartsOf(known)
                      /\ RoleOf(known, fs[i].p) = "work" => fs[i].role = "work"
                 /\ TextFact(fs[i]) => \A j \in DOMAIN known : known[j] # fs[i]

(* _validate_assistant_part_append: a completion is checked against the    *)
(* whole message, everything else against the lookups                      *)
Accepts(rows) ==
  LET new == NewRows(rows)
  IN  IF \E i \in DOMAIN new : new[i].fact.t = "message.completed"
      THEN Reduces(MessageFacts(ledger) \o MessageFacts(new))
      ELSE Appendable(new)

(* persist_callback: the authority must be confirmed; the batch's receipt  *)
(* and its rows are one transaction, and a known batch answers again       *)
Callback(b) ==
  /\ authority = "confirmed" /\ b \in DOMAIN batches
  /\ Accepts(BatchRows(b))
  /\ receipts' = receipts \cup {b}
  /\ ledger' = Appended(NewRows(BatchRows(b)))
  /\ UNCHANGED <<adapter, batches, acked, authority, worker, left>>

(* append_run_v4_row: all the ways to end share one identity *)
RunRow(t)    == [id |-> <<0, 1>>, fact |-> Plain(t)]
AppendRun(t) == ledger' = AppendedOne(RunRow(t))

(* The executor's result is handed over once its last batch is settled *)
Delivered == ad.result /\ ~ad.sealed /\ Sent = Len(said) /\ acked = Len(batches)

(* load_answer_by_receipt *)
Loads(receipt) ==
  LET fs == MessageFacts(ledger)
  IN  /\ fs # <<>> /\ Reduces(fs) /\ Completed(fs)
      /\ ReadReceipt(fs) = receipt

(* materialize_worker_answer, and the Run's terminal row: a receipt that   *)
(* does not verify fails the run                                           *)
RunEnds ==
  /\ worker.state = "waiting" /\ (Delivered \/ ad.sealed)
  /\ LET text == AnswerText(MessageFacts(ledger))
     IN  worker' = IF ad.sealed THEN [state |-> "failed", text |-> <<>>]
                   ELSE IF ad.receipt = NoReceipt THEN [state |-> "saved", text |-> <<>>]
                   ELSE IF Loads(ad.receipt) THEN [state |-> "saved", text |-> text]
                   ELSE [state |-> "unverified", text |-> <<>>]
  /\ AppendRun(IF worker'.state = "saved" THEN "run.succeeded" ELSE "run.failed")
  /\ UNCHANGED <<adapter, batches, acked, authority, receipts, left>>

(* The publisher closes the stream after the terminal row *)
CloseStream ==
  /\ HasRow(<<0, 1>>) /\ authority # "terminal" /\ authority' = "terminal"
  /\ UNCHANGED <<adapter, batches, acked, receipts, ledger, worker, left>>

-----------------------------------------------------------------------------
Adapter ==
  \/ \E p \in Parts : \/ PublishText(p)
                      \/ \E r \in {"answer", "work"} : Classify(p, r)
  \/ \E allowed \in BOOLEAN : PolicyDecision(allowed)
  \/ PreToolUse
  \/ \E t \in {"tool.completed", "tool.failed"} : PostToolUse(t)
  \/ TaskStarted \/ TaskProgress \/ TaskEnds \/ ThinkingSummary
  \/ AcceptResult

Next ==
  \/ Adapter
  \/ SendBatch
  \/ Acknowledged \/ GiveUp
  \/ \E b \in DOMAIN batches : Callback(b)
  \/ RunEnds \/ CloseStream

Spec == Init /\ [][Next]_vars

-----------------------------------------------------------------------------
TypeOK ==
  /\ route \in [Parts -> {"pending", "answer", "work"}]
  /\ acked \in 0 .. Len(batches) /\ receipts \subseteq DOMAIN batches
  /\ authority \in {"confirmed", "terminal"}
  /\ worker.state \in {"waiting", "saved", "failed", "unverified"}

(* What the executor said is what the ledger holds: its rows are, in order *)
(* and each once, the public facts of a prefix of what the adapter built,  *)
(* up to the last acknowledged batch at least, whatever was delivered      *)
(* again or late; and a tool or sub-agent ends once, after it started.     *)
LedgerIsFaithful ==
  LET rows  == SelectSeq(ledger, LAMBDA r : r.id[1] # 0)
      Ends(ts) == {i \in DOMAIN rows : rows[i].fact.t \in ts}
  IN  /\ \E b \in acked .. Len(batches) :
           Facts(rows) = Items(SubSeq(said, 1, IF b = 0 THEN 0 ELSE batches[b]))
      /\ Cardinality(Ends({"tool.completed", "tool.failed"})) <= 1
      /\ \A i \in Ends({"tool.completed", "tool.failed"}) :
           \E j \in 1 .. i - 1 : rows[j].fact.t = "tool.started"
      /\ Cardinality({i \in DOMAIN ledger : ledger[i].id = <<0, 1>>}) <= 1

(* Executor and platform agree: the platform refuses no batch its executor *)
(* builds, and the answer saved from a receipt is the text of the parts    *)
(* whose last word was answer, in the order in which they first spoke.     *)
AnswerIsWhatWasSaid ==
  /\ \A b \in DOMAIN batches : b = Len(batches) => Accepts(BatchRows(b))
  /\ worker.state # "unverified"
  /\ worker.state = "saved" /\ ad.receipt # NoReceipt =>
       LET speakers == {p \in Parts : parts[p].n > 0 /\ route[p] = "answer"}
           places   == {parts[p].seen : p \in speakers}
       IN  /\ Len(worker.text) = Cardinality(UNION {{p} \X (1 .. parts[p].n) : p \in speakers})
           /\ \A i, j \in DOMAIN worker.text :
                i < j => LET x == worker.text[i]  y == worker.text[j]
                         IN  IF x[1] = y[1] THEN x[2] < y[2]
                             ELSE parts[x[1]].seen < parts[y[1]].seen
           /\ \A i \in DOMAIN worker.text : worker.text[i][1] \in speakers

(* The ledger only grows, and nothing is said in a message after its       *)
(* completion.                                                             *)
LedgerStep ==
  /\ IsPrefix(ledger, ledger')
  /\ Completed(MessageFacts(ledger)) => MessageFacts(ledger') = MessageFacts(ledger)
=============================================================================
