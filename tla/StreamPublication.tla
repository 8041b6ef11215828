-------------------------- MODULE StreamPublication -------------------------
(***************************************************************************)
(* Publication of one run's events (app/streaming, the callback route and  *)
(* the publishers of run events): rows of run_events in PostgreSQL, and    *)
(* the scripts that append them to one Redis stream beside a state hash.   *)
(***************************************************************************)
EXTENDS Integers, Sequences, FiniteSets, FiniteSetsExt, TLC

CONSTANTS
  Batches,      \* how many callback batches the executor sends
  BatchRows,    \* rows in a batch
  Handler,      \* callback requests the API serves at the same time
  Publisher,    \* processes that admit the stream or publish run events
  MaxLen,       \* SSE_STREAM_MAXLEN
  MaxExpiries   \* bound: how often the stream's TTL runs out

ASSUME PublicationAssumption ==
  /\ Batches \in Nat /\ BatchRows \in Nat \ {0}
  /\ MaxLen \in Nat \ {0} /\ MaxExpiries \in Nat

VARIABLES
  status, authority, ledger,      \* PostgreSQL: runs.status, the stream authority, run_events
  dispatch, acked,                \* the worker's admission, batches acknowledged to the executor
  handler, publisher,             \* callback requests and publishers in flight
  log, first,                     \* Redis: entries ever added to the stream, first one left
  phase, delivered, last_event,   \* Redis: the state hash (callback_sequence, last event)
  expiries

dbVars == <<status, authority, ledger>>
redisVars == <<log, first, phase, delivered, last_event, expiries>>
writerVars == <<dispatch, acked, handler, publisher>>
vars == <<dbVars, redisVars, writerVars>>

Terminal == {"finished", "cancelled"}
IdleHandler == [pc |-> "idle", batch |-> 0, pred |-> 0]
IdlePublisher == [pc |-> "idle", role |-> "run", row |-> 0]
Init ==
  /\ status = "running" /\ authority = "none" /\ ledger = <<>>
  /\ dispatch = "no" /\ acked = 0
  /\ handler = [h \in Handler |-> IdleHandler]
  /\ publisher = [p \in Publisher |-> IdlePublisher]
  /\ log = <<>> /\ first = 1 /\ phase = "none" /\ delivered = 0 /\ last_event = 0 /\ expiries = 0

-----------------------------------------------------------------------------
(* run_events. A row's sequence is its index: sequences are taken from the  *)
(* run's run_event_cursors row, which stays locked until the commit. Rows   *)
(* no browser may see are left out.                                         *)

RowsOf(b) == {s \in DOMAIN ledger : ledger[s].batch = b}
Callback(s) == ledger[s].kind = "callback"

\* source.callback_sequence of a run event: the last callback row before it.
CallbackBefore(s) == Max({0} \cup {t \in 1..(s - 1) : Callback(t)})

\* The query of load_latest_run_event, with before_sequence = s.
LatestRunEvent(rows, s) == Max({0} \cup {t \in 1..(s - 1) : rows[t].kind # "callback"})

\* append_current_run_terminal_v4_row: one terminal row, once the run has ended.
WithTerminalRow(rows, st) ==
  IF st \in Terminal /\ authority # "none" /\ \A s \in DOMAIN rows : rows[s].kind # "terminal"
  THEN Append(rows, [kind |-> "terminal", batch |-> 0])
  ELSE rows

-----------------------------------------------------------------------------
(* The Redis stream. `log` is every entry ever added, an entry's id is its  *)
(* index, and the key holds the entries from `first` on; it does not exist  *)
(* while there are none. Event ids and digests are functions of the rows,   *)
(* so a receipt for the same event never conflicts.                         *)

Exists == first <= Len(log)
Entry(kind, seq) == [kind |-> kind, seq |-> seq]

\* XADD MAXLEN ~: old entries may be dropped, but MaxLen of them always stay.
XAdd(entries) ==
  /\ log' = log \o entries
  /\ first' \in first..Max({first, Len(log) + Len(entries) - MaxLen + 1})

\* Mutant: a run event does not wait for the callbacks before it.
CallbacksDeliveredUnchecked(s) == TRUE

CallbacksDelivered(s) == delivered >= CallbackBefore(s)

\* _APPEND_WITH_TTL_LUA for stream.open: returns the receipt of an open stream.
AppendOpen ==
  \/ phase # "none" /\ UNCHANGED redisVars
  \/ /\ phase = "none"
     /\ XAdd(<<Entry("open", 0)>>)
     /\ phase' = "open" /\ UNCHANGED <<delivered, last_event, expiries>>

\* ... for a terminal event, the row s.
TerminalAccepted(s) == phase \in {"terminal", "ended"} \/ (phase = "open" /\ CallbacksDelivered(s))
AppendTerminal(s) ==
  /\ TerminalAccepted(s)
  /\ \/ phase # "open" /\ UNCHANGED redisVars
     \/ /\ phase = "open"
        /\ XAdd(<<Entry("terminal", s)>>)
        /\ phase' = "terminal" /\ UNCHANGED <<delivered, last_event, expiries>>

\* ... for run.cancel_requested, the row s.
CancelAccepted(s) == phase = "open" /\ (last_event = s \/ CallbacksDelivered(s))
AppendCancel(s) ==
  /\ CancelAccepted(s)
  /\ \/ last_event = s /\ UNCHANGED redisVars
     \/ /\ last_event # s
        /\ XAdd(<<Entry("cancel", s)>>)
        /\ last_event' = s /\ UNCHANGED <<phase, delivered, expiries>>

AppendRunEvent(s) == IF ledger[s].kind = "terminal" THEN AppendTerminal(s) ELSE AppendCancel(s)

\* ... for stream.end, which names the terminal event before it.
AppendEnd ==
  \/ phase = "ended" /\ UNCHANGED redisVars
  \/ /\ phase = "terminal"
     /\ XAdd(<<Entry("end", 0)>>)
     /\ phase' = "ended" /\ UNCHANGED <<delivered, last_event, expiries>>

\* _APPEND_CALLBACK_BATCH appends the rows of batch b.
BatchDelivered(b) == delivered >= Max(RowsOf(b))

BatchAccepted(b) == Exists /\ (BatchDelivered(b) \/ phase = "open")

\* Mutant: callback_sequence is not written.
AppendBatchUnrecorded(b) ==
  /\ BatchAccepted(b) /\ ~BatchDelivered(b)
  /\ XAdd([i \in 1..BatchRows |-> Entry("callback", Min(RowsOf(b)) + i - 1)])
  /\ UNCHANGED <<phase, delivered, last_event, expiries>>

AppendBatch(b) ==
  /\ BatchAccepted(b)
  /\ \/ BatchDelivered(b) /\ UNCHANGED redisVars
     \/ /\ ~BatchDelivered(b)
        /\ XAdd([i \in 1..BatchRows |-> Entry("callback", Min(RowsOf(b)) + i - 1)])
        /\ delivered' = Max(RowsOf(b)) /\ UNCHANGED <<phase, last_event, expiries>>

\* PEXPIRE: the stream and its state hash have the same deadline.
Expire ==
  /\ Exists /\ expiries < MaxExpiries
  /\ first' = Len(log) + 1 /\ phase' = "none" /\ delivered' = 0 /\ last_event' = 0
  /\ expiries' = expiries + 1
  /\ UNCHANGED <<dbVars, writerVars, log>>

-----------------------------------------------------------------------------
(* Admission (admit_v4_stream) and the publishers of run events             *)
(* (publish_run_event): the worker before dispatch, a cancel request, a run *)
(* settled while it was prepared, and whoever settles the run later.        *)

Set(p, rec) == publisher' = [publisher EXCEPT ![p] = rec]
At(p, pc) == Set(p, [publisher[p] EXCEPT !.pc = pc])
Idle(p) == publisher[p].pc = "idle"
Start(p, pc, role) == Idle(p) /\ Set(p, [pc |-> pc, role |-> role, row |-> 0])

WorkerAdmits(p) ==
  /\ dispatch = "no" /\ status = "running"
  /\ Start(p, "prepare", "worker") /\ dispatch' = "admitting"
  /\ UNCHANGED <<dbVars, redisVars, acked, handler>>

\* _finish_authorized_request, then post_cancel. The request's transaction has
\* prepared the authority, so post_cancel's own preparation finds it there.
RequestCancel(p) ==
  /\ status \in {"running", "cancelled"}
  /\ Start(p, "open", "cancel")
  /\ authority' = IF authority = "none" THEN "pending" ELSE authority
  /\ ledger' = IF \E s \in DOMAIN ledger : ledger[s].kind = "cancel" THEN ledger
               ELSE Append(ledger, [kind |-> "cancel", batch |-> 0])
  /\ UNCHANGED <<redisVars, status, dispatch, acked, handler>>

\* A terminal transition with its row; a cancelled run was asked to cancel.
\* Preparation settles a run only before its dispatch.
Terminate(p) == \E st \in Terminal, role \in {"run", "prepare"} :
  /\ status = "running"
  /\ st = "cancelled" => \E s \in DOMAIN ledger : ledger[s].kind = "cancel"
  /\ role = "prepare" => dispatch = "no"
  /\ Start(p, IF role = "run" THEN "load" ELSE "prepare", role)
  /\ status' = st /\ ledger' = WithTerminalRow(ledger, st)
  /\ UNCHANGED <<redisVars, authority, dispatch, acked, handler>>

\* worker_main and checkpoint repair publish for a run that is already terminal.
PublishAgain(p) ==
  /\ status \in Terminal /\ Start(p, "load", "run")
  /\ UNCHANGED <<dbVars, redisVars, dispatch, acked, handler>>

PrepareAdmission(p) ==
  /\ publisher[p].pc = "prepare" /\ ~(status \in Terminal /\ authority = "none")
  /\ authority' = IF authority = "none" THEN "pending" ELSE authority
  /\ At(p, "open")
  /\ UNCHANGED <<redisVars, status, ledger, dispatch, acked, handler>>

PublishOpen(p) ==
  /\ publisher[p].pc = "open" /\ AppendOpen /\ At(p, "confirm")
  /\ UNCHANGED <<dbVars, dispatch, acked, handler>>

ConfirmAdmission(p) ==
  /\ publisher[p].pc = "confirm" /\ authority' = "confirmed"
  /\ IF publisher[p].role = "worker"
     THEN dispatch' = "yes" /\ Set(p, IdlePublisher)
     ELSE UNCHANGED dispatch /\ At(p, "load")
  /\ UNCHANGED <<redisVars, status, ledger, acked, handler>>

\* An exception in admit_v4_stream: only post_cancel goes on to publish.
AdmissionFails(p) ==
  /\ publisher[p].pc \in {"prepare", "open", "confirm"}
  /\ dispatch' = IF publisher[p].role = "worker" THEN "failed" ELSE dispatch
  /\ IF publisher[p].role = "cancel" THEN At(p, "load") ELSE Set(p, IdlePublisher)
  /\ UNCHANGED <<dbVars, redisVars, acked, handler>>

LoadRunEvent(p) ==
  LET rows == WithTerminalRow(ledger, status)
      row == IF authority = "confirmed" THEN LatestRunEvent(rows, Len(rows) + 1) ELSE 0 IN
  /\ publisher[p].pc = "load" /\ ledger' = rows
  /\ Set(p, IF row = 0 THEN IdlePublisher ELSE [publisher[p] EXCEPT !.pc = "publish", !.row = row])
  /\ UNCHANGED <<redisVars, status, authority, dispatch, acked, handler>>

\* V4RedisStreamBridge.append: a terminal event is followed by its stream.end.
PublishRunEvent(p) ==
  /\ publisher[p].pc = "publish" /\ AppendRunEvent(publisher[p].row)
  /\ IF ledger[publisher[p].row].kind = "terminal" THEN At(p, "end") ELSE Set(p, IdlePublisher)
  /\ UNCHANGED <<dbVars, dispatch, acked, handler>>
PublishEnd(p) ==
  /\ publisher[p].pc = "end" /\ AppendEnd /\ Set(p, IdlePublisher)
  /\ UNCHANGED <<dbVars, dispatch, acked, handler>>

\* Refused by the script, a lost connection or a crash: publication is not retried.
PublicationFails(p) ==
  /\ publisher[p].pc \in {"load", "publish", "end"} /\ Set(p, IdlePublisher)
  /\ UNCHANGED <<dbVars, redisVars, dispatch, acked, handler>>

-----------------------------------------------------------------------------
(* The callback route. The executor sends the next batch only after the     *)
(* acknowledgement of the last and sends a batch again when it hears        *)
(* nothing, so several requests may carry the same batch.                   *)

Ends(h) == handler' = [handler EXCEPT ![h] = IdleHandler]

\* Mutant: only the batch is published.
NoPredecessor(s) == 0

Predecessor(s) == LatestRunEvent(ledger, s)

\* The request's transaction, refused unless the run is running and confirmed,
\* and publish_callback_rows up to its query for the run event before the batch:
\* the rows before a committed one no longer change.
PersistCallback(h) ==
  LET b == acked + 1
      fresh == RowsOf(b) = {}
      pred == Predecessor(IF fresh THEN Len(ledger) + 1 ELSE Min(RowsOf(b))) IN
  /\ handler[h].pc = "idle" /\ dispatch = "yes" /\ b <= Batches
  /\ status = "running" /\ authority = "confirmed"
  /\ ledger' = IF fresh THEN ledger \o [i \in 1..BatchRows |-> [kind |-> "callback", batch |-> b]]
                        ELSE ledger
  /\ handler' = [handler EXCEPT
       ![h] = [pc |-> IF pred = 0 THEN "batch" ELSE "pred", batch |-> b, pred |-> pred]]
  /\ UNCHANGED <<redisVars, status, authority, dispatch, acked, publisher>>

PublishPredecessor(h) ==
  /\ handler[h].pc = "pred" /\ AppendRunEvent(handler[h].pred)
  /\ handler' = [handler EXCEPT ![h].pc = "batch", ![h].pred = 0]
  /\ UNCHANGED <<dbVars, dispatch, acked, publisher>>

\* The response may not arrive; the executor ignores one for an older batch.
PublishBatch(h) ==
  LET b == handler[h].batch IN
  /\ handler[h].pc = "batch" /\ AppendBatch(b) /\ Ends(h)
  /\ acked' \in {acked, Max({acked, b})}
  /\ UNCHANGED <<dbVars, dispatch, publisher>>

\* Refused by a script, a lost connection or a crash of the API (503 or none).
CallbackFails(h) ==
  /\ handler[h].pc # "idle" /\ Ends(h)
  /\ UNCHANGED <<dbVars, redisVars, dispatch, acked, publisher>>

Write ==
  \/ \E p \in Publisher :
       \/ WorkerAdmits(p) \/ RequestCancel(p) \/ Terminate(p) \/ PublishAgain(p)
       \/ PrepareAdmission(p) \/ PublishOpen(p) \/ ConfirmAdmission(p) \/ AdmissionFails(p)
       \/ LoadRunEvent(p) \/ PublishRunEvent(p) \/ PublishEnd(p) \/ PublicationFails(p)
  \/ \E h \in Handler :
       \/ PersistCallback(h) \/ PublishPredecessor(h) \/ PublishBatch(h)
       \/ CallbackFails(h)

Next == Write \/ Expire

Spec == Init /\ [][Next]_vars

\* Requests, and publishers, are alike.
RequestSymmetry == Permutations(Handler) \cup Permutations(Publisher)

-----------------------------------------------------------------------------
\* Up to entry i the stream has not been created a second time.
Original(i) == \A k \in 2..i : log[k].kind # "open"

(* In the stream as first created,                                          *)
(* the terminal event comes after every callback row of the run, delivered  *)
(* or retried, and only its stream.end comes after it ('stream_callback_    *)
(* pending' and 'stream_callback_closed').                                  *)
TerminalIsLast ==
  \A i \in DOMAIN log : Original(i) /\ log[i].kind = "terminal" =>
    /\ \A s \in DOMAIN ledger : Callback(s) => \E j \in 1..(i - 1) : log[j].seq = s
    /\ \A j \in (i + 1)..Len(log) : Original(j) => j = i + 1 /\ log[j].kind = "end"

(* A callback request can always publish the run event before its batch     *)
(* while the stream as first created is open: the executor is never answered 503 for ever by *)
(* 'stream_callback_pending'.                                               *)
PredecessorNeverPending ==
  \A h \in Handler :
    handler[h].pc = "pred" /\ phase = "open" /\ Original(Len(log)) => CancelAccepted(handler[h].pred)

Promised == INSTANCE StreamContract WITH
  over <- status \in Terminal,
  ledger <- [s \in DOMAIN ledger |-> ledger[s].kind],
  MaxBatch <- BatchRows,
  MaxRows <- Batches * BatchRows

(* The publishers keep the contract the readers rely on: rows reach Redis   *)
(* after they are committed, in the ledger's order, with no callback row    *)
(* passed over or published twice, although duplicate callback requests,    *)
(* retries and several publishers of run events race for one stream. In a   *)
(* stream created again the contract keeps only the absence of duplicates   *)
(* and the place of the terminal event.                                     *)
ImplementsContract == Promised!Contract

(* "No publisher reconstructs a missing Stream": once the stream has gone   *)
(* nothing is added to it.                                                  *)
NoReconstruction == [][log # <<>> /\ ~Exists => log' = log]_vars

=============================================================================
