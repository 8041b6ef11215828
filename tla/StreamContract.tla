--------------------------- MODULE StreamContract ---------------------------
(***************************************************************************)
(* What the publishers of a run's events promise to the readers of its     *)
(* Redis stream (app/streaming): rows of run_events are committed first    *)
(* and then appended to one stream, which Redis may trim or expire.        *)
(* StreamPublication implements it and StreamReader relies on it.          *)
(***************************************************************************)
EXTENDS Integers, Sequences, FiniteSets, FiniteSetsExt

CONSTANTS
  MaxBatch,     \* most rows in a callback batch
  MaxRows,      \* bound: callback rows of the run
  MaxLen,       \* SSE_STREAM_MAXLEN
  MaxExpiries   \* bound: how often the stream's TTL runs out

ASSUME ContractAssumption ==
  MaxBatch \in Nat \ {0} /\ MaxRows \in Nat /\ MaxLen \in Nat \ {0} /\ MaxExpiries \in Nat

VARIABLES
  over, authority, ledger,   \* PostgreSQL: the run is terminal, its stream authority, run_events
  log, first, expiries       \* Redis: entries ever added, first one left, expiries so far

dbVars == <<over, authority, ledger>>
redisVars == <<log, first, expiries>>
streamVars == <<dbVars, redisVars>>

InitStream ==
  /\ over = FALSE /\ authority = "none" /\ ledger = <<>>
  /\ log = <<>> /\ first = 1 /\ expiries = 0

-----------------------------------------------------------------------------
(* Transactions. A row's sequence is its index in the ledger: sequences are *)
(* taken from the run's run_event_cursors row, locked until the commit. A   *)
(* row is its kind.                                                         *)

Has(kind) == \E s \in DOMAIN ledger : ledger[s] = kind
CallbackRows == {s \in DOMAIN ledger : ledger[s] = "callback"}

\* persist_callback: only for a run in progress whose stream is confirmed.
CommitCallbacks == \E n \in 1..MaxBatch :
  /\ ~over /\ authority = "confirmed"
  /\ Cardinality(CallbackRows) + n <= MaxRows
  /\ ledger' = ledger \o [i \in 1..n |-> "callback"]
  /\ UNCHANGED <<redisVars, over, authority>>

\* _finish_authorized_request: one run.cancel_requested, with the stream's authority.
CommitCancel ==
  /\ ~over /\ ~Has("cancel")
  /\ ledger' = Append(ledger, "cancel")
  /\ authority' = IF authority = "none" THEN "pending" ELSE authority
  /\ UNCHANGED <<redisVars, over>>

\* A terminal transition; append_current_run_terminal_v4_row, if there is a stream.
CommitTerminal ==
  /\ ~over /\ over' = TRUE
  /\ ledger' = IF authority = "none" THEN ledger ELSE Append(ledger, "terminal")
  /\ UNCHANGED <<redisVars, authority>>

\* create_or_get_stream_admission_v4 and confirm_stream_admission.
Authorize ==
  /\ \/ authority = "none" /\ ~over /\ authority' = "pending"
     \/ authority = "pending" /\ log # <<>> /\ authority' = "confirmed"
  /\ UNCHANGED <<redisVars, over, ledger>>

-----------------------------------------------------------------------------
(* The stream. `log` is every entry ever added, an entry's id is its index, *)
(* and the key holds the entries from `first` on. It does not exist while   *)
(* there are none.                                                          *)

Exists == first <= Len(log)
Retained(i) == first <= i /\ i <= Len(log)
Entry(kind, seq) == [kind |-> kind, seq |-> seq]
EntryOf(s) == Entry(ledger[s], s)

\* No stream.open but the first is at or before entry i: up to there the stream
\* has not been created a second time.
Original(i) == \A k \in 2..i : log[k].kind # "open"

\* The entries of the stream since it was last created.
Current == {i \in DOMAIN log : \A k \in (i + 1)..Len(log) : log[k].kind # "open"}
Published == {log[i].seq : i \in Current}
Settled == \E i \in Current : log[i].kind = "terminal"

\* XADD MAXLEN ~: old entries may be dropped, but MaxLen of them always stay.
XAdd(entries) ==
  /\ log' = log \o entries
  /\ first' \in first..Max({first, Len(log) + Len(entries) - MaxLen + 1})
  /\ UNCHANGED <<dbVars, expiries>>

OpenStream == authority # "none" /\ ~Exists /\ XAdd(<<Entry("open", 0)>>)

\* Mutant: rows may be published in any order.
PublishInAnyOrder == \E s \in DOMAIN ledger :
  /\ Exists /\ ~Settled /\ s \notin Published
  /\ XAdd(<<EntryOf(s)>>)

\* A callback batch or a run event. No row is published twice, none after the
\* terminal event, and, in the stream as first created, none before the callback
\* rows that precede it or after a later row.
Publish == \E s \in DOMAIN ledger, n \in 1..MaxBatch :
  /\ Exists /\ ~Settled
  /\ s + n - 1 \in DOMAIN ledger /\ s..(s + n - 1) \cap Published = {}
  /\ n > 1 => s..(s + n - 1) \subseteq CallbackRows
  /\ Original(Len(log)) =>
       /\ \A t \in CallbackRows : t < s => t \in Published
       /\ \A t \in Published : t < s
  /\ XAdd([i \in 1..n |-> EntryOf(s + i - 1)])

\* Mutant: the end does not wait for the terminal event.
EndStreamAlone == Exists /\ log[Len(log)].kind # "end" /\ XAdd(<<Entry("end", 0)>>)

\* stream.end directly follows the terminal event.
EndStream == Exists /\ log[Len(log)].kind = "terminal" /\ XAdd(<<Entry("end", 0)>>)

\* PEXPIRE.
Expire ==
  /\ Exists /\ expiries < MaxExpiries
  /\ first' = Len(log) + 1 /\ expiries' = expiries + 1
  /\ UNCHANGED <<dbVars, log>>

NextStream ==
  \/ CommitCallbacks \/ CommitCancel \/ CommitTerminal \/ Authorize
  \/ OpenStream \/ Publish \/ EndStream \/ Expire

Contract == InitStream /\ [][NextStream]_streamVars

=============================================================================
