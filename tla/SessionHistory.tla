--------------------------- MODULE SessionHistory ---------------------------
(***************************************************************************)
(* A conversation's history, read page by page while its newest run still   *)
(* grows: session_events and _compatibility_events_for_run_page of          *)
(* app/routes/lambchat_compat.py over run_events, and the session's title   *)
(* and deletion (app/session_actions.py).                                   *)
(*                                                                         *)
(* The first request lists the runs, then reads how far each run's ledger   *)
(* goes; the cursor carries both, with the position reached and what the    *)
(* fold of the interrupted run has to remember.  A ledger row is its kind:   *)
(*   delta    a piece of the answer; adjacent pieces of a finished run may   *)
(*            be joined                                                      *)
(*   message  a message or message part event                                *)
(*   once     a lifecycle event shown once per run                           *)
(*   exec     a strict public execution step; with one in view, the older    *)
(*            `legacy` capability rows say the same thing again              *)
(*   progress a v4 progress row; an `old` row with its content repeats it    *)
(*   hidden   anything not shown, the terminal row included                  *)
(***************************************************************************)
EXTENDS SequencesExt, Integers

CONSTANTS PageSize,    \* run events of one answer (100 in the code)
          ListLimit,   \* runs of one history (50 in the code)
          MaxRuns,     \* bound: runs of the session
          MaxChanges,  \* bound: changes made to the session while it is read
          Ledgers,     \* the ledgers an ended run may have
          Added        \* the kinds of rows added to a running run

VARIABLES runs,        \* the session's runs, oldest first
          session,     \* its row
          reader,      \* the page that reads the history
          left         \* changes that may still happen

vars == <<runs, session, reader, left>>

Kinds == {"delta", "message", "once", "exec", "legacy", "progress", "old", "hidden"}
Terminal == {"succeeded", "failed"}
NewRun == [status |-> "running", rows |-> <<>>, artifacts |-> 0]
NoCursor == [index |-> 1, after |-> 0, strict |-> FALSE, seen |-> FALSE, sent |-> FALSE]

Ended(rows) == [status |-> "failed", rows |-> Append(rows, "hidden"), artifacts |-> 0]

(* An ended run, alone, after another one, or before a running one *)
Init ==
  /\ \E rows \in Ledgers :
       runs \in {<<Ended(rows)>>, <<Ended(<<>>), Ended(rows)>>, <<Ended(rows), NewRun>>,
                <<[NewRun EXCEPT !.rows = rows]>>}
  /\ session = [status |-> "active", title |-> "first", source |-> "initial"]
  /\ reader = [at |-> "idle", compact |-> FALSE, snap |-> <<>>, cursor |-> NoCursor, out |-> <<>>]
  /\ left = MaxChanges

Spend == left > 0 /\ left' = left - 1

-----------------------------------------------------------------------------
(* The runs.                                                                *)

Newest == Len(runs)

(* append_event: the worker's row; only the running run's ledger grows *)
AppendRow(kind) ==
  /\ Spend /\ runs[Newest].status = "running"
  /\ runs' = [runs EXCEPT ![Newest].rows = Append(@, kind)]
  /\ UNCHANGED <<session, reader>>

AddArtifact ==
  /\ Spend /\ runs[Newest].status = "running" /\ runs[Newest].artifacts = 0
  /\ runs' = [runs EXCEPT ![Newest].artifacts = 1]
  /\ UNCHANGED <<session, reader>>

(* The terminal row and the run's status are one transaction. *)
FinishRun(status) ==
  /\ Spend /\ runs[Newest].status = "running"
  /\ runs' = [runs EXCEPT ![Newest].status = status, ![Newest].rows = Append(@, "hidden")]
  /\ UNCHANGED <<session, reader>>

StartRun ==
  /\ Spend /\ session.status = "active" /\ runs[Newest].status # "running" /\ Newest < MaxRuns
  /\ runs' = Append(runs, NewRun)
  /\ UNCHANGED <<session, reader>>

-----------------------------------------------------------------------------
(* Title and deletion: each locks the session's row first.                   *)

Rename ==
  /\ Spend /\ session.status = "active"
  /\ session' = [session EXCEPT !.title = "chosen", !.source = "user"]
  /\ UNCHANGED <<runs, reader>>

TitlesAny == session.status = "active"

(* initialize_session_title *)
Titles == session.status = "active" /\ session.source = "initial"

GenerateTitle ==
  /\ Spend /\ Titles
  /\ session' = [session EXCEPT !.title = "generated", !.source = "generated"]
  /\ UNCHANGED <<runs, reader>>

DeleteSession ==
  /\ Spend /\ session.status = "active"
  /\ session' = [session EXCEPT !.status = "deleted"]
  /\ UNCHANGED <<runs, reader>>

-----------------------------------------------------------------------------
(* The first request: two statements, each with its own view of the tables.  *)

(* list_authorized_session_runs: the newest runs, here oldest first *)
Listed ==
  LET first == IF Newest > ListLimit THEN Newest - ListLimit + 1 ELSE 1
  IN  [i \in 1 .. Newest - first + 1 |->
         [run |-> first + i - 1, max |-> 0, status |-> runs[first + i - 1].status]]

ListRuns(compact) ==
  /\ reader.at = "idle" /\ session.status = "active"
  /\ reader' = [reader EXCEPT !.at = "listed", !.compact = compact, !.snap = Listed]
  /\ UNCHANGED <<runs, session, left>>

(* list_run_event_sequence_bounds *)
ReadBounds ==
  /\ reader.at = "listed"
  /\ reader' = [reader EXCEPT !.at = "paging",
                  !.snap = [i \in DOMAIN reader.snap |->
                              LET s == reader.snap[i]
                              IN  [s EXCEPT !.max = Len(runs[s.run].rows)]]]
  /\ UNCHANGED <<runs, session, left>>

-----------------------------------------------------------------------------
(* _compatibility_events_for_run_page.                                       *)

Item(run, what, seqs) == [run |-> run, what |-> what, seqs |-> seqs]

Flush(acc) ==
  IF acc.pending = <<>> THEN acc
  ELSE [acc EXCEPT !.out = Append(@, Item(acc.run, "answer", acc.pending)), !.pending = <<>>]

Emit(acc, kind, seq) ==
  LET f == Flush(acc) IN [f EXCEPT !.out = Append(@, Item(acc.run, kind, <<seq>>))]

(* One row: skipped, joined to the pending answer, or shown after it *)
FoldRow(acc, row) ==
  CASE row.kind = "hidden"                     -> acc
    [] row.kind = "legacy" /\ acc.strict       -> acc
    [] row.kind = "old" /\ acc.canonical       -> acc
    [] row.kind = "once" /\ acc.seen           -> acc
    [] row.kind = "once" /\ ~acc.seen          -> [Emit(acc, "once", row.seq) EXCEPT !.seen = TRUE]
    [] row.kind = "delta" /\ acc.compact       -> [acc EXCEPT !.pending = Append(@, row.seq)]
    [] row.kind = "delta" /\ ~acc.compact      -> [acc EXCEPT !.out =
                                                     Append(@, Item(acc.run, "answer", <<row.seq>>))]
    [] OTHER                                   -> Emit(acc, row.kind, row.seq)

(* Facts of the whole page, and the ones carried from the page before *)
FoldStart(s, page, c) ==
  [run |-> s.run, out |-> <<>>, pending |-> <<>>, seen |-> c.seen,
   strict |-> c.strict \/ \E i \in DOMAIN page : page[i].kind = "exec",
   canonical |-> \E i \in DOMAIN page : page[i].kind = "progress",
   compact |-> reader.compact /\ s.status \in Terminal]

LeavesPending(acc) == acc.out

EndsAnswer(acc) == Flush(acc).out

UserMessage(s, c) == IF c.sent THEN <<>> ELSE <<Item(s.run, "user", <<>>)>>

(* The status a history shows is the one its snapshot recorded. *)
StatusNow(s) == runs[s.run].status

StatusOf(s) == s.status

(* _visible_assistant_artifacts *)
Artifacts(s) == [i \in 1 .. runs[s.run].artifacts |-> Item(s.run, "artifact", <<>>)]

Ending(s) ==
  Artifacts(s)
  \o (IF StatusOf(s) = "failed" THEN <<Item(s.run, "final", <<>>)>> ELSE <<>>)
  \o (IF StatusOf(s) \in Terminal THEN <<Item(s.run, "done", <<>>)>> ELSE <<>>)

-----------------------------------------------------------------------------
(* session_events: one answer of at most PageSize rows, across small runs.   *)

CarryNothing(c, page, acc) == [c EXCEPT !.after = @ + Len(page), !.sent = TRUE]

(* What the next page of an interrupted run starts from *)
Carry(c, page, acc) ==
  [c EXCEPT !.after = @ + Len(page), !.strict = acc.strict, !.seen = acc.seen, !.sent = TRUE]

NextRun(c) == [NoCursor EXCEPT !.index = c.index + 1]

RowsLeft(s, c) ==
  [i \in 1 .. s.max - c.after |-> [seq |-> c.after + i, kind |-> runs[s.run].rows[c.after + i]]]

RECURSIVE FillPage(_, _, _)
FillPage(c, out, used) ==
  IF c.index > Len(reader.snap) THEN [cursor |-> c, out |-> out]
  ELSE LET s == reader.snap[c.index]
           rest == RowsLeft(s, c)
           more == Len(rest) > PageSize - used
           page == IF more THEN SubSeq(rest, 1, PageSize - used) ELSE rest
           acc == FoldLeft(FoldRow, FoldStart(s, page, c), page)
           shown == UserMessage(s, c) \o EndsAnswer(acc)
       IN  IF more THEN [cursor |-> Carry(c, page, acc), out |-> out \o shown]
           ELSE IF used + Len(page) >= PageSize
                THEN [cursor |-> NextRun(c), out |-> out \o shown \o Ending(s)]
                ELSE FillPage(NextRun(c), out \o shown \o Ending(s), used + Len(page))

(* A snapshot that says a run ended while the table says otherwise is        *)
(* refused; so is a deleted session.                                         *)
CursorValid ==
  LET s == reader.snap[reader.cursor.index]
  IN  s.status \in Terminal => runs[s.run].status = s.status

ReadPage ==
  /\ reader.at = "paging" /\ session.status = "active" /\ CursorValid
  /\ LET f == FillPage(reader.cursor, reader.out, 0)
     IN  reader' = [reader EXCEPT !.cursor = f.cursor, !.out = f.out,
                      !.at = IF f.cursor.index > Len(reader.snap) THEN "done" ELSE "paging"]
  /\ UNCHANGED <<runs, session, left>>

Refused ==
  /\ reader.at \in {"listed", "paging"} /\ session.status # "active"
  /\ reader' = [reader EXCEPT !.at = "refused", !.out = <<>>]
  /\ UNCHANGED <<runs, session, left>>

Next ==
  \/ \E k \in Added : AppendRow(k)
  \/ AddArtifact
  \/ \E e \in Terminal : FinishRun(e)
  \/ StartRun
  \/ Rename \/ GenerateTitle \/ DeleteSession
  \/ \E b \in BOOLEAN : ListRuns(b)
  \/ ReadBounds \/ ReadPage \/ Refused

Spec == Init /\ [][Next]_vars

-----------------------------------------------------------------------------
(* Properties.                                                              *)

TypeOK ==
  /\ Len(runs) \in 1 .. MaxRuns /\ left \in 0 .. MaxChanges
  /\ \A i \in DOMAIN runs : /\ runs[i].status \in {"running"} \cup Terminal
                            /\ \A j \in DOMAIN runs[i].rows : runs[i].rows[j] \in Kinds
  /\ session.source \in {"initial", "generated", "user"}
  /\ reader.at \in {"idle", "listed", "paging", "done", "refused"}

(* What a history of the rows up to `max` has to show, and what it may show   *)
(* beyond that because a page cannot know what a later page repeats.          *)
Has(rows, kind) == \E i \in DOMAIN rows : rows[i] = kind
Repeats(rows, i) ==
  \/ rows[i] = "once" /\ \E j \in 1 .. i - 1 : rows[j] = "once"
  \/ rows[i] = "legacy" /\ \E j \in 1 .. i : rows[j] = "exec"
MustShow(rows) ==
  {i \in DOMAIN rows : /\ rows[i] # "hidden" /\ ~Repeats(rows, i)
                       /\ rows[i] = "legacy" => ~Has(rows, "exec")
                       /\ rows[i] = "old" => ~Has(rows, "progress")}
MayShow(rows) == {i \in DOMAIN rows : rows[i] # "hidden" /\ ~Repeats(rows, i)}

Shown(r) == SelectSeq(reader.out, LAMBDA x : x.run = r)
Seqs(r) == FlattenSeq([i \in DOMAIN Shown(r) |-> Shown(r)[i].seqs])
Count(r, what) == Len(SelectSeq(Shown(r), LAMBDA x : x.what = what))

(* The pages of a history, put together, are the history of its snapshot      *)
(* whatever the page size cuts: every run in order, its question once and     *)
(* first, every row it has to show exactly once and in ledger order, no       *)
(* lifecycle row twice, its end last (session_events).                        *)
PagesMakeTheHistory ==
  reader.at = "done" =>
    /\ \A i \in 1 .. Len(reader.out) - 1 : reader.out[i].run <= reader.out[i + 1].run
    /\ \A k \in DOMAIN reader.snap :
         LET s == reader.snap[k]
             rows == SubSeq(runs[s.run].rows, 1, s.max)
             seqs == Seqs(s.run)
         IN  /\ Count(s.run, "user") = 1 /\ Shown(s.run)[1].what = "user"
             /\ \A i, j \in DOMAIN seqs : i < j => seqs[i] < seqs[j]
             /\ MustShow(rows) \subseteq ToSet(seqs) /\ ToSet(seqs) \subseteq MayShow(rows)
             /\ Count(s.run, "done") = IF s.status \in Terminal THEN 1 ELSE 0

(* A history that shows a run's end shows the whole run: the list of runs is  *)
(* read before the bounds of their ledgers, and a run's status is the one     *)
(* listed, so a run that ends between two pages is not shown as ended with    *)
(* its last rows or its artifacts missing (session_events).                   *)
EndMeansAll ==
  reader.at \in {"paging", "done"} =>
    \A r \in DOMAIN runs : Count(r, "done") = 1 =>
      /\ MustShow(runs[r].rows) \subseteq ToSet(Seqs(r))
      /\ Count(r, "artifact") = runs[r].artifacts
      /\ Last(Shown(r)).what = "done"

(* A title the user chose is never replaced by a generated one, and a deleted  *)
(* session is neither renamed nor revived (initialize_session_title).          *)
SessionStep ==
  /\ session.source = "user" => session'.source = "user" /\ session'.title = session.title
  /\ session.status = "deleted" => session' = session

=============================================================================
