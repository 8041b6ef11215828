--------------------- MODULE StreamPublicationInvariant ---------------------
(*****************************************************************************)
(* The inductive invariant of the publishers of a run's events, and what each *)
(* way of adding to the ledger or to the stream keeps of it.  TerminalIsLast *)
(* is not inductive: it depends on what the ledger's batches look like, on   *)
(* what the state hash says of the entries since the stream was last created, *)
(* and on what a request in flight has already published.  Inv adds these.   *)
(*****************************************************************************)
EXTENDS StreamPublication, FiniteSetTheorems, SequenceTheorems, TLAPS

Row == [kind : {"callback", "cancel", "terminal"}, batch : 0..Batches]
LogEntry == [kind : {"open", "callback", "cancel", "terminal", "end"}, seq : Nat]

Request == [pc : {"idle", "pred", "batch"}, batch : 0..Batches, pred : Nat]
Publication == [pc : {"idle", "prepare", "open", "confirm", "load", "publish", "end"},
                role : {"worker", "cancel", "run", "prepare"}, row : Nat]

TypeInv ==
  /\ status \in {"running"} \cup Terminal
  /\ authority \in {"none", "pending", "confirmed"}
  /\ ledger \in Seq(Row)
  /\ dispatch \in {"no", "admitting", "yes", "failed"}
  /\ acked \in 0..Batches
  /\ handler \in [Handler -> Request]
  /\ publisher \in [Publisher -> Publication]
  /\ log \in Seq(LogEntry)
  /\ first \in Nat \ {0}
  /\ phase \in {"none", "open", "terminal", "ended"}
  /\ delivered \in Nat /\ last_event \in Nat /\ expiries \in Nat

\* A run has one row for a cancel request and one, its last, for its end.
RunEventsOnce ==
  /\ \A s \in DOMAIN ledger : Callback(s) <=> ledger[s].batch # 0
  /\ \A s, t \in DOMAIN ledger : ledger[s].kind = ledger[t].kind /\ ~Callback(s) => s = t
  /\ \A s \in DOMAIN ledger : ledger[s].kind = "terminal" => s = Len(ledger) /\ status \in Terminal

\* The rows follow the run and its stream authority.
RowsFollowRun ==
  /\ \A s \in DOMAIN ledger : ledger[s].kind = "cancel" => authority # "none"
  /\ status = "cancelled" => \E s \in DOMAIN ledger : ledger[s].kind = "cancel"
  /\ status \in Terminal /\ authority # "none" =>
       \E s \in DOMAIN ledger : ledger[s].kind = "terminal"

\* The batches are committed whole, in order, and not before the last was acknowledged.
BatchesWhole ==
  /\ \A b \in 1..Batches : RowsOf(b) # {} =>
       b <= acked + 1 /\ \E m \in DOMAIN ledger : RowsOf(b) = m..(m + BatchRows - 1)
  /\ \A b \in 1..acked : RowsOf(b) # {}
  /\ \A s, t \in DOMAIN ledger :
       Callback(s) /\ Callback(t) /\ s < t => ledger[s].batch <= ledger[t].batch

CallbackRows == {s \in DOMAIN ledger : Callback(s)}
BatchesBegun == IF RowsOf(acked + 1) = {} THEN acked ELSE acked + 1
RowsCounted == Cardinality(CallbackRows) = BatchesBegun * BatchRows

\* Nothing but admission happens before the stream was created.
StreamFirst ==
  /\ authority = "confirmed" => log # <<>>
  /\ \A s \in DOMAIN ledger : Callback(s) => log # <<>>
  /\ \A h \in Handler : handler[h].pc # "idle" => log # <<>>

AdmissionInOrder ==
  \A p \in Publisher :
    /\ publisher[p].pc \in {"open", "confirm"} => authority # "none"
    /\ publisher[p].pc = "confirm" => log # <<>>

\* An entry carries a committed row, or none.
EntriesCommitted ==
  \A i \in DOMAIN log :
    IF log[i].kind \in {"open", "end"} THEN log[i].seq = 0
    ELSE log[i].seq \in DOMAIN ledger /\ ledger[log[i].seq].kind = log[i].kind

\* The stream and its state hash come and go together.
HashHasStream ==
  /\ first <= Len(log) + 1
  /\ phase = "none" <=> ~Exists
  /\ phase = "none" => delivered = 0 /\ last_event = 0

\* Entry i was added since the stream was last created.
Present(i) == \A k \in (i + 1)..Len(log) : log[k].kind # "open"

\* What the hash says of the rows, ...
HashAndRows ==
  /\ delivered # 0 => delivered \in DOMAIN ledger /\ Callback(delivered)
  /\ last_event # 0 =>
       /\ last_event \in DOMAIN ledger /\ ledger[last_event].kind = "cancel"
       /\ \A s \in 1..(last_event - 1) : Callback(s) => s <= delivered

\* ... and of the entries since the stream was last created.
HashAndEntries ==
  phase # "none" =>
    /\ \A i \in DOMAIN log : Present(i) =>
         /\ log[i].kind = "callback" =>
              \A s \in RowsOf(ledger[log[i].seq].batch) : s <= delivered
         /\ log[i].kind = "cancel" => log[i].seq = last_event
         /\ log[i].kind \in {"terminal", "end"} => phase \in {"terminal", "ended"}
    /\ phase = "terminal" => log[Len(log)].kind = "terminal"

\* While the first stream lives, the rows the hash counts as delivered are in it, and
\* so is a run event before them; ...
FirstStreamComplete ==
  phase # "none" /\ Original(Len(log)) =>
    /\ \A s \in DOMAIN ledger : Callback(s) /\ s <= delivered => \E i \in DOMAIN log : log[i].seq = s
    /\ \A c \in DOMAIN ledger : ledger[c].kind = "cancel" /\ c < delivered => last_event = c

\* ... what was acknowledged is delivered, and a batch about to be published has the
\* run event before it published.
RequestsInOrder ==
  phase # "none" /\ Original(Len(log)) =>
    /\ \A s \in DOMAIN ledger : Callback(s) /\ ledger[s].batch <= acked => s <= delivered
    /\ \A h \in Handler : handler[h].pc = "batch" =>
         \A c \in DOMAIN ledger, s \in RowsOf(handler[h].batch) :
           ledger[c].kind = "cancel" /\ c < s => last_event = c

\* What a callback request holds is committed, and so is what a publisher holds.
RequestsHoldRows ==
  \A h \in Handler : handler[h].pc # "idle" =>
    /\ handler[h].batch \in 1..(acked + 1) /\ RowsOf(handler[h].batch) # {}
    /\ handler[h].pc = "pred" =>
         /\ handler[h].pred \in DOMAIN ledger /\ ledger[handler[h].pred].kind = "cancel"
         /\ \A s \in RowsOf(handler[h].batch) : handler[h].pred < s

PublishersHoldRows ==
  \A p \in Publisher : publisher[p].pc = "publish" =>
    publisher[p].row \in DOMAIN ledger /\ ~Callback(publisher[p].row)

Inv ==
  /\ TypeInv
  /\ RunEventsOnce /\ RowsFollowRun /\ BatchesWhole /\ RowsCounted
  /\ StreamFirst /\ AdmissionInOrder
  /\ EntriesCommitted /\ HashHasStream /\ HashAndRows /\ HashAndEntries
  /\ FirstStreamComplete /\ RequestsInOrder /\ RequestsHoldRows /\ PublishersHoldRows
  /\ TerminalIsLast

-----------------------------------------------------------------------------
(* The largest and the smallest of a set of sequence numbers.               *)

\* A set of numbers has a minimal element for any well-founded order, ...
LEMMA MinimalElement ==
  ASSUME NEW R, IsWellFoundedOn(R, Nat), NEW S, S \subseteq Nat, S # {}
  PROVE  \E x \in S : \A y \in S : ~(<<y, x>> \in R)
  BY WFMin, Zenon

\* ... for < a smallest one, ...
LEMMA SmallestNat ==
  ASSUME NEW S \in SUBSET Nat, S # {}
  PROVE  \E x \in S : \A y \in S : x <= y
  <1>1. PICK R : IsWellFoundedOn(R, Nat) /\ \A x, y \in Nat : x < y => <<x, y>> \in R
    BY NatLessThanWellFounded DEF OpToRel
  <1>2. \E x \in S : \A y \in S : ~(<<y, x>> \in R)
    BY <1>1, MinimalElement
  <1>3. PICK x \in S : \A y \in S : ~(<<y, x>> \in R)
    BY <1>2
  <1>4. \A y \in S : ~(y < x)
    BY <1>1, <1>3
  <1> QED BY <1>4

\* ... which is what Min returns.
LEMMA MinIsLeast ==
  ASSUME NEW S \in SUBSET Nat, S # {}
  PROVE  Min(S) \in S /\ \A y \in S : Min(S) <= y
  BY SmallestNat DEF Min

\* A bounded set of numbers has a greatest element, which Max returns.
LEMMA MaxIsGreatest ==
  ASSUME NEW S \in SUBSET Nat, S # {}, NEW n \in Nat, \A x \in S : x <= n
  PROVE  Max(S) \in S /\ \A y \in S : y <= Max(S)
  <1> DEFINE T == {m \in Nat : \A x \in S : x <= m}
  <1>1. PICK m \in T : \A k \in T : m <= k
    BY SmallestNat
  <1>2. PICK x \in S : TRUE
    OBVIOUS
  <1>3. m \in S
    <2> SUFFICES ASSUME m \notin S PROVE FALSE OBVIOUS
    <2>1. m - 1 \in T BY <1>1, <1>2
    <2> QED BY <1>1, <2>1
  <1> QED BY <1>1, <1>3 DEF Max

\* Max of a pair.
LEMMA MaxOfTwo ==
  ASSUME NEW a \in Int, NEW b \in Int
  PROVE  Max({a, b}) = IF a >= b THEN a ELSE b
  BY DEF Max

\* The Redis scripts compare the hash with source.callback_sequence; that is the test
\* whether every callback row before s is delivered.
LEMMA CallbacksDeliveredMeans ==
  ASSUME ledger \in Seq(Row), delivered \in Nat, NEW s \in 1..(Len(ledger) + 1)
  PROVE  CallbacksDelivered(s) <=> \A t \in 1..(s - 1) : Callback(t) => t <= delivered
  <1> DEFINE T == {0} \cup {t \in 1..(s - 1) : Callback(t)}
  <1>1. T \in SUBSET Nat /\ T # {} /\ s \in Nat /\ \A x \in T : x <= s
    OBVIOUS
  <1>2. Max(T) \in T /\ \A y \in T : y <= Max(T)
    BY <1>1, MaxIsGreatest
  <1> QED BY <1>1, <1>2 DEF CallbacksDelivered, CallbackBefore

\* load_latest_run_event returns the last run event before s, or nothing.
LEMMA LatestRunEventMeans ==
  ASSUME NEW rows \in Seq(Row), NEW s \in 1..(Len(rows) + 1)
  PROVE  /\ LatestRunEvent(rows, s) \in 0..(s - 1)
         /\ LatestRunEvent(rows, s) # 0 => rows[LatestRunEvent(rows, s)].kind # "callback"
         /\ \A t \in 1..(s - 1) : rows[t].kind # "callback" => t <= LatestRunEvent(rows, s)
  <1> DEFINE T == {0} \cup {t \in 1..(s - 1) : rows[t].kind # "callback"}
  <1>1. T \in SUBSET Nat /\ T # {} /\ s \in Nat /\ \A x \in T : x <= s
    OBVIOUS
  <1>2. Max(T) \in T /\ \A y \in T : y <= Max(T)
    BY <1>1, MaxIsGreatest
  <1>3. LatestRunEvent(rows, s) = Max(T)
    BY DEF LatestRunEvent
  <1> HIDE DEF T
  <1>4. Max(T) \in 0..(s - 1) /\ (Max(T) # 0 => rows[Max(T)].kind # "callback")
    BY <1>2 DEF T
  <1>5. \A t \in 1..(s - 1) : rows[t].kind # "callback" => t \in T
    BY DEF T
  <1> QED BY <1>2, <1>3, <1>4, <1>5

\* A committed batch is an interval of rows.
LEMMA BatchInterval ==
  ASSUME ledger \in Seq(Row), BatchesWhole, NEW b \in 1..Batches, RowsOf(b) # {}
  PROVE  /\ RowsOf(b) = Min(RowsOf(b))..Max(RowsOf(b))
         /\ Min(RowsOf(b)) \in DOMAIN ledger /\ Max(RowsOf(b)) \in DOMAIN ledger
         /\ Max(RowsOf(b)) = Min(RowsOf(b)) + BatchRows - 1
  <1>1. PICK m \in DOMAIN ledger : RowsOf(b) = m..(m + BatchRows - 1)
    BY DEF BatchesWhole
  <1>2. BatchRows \in Nat /\ BatchRows >= 1 /\ m \in Nat
    BY PublicationAssumption
  <1>3. RowsOf(b) \in SUBSET Nat /\ \A x \in RowsOf(b) : x <= m + BatchRows - 1
    BY <1>1, <1>2
  <1>4. m + BatchRows - 1 \in Nat /\ m + BatchRows - 1 \in RowsOf(b) /\ m \in RowsOf(b)
    BY <1>1, <1>2
  <1>5. Min(RowsOf(b)) \in RowsOf(b) /\ \A y \in RowsOf(b) : Min(RowsOf(b)) <= y
    BY <1>3, MinIsLeast
  <1>6. Max(RowsOf(b)) \in RowsOf(b) /\ \A y \in RowsOf(b) : y <= Max(RowsOf(b))
    BY <1>3, <1>4, MaxIsGreatest
  <1>7. Min(RowsOf(b)) = m /\ Max(RowsOf(b)) = m + BatchRows - 1
    BY <1>1, <1>2, <1>4, <1>5, <1>6
  <1>8. RowsOf(b) \subseteq DOMAIN ledger
    BY DEF RowsOf
  <1> QED BY <1>1, <1>4, <1>7, <1>8

-----------------------------------------------------------------------------
(* What the scripts append.                                                 *)

RedisType ==
  /\ log \in Seq(LogEntry) /\ first \in Nat \ {0}
  /\ phase \in {"none", "open", "terminal", "ended"}
  /\ delivered \in Nat /\ last_event \in Nat /\ expiries \in Nat

StreamInv ==
  /\ RedisType
  /\ EntriesCommitted /\ HashHasStream /\ HashAndRows /\ HashAndEntries
  /\ FirstStreamComplete /\ TerminalIsLast

\* The first stream only gains: what a request found in it stays.
Carries ==
  /\ log # <<>> => log' # <<>>
  /\ phase' # "none" /\ Original(Len(log))' =>
       \/ log = <<>>
       \/ /\ phase # "none" /\ Original(Len(log)) /\ delivered <= delivered'
          /\ last_event # 0 => last_event' = last_event

\* A step that leaves the rows and the stream alone.
LEMMA StreamUntouched ==
  ASSUME Inv, ledger' = ledger, UNCHANGED redisVars
  PROVE  StreamInv' /\ Carries
  BY DEF Inv, TypeInv, StreamInv, RedisType, EntriesCommitted, HashHasStream, HashAndRows,
     HashAndEntries, FirstStreamComplete, TerminalIsLast, Carries, redisVars, Exists,
     Present, Original, RowsOf, Callback

\* XADD leaves the entries in place and keeps the newest.
LEMMA LogGrows ==
  ASSUME log \in Seq(LogEntry), first \in Nat \ {0}, first <= Len(log) + 1,
         NEW es \in Seq(LogEntry), es # <<>>, XAdd(es)
  PROVE  /\ log' \in Seq(LogEntry) /\ Len(log') = Len(log) + Len(es) /\ Len(es) > 0
         /\ \A i \in 1..Len(log) : log'[i] = log[i]
         /\ \A i \in (Len(log) + 1)..Len(log') : log'[i] = es[i - Len(log)]
         /\ first' \in Nat \ {0} /\ first' <= Len(log')
  <1>1. log' = log \o es /\ first' \in first..Max({first, Len(log) + Len(es) - MaxLen + 1})
    BY DEF XAdd
  <1>2. Len(log) \in Nat /\ Len(es) \in Nat /\ Len(es) > 0 /\ MaxLen \in Nat /\ MaxLen >= 1
    BY EmptySeq, LenProperties, PublicationAssumption
  <1>3. log' \in Seq(LogEntry) /\ Len(log') = Len(log) + Len(es)
    BY <1>1, ConcatProperties
  <1>4. /\ \A i \in 1..Len(log) : log'[i] = log[i]
        /\ \A i \in (Len(log) + 1)..Len(log') : log'[i] = es[i - Len(log)]
    BY <1>1, <1>2, <1>3, ConcatProperties
  <1>5. first' \in Nat \ {0} /\ first' <= Len(log')
    <2>1. Max({first, Len(log) + Len(es) - MaxLen + 1}) <= Len(log) + Len(es)
      BY <1>2, MaxOfTwo
    <2>2. Max({first, Len(log) + Len(es) - MaxLen + 1}) \in Int
      BY <1>2, MaxOfTwo
    <2> QED BY <1>1, <1>2, <1>3, <2>1, <2>2
  <1> QED BY <1>2, <1>3, <1>4, <1>5

\* XADD of one entry.
LEMMA OneEntryMore ==
  ASSUME Inv, NEW e \in LogEntry, XAdd(<<e>>)
  PROVE  /\ log' \in Seq(LogEntry) /\ Len(log') = Len(log) + 1 /\ Len(log) \in Nat
         /\ DOMAIN log = 1..Len(log) /\ DOMAIN log' = 1..(Len(log) + 1)
         /\ \A i \in 1..Len(log) : log'[i] = log[i]
         /\ log'[Len(log) + 1] = e
         /\ first' \in Nat \ {0} /\ first' <= Len(log')
  <1> DEFINE es == <<e>>
  <1>1. es \in Seq(LogEntry) /\ es # <<>> /\ Len(es) = 1 /\ es[1] = e
    OBVIOUS
  <1>2. log \in Seq(LogEntry) /\ first \in Nat \ {0} /\ first <= Len(log) + 1
    BY DEF Inv, TypeInv, HashHasStream
  <1>3. XAdd(es)
    OBVIOUS
  <1> HIDE DEF es
  <1>4. /\ log' \in Seq(LogEntry) /\ Len(log') = Len(log) + Len(es)
        /\ \A i \in 1..Len(log) : log'[i] = log[i]
        /\ \A i \in (Len(log) + 1)..Len(log') : log'[i] = es[i - Len(log)]
        /\ first' \in Nat \ {0} /\ first' <= Len(log')
    BY <1>1, <1>2, <1>3, LogGrows
  <1>5. Len(log) \in Nat
    BY <1>2, LenProperties
  <1> QED BY <1>1, <1>2, <1>4, <1>5, LenProperties

\* Entries other than stream.open are added to the stream there is.
LEMMA SameStream ==
  ASSUME log \in Seq(LogEntry), log' \in Seq(LogEntry), Len(log) <= Len(log'),
         \A i \in 1..Len(log) : log'[i] = log[i],
         \A i \in (Len(log) + 1)..Len(log') : log'[i].kind # "open"
  PROVE  /\ \A i \in 1..Len(log) : (Present(i)' <=> Present(i)) /\ (Original(i)' <=> Original(i))
         /\ Original(Len(log))' <=> Original(Len(log))
         /\ \A i \in (Len(log) + 1)..Len(log') : Original(i)' => Original(Len(log))
  <1>1. \A k \in 2..Len(log') : k \in 1..Len(log) \/ k \in (Len(log) + 1)..Len(log')
    BY LenProperties
  <1>2. \A i \in 1..Len(log) : Present(i)' <=> Present(i)
    BY <1>1, LenProperties DEF Present
  <1>3. \A i \in 1..Len(log) : Original(i)' <=> Original(i)
    BY <1>1, LenProperties DEF Original
  <1>4. Original(Len(log))' <=> Original(Len(log))
    BY <1>1, LenProperties DEF Original
  <1>5. \A i \in (Len(log) + 1)..Len(log') : Original(i)' => Original(Len(log))
    BY <1>1, LenProperties DEF Original
  <1> QED BY <1>2, <1>3, <1>4, <1>5

\* While the stream is open, entries other than a terminal event keep TerminalIsLast.
LEMMA TerminalStays ==
  ASSUME Inv, phase = "open", log' \in Seq(LogEntry), Len(log) <= Len(log'), ledger' = ledger,
         \A i \in 1..Len(log) : log'[i] = log[i],
         \A i \in (Len(log) + 1)..Len(log') : log'[i].kind \notin {"open", "terminal"}
  PROVE  TerminalIsLast'
  <1>1. log \in Seq(LogEntry)
    BY DEF Inv, TypeInv
  <1>2. \A i \in 1..Len(log) : Original(i)' <=> Original(i)
    BY <1>1, SameStream
  <1>3. \A i \in (Len(log) + 1)..Len(log') : Original(i)' => Original(Len(log))
    BY <1>1, SameStream
  <1>4. ASSUME NEW i \in DOMAIN log', Original(i)', log'[i].kind = "terminal"
        PROVE  /\ \A s \in DOMAIN ledger' :
                    Callback(s)' => \E j \in 1..(i - 1) : log'[j].seq = s
               /\ \A j \in (i + 1)..Len(log') : Original(j)' => j = i + 1 /\ log'[j].kind = "end"
    <2>1. i \in 1..Len(log)
      BY <1>1, <1>4, LenProperties
    <2>2. Original(i) /\ log[i].kind = "terminal" /\ i \in DOMAIN log
      BY <1>1, <1>2, <1>4, <2>1, LenProperties
    <2>3. ~Original(Len(log))
      <3> SUFFICES ASSUME Original(Len(log)) PROVE FALSE
        OBVIOUS
      <3>1. Present(i)
        BY <1>1, <2>1, LenProperties DEF Original, Present
      <3> QED BY <2>2, <3>1 DEF Inv, HashAndEntries
    <2>4. \A s \in DOMAIN ledger : Callback(s) => \E j \in 1..(i - 1) : log[j].seq = s
      BY <2>2 DEF Inv, TerminalIsLast
    <2>5. \A j \in (i + 1)..Len(log) : Original(j) => j = i + 1 /\ log[j].kind = "end"
      BY <2>2 DEF Inv, TerminalIsLast
    <2>6. \A s \in DOMAIN ledger' : Callback(s)' => \E j \in 1..(i - 1) : log'[j].seq = s
      BY <1>1, <2>1, <2>4, LenProperties DEF Callback
    <2>7. ASSUME NEW j \in (i + 1)..Len(log'), Original(j)'
          PROVE  j = i + 1 /\ log'[j].kind = "end"
      <3>1. j \in 1..Len(log)
        BY <1>1, <1>3, <2>1, <2>3, <2>7, LenProperties
      <3> QED BY <1>1, <1>2, <2>1, <2>5, <2>7, <3>1, LenProperties
    <2> QED BY <2>6, <2>7
  <1> QED BY <1>4 DEF TerminalIsLast

\* stream.open, for a run whose stream is not there.
LEMMA OpenKeeps ==
  ASSUME Inv, AppendOpen, UNCHANGED dbVars
  PROVE  StreamInv' /\ Carries
  <1>1. CASE UNCHANGED redisVars
    BY <1>1, StreamUntouched DEF dbVars, redisVars
  <1>2. CASE phase = "none" /\ XAdd(<<Entry("open", 0)>>) /\ phase' = "open"
             /\ UNCHANGED <<delivered, last_event, expiries>>
    <2>1. Entry("open", 0) \in LogEntry
      BY DEF Entry, LogEntry
    <2>2. log \in Seq(LogEntry)
      BY DEF Inv, TypeInv
    <2>3. /\ log' \in Seq(LogEntry) /\ Len(log') = Len(log) + 1
          /\ \A i \in 1..Len(log) : log'[i] = log[i]
          /\ log'[Len(log) + 1] = Entry("open", 0)
          /\ first' \in Nat \ {0} /\ first' <= Len(log')
      BY <1>2, <2>1, OneEntryMore
    <2>4. Len(log) \in Nat /\ DOMAIN log = 1..Len(log) /\ DOMAIN log' = 1..(Len(log) + 1)
      BY <2>2, <2>3, LenProperties
    <2>5. delivered = 0 /\ last_event = 0 /\ delivered' = 0 /\ last_event' = 0
      BY <1>2 DEF Inv, HashHasStream
    <2>6. ledger' = ledger /\ status' = status
      BY DEF dbVars
    <2>7. RedisType'
      BY <1>2, <2>3 DEF Inv, TypeInv, RedisType
    <2>8. EntriesCommitted'
      BY <2>3, <2>4, <2>6 DEF Inv, EntriesCommitted, Entry
    <2>9. HashHasStream'
      BY <1>2, <2>3, <2>4, <2>5 DEF HashHasStream, Exists
    <2>10. HashAndRows'
      BY <2>5 DEF HashAndRows
    <2>11. \A i \in DOMAIN log' : Present(i)' => i = Len(log) + 1
      BY <2>3, <2>4 DEF Present, Entry
    <2>12. HashAndEntries'
      BY <1>2, <2>3, <2>4, <2>11 DEF HashAndEntries, Entry
    <2>13. Original(Len(log))' => log = <<>>
      <3>1. log # <<>> => Len(log) + 1 \in 2..Len(log')
        BY <2>2, <2>3, <2>4, EmptySeq
      <3> QED BY <2>3, <3>1 DEF Original, Entry
    <2>14. FirstStreamComplete'
      BY <2>5, <2>6, LenProperties DEF FirstStreamComplete, Inv, TypeInv
    <2>15. TerminalIsLast'
      <3>1. \A i \in 1..Len(log) : Original(i)' <=> Original(i)
        BY <2>3, <2>4 DEF Original
      <3>2. \A j \in 2..Len(log') : Original(j)' => j # Len(log) + 1
        BY <2>3, <2>4 DEF Original, Entry
      <3>3. ASSUME NEW i \in DOMAIN log', Original(i)', log'[i].kind = "terminal"
            PROVE  /\ \A s \in DOMAIN ledger' :
                        Callback(s)' => \E j \in 1..(i - 1) : log'[j].seq = s
                   /\ \A j \in (i + 1)..Len(log') : Original(j)' => j = i + 1 /\ log'[j].kind = "end"
        <4>1. i \in 1..Len(log) /\ i \in DOMAIN log /\ Original(i) /\ log[i].kind = "terminal"
          BY <2>3, <2>4, <3>1, <3>3 DEF Entry
        <4>3. /\ \A s \in DOMAIN ledger : Callback(s) => \E j \in 1..(i - 1) : log[j].seq = s
              /\ \A j \in (i + 1)..Len(log) : Original(j) => j = i + 1 /\ log[j].kind = "end"
          BY <4>1 DEF Inv, TerminalIsLast
        <4>4. \A s \in DOMAIN ledger' : Callback(s)' => \E j \in 1..(i - 1) : log'[j].seq = s
          BY <2>3, <2>4, <2>6, <4>1, <4>3 DEF Callback
        <4>5. \A j \in (i + 1)..Len(log') : Original(j)' => j = i + 1 /\ log'[j].kind = "end"
          BY <2>3, <2>4, <3>1, <3>2, <4>1, <4>3
        <4> QED BY <4>4, <4>5
      <3> QED BY <3>3 DEF TerminalIsLast
    <2>16. Carries
      <3>1. log' # <<>>
        BY <2>3, <2>4, EmptySeq
      <3> QED BY <2>13, <3>1 DEF Carries
    <2> QED BY <2>7, <2>8, <2>9, <2>10, <2>12, <2>14, <2>15, <2>16 DEF StreamInv
  <1> QED BY <1>1, <1>2 DEF AppendOpen

\* A terminal event closes the stream behind every callback row.
LEMMA TerminalKeeps ==
  ASSUME Inv, NEW r \in DOMAIN ledger, ledger[r].kind = "terminal", AppendTerminal(r),
         UNCHANGED dbVars
  PROVE  StreamInv' /\ Carries
  <1>1. CASE UNCHANGED redisVars
    BY <1>1, StreamUntouched DEF dbVars, redisVars
  <1>2. CASE /\ phase = "open" /\ CallbacksDelivered(r)
             /\ XAdd(<<Entry("terminal", r)>>) /\ phase' = "terminal"
             /\ UNCHANGED <<delivered, last_event, expiries>>
    <2>0. ledger \in Seq(Row) /\ delivered \in Nat /\ log \in Seq(LogEntry)
      BY DEF Inv, TypeInv
    <2>1. r \in Nat /\ r \in 1..(Len(ledger) + 1) /\ Entry("terminal", r) \in LogEntry
      BY <2>0, LenProperties DEF Entry, LogEntry
    <2>2. /\ log' \in Seq(LogEntry) /\ Len(log') = Len(log) + 1 /\ Len(log) \in Nat
          /\ DOMAIN log = 1..Len(log) /\ DOMAIN log' = 1..(Len(log) + 1)
          /\ \A i \in 1..Len(log) : log'[i] = log[i]
          /\ log'[Len(log) + 1] = Entry("terminal", r)
          /\ first' \in Nat \ {0} /\ first' <= Len(log')
      BY <1>2, <2>1, OneEntryMore
    <2>3. \A i \in (Len(log) + 1)..Len(log') : i = Len(log) + 1 /\ log'[i].kind # "open"
      BY <2>2 DEF Entry
    <2>4. /\ \A i \in 1..Len(log) : (Present(i)' <=> Present(i)) /\ (Original(i)' <=> Original(i))
          /\ Original(Len(log))' <=> Original(Len(log))
          /\ \A i \in (Len(log) + 1)..Len(log') : Original(i)' => Original(Len(log))
      BY <2>0, <2>2, <2>3, SameStream
    <2>5. ledger' = ledger
      BY DEF dbVars
    <2>6. \A t \in DOMAIN ledger : Callback(t) => t <= delivered
      <3>1. r = Len(ledger)
        BY DEF Inv, RunEventsOnce
      <3>2. \A t \in 1..(r - 1) : Callback(t) => t <= delivered
        BY <1>2, <2>0, <2>1, CallbacksDeliveredMeans
      <3>3. ~Callback(r)
        BY DEF Callback
      <3> QED BY <2>0, <3>1, <3>2, <3>3, LenProperties
    <2>7. RedisType'
      BY <1>2, <2>2 DEF Inv, TypeInv, RedisType
    <2>8. EntriesCommitted'
      BY <2>2, <2>5 DEF Inv, EntriesCommitted, Entry
    <2>9. HashHasStream'
      BY <1>2, <2>2 DEF HashHasStream, Exists
    <2>10. HashAndRows'
      BY <1>2, <2>5 DEF Inv, HashAndRows, Callback
    <2>11. HashAndEntries'
      <3>1. \A i \in 1..Len(log) : Present(i)' =>
               /\ log'[i].kind = "callback" =>
                    \A s \in RowsOf(ledger[log'[i].seq].batch) : s <= delivered
               /\ log'[i].kind = "cancel" => log'[i].seq = last_event
        BY <1>2, <2>2, <2>4 DEF Inv, HashAndEntries
      <3> QED BY <1>2, <2>2, <2>5, <3>1 DEF HashAndEntries, RowsOf, Entry
    <2>12. FirstStreamComplete'
      BY <1>2, <2>2, <2>4, <2>5 DEF Inv, FirstStreamComplete, Callback
    <2>13. TerminalIsLast'
      <3>1. ASSUME NEW i \in 1..Len(log), Original(Len(log)), log[i].kind = "terminal"
            PROVE  FALSE
        <4>1. Present(i)
          BY <2>2, <3>1 DEF Original, Present
        <4> QED BY <1>2, <2>2, <3>1, <4>1 DEF Inv, HashAndEntries
      <3>2. ASSUME NEW i \in DOMAIN log', Original(i)', log'[i].kind = "terminal"
            PROVE  /\ \A s \in DOMAIN ledger' :
                        Callback(s)' => \E j \in 1..(i - 1) : log'[j].seq = s
                   /\ \A j \in (i + 1)..Len(log') : Original(j)' => j = i + 1 /\ log'[j].kind = "end"
        <4>1. CASE i = Len(log) + 1
          <5>1. Original(Len(log))
            BY <2>2, <2>4, <3>2, <4>1
          <5>2. \A s \in DOMAIN ledger : Callback(s) => \E j \in 1..Len(log) : log[j].seq = s
            BY <1>2, <2>2, <2>6, <5>1 DEF Inv, FirstStreamComplete
          <5>3. \A s \in DOMAIN ledger' : Callback(s)' => \E j \in 1..(i - 1) : log'[j].seq = s
            BY <2>2, <2>5, <4>1, <5>2 DEF Callback
          <5> QED BY <2>2, <4>1, <5>3
        <4>2. CASE i \in 1..Len(log)
          <5>1. Original(i) /\ log[i].kind = "terminal" /\ ~Original(Len(log))
            BY <2>2, <2>4, <3>1, <3>2, <4>2
          <5>2. /\ \A s \in DOMAIN ledger : Callback(s) => \E j \in 1..(i - 1) : log[j].seq = s
                /\ \A j \in (i + 1)..Len(log) : Original(j) => j = i + 1 /\ log[j].kind = "end"
            BY <2>2, <4>2, <5>1 DEF Inv, TerminalIsLast
          <5>3. \A s \in DOMAIN ledger' : Callback(s)' => \E j \in 1..(i - 1) : log'[j].seq = s
            BY <2>2, <2>5, <4>2, <5>2 DEF Callback
          <5>4. \A j \in (i + 1)..Len(log') : Original(j)' => j = i + 1 /\ log'[j].kind = "end"
            BY <2>2, <2>4, <4>2, <5>1, <5>2
          <5> QED BY <5>3, <5>4
        <4> QED BY <2>2, <4>1, <4>2
      <3> QED BY <3>2 DEF TerminalIsLast
    <2>14. Carries
      BY <1>2, <2>0, <2>2, <2>4, EmptySeq DEF Carries
    <2> QED BY <2>7, <2>8, <2>9, <2>10, <2>11, <2>12, <2>13, <2>14 DEF StreamInv
  <1> QED BY <1>1, <1>2 DEF AppendTerminal, TerminalAccepted

\* A cancel request is announced once, behind the callback rows before it.
LEMMA CancelKeeps ==
  ASSUME Inv, NEW r \in DOMAIN ledger, ledger[r].kind = "cancel", AppendCancel(r),
         UNCHANGED dbVars
  PROVE  StreamInv' /\ Carries /\ last_event' = r
  <1>1. CASE last_event = r /\ UNCHANGED redisVars
    BY <1>1, StreamUntouched DEF dbVars, redisVars
  <1>2. CASE /\ phase = "open" /\ CallbacksDelivered(r) /\ last_event # r
             /\ XAdd(<<Entry("cancel", r)>>) /\ last_event' = r
             /\ UNCHANGED <<phase, delivered, expiries>>
    <2>0. ledger \in Seq(Row) /\ delivered \in Nat /\ log \in Seq(LogEntry)
      BY DEF Inv, TypeInv
    <2>1. r \in Nat /\ r # 0 /\ r \in 1..(Len(ledger) + 1) /\ Entry("cancel", r) \in LogEntry
      BY <2>0, LenProperties DEF Entry, LogEntry
    <2>2. /\ log' \in Seq(LogEntry) /\ Len(log') = Len(log) + 1 /\ Len(log) \in Nat
          /\ DOMAIN log = 1..Len(log) /\ DOMAIN log' = 1..(Len(log) + 1)
          /\ \A i \in 1..Len(log) : log'[i] = log[i]
          /\ log'[Len(log) + 1] = Entry("cancel", r)
          /\ first' \in Nat \ {0} /\ first' <= Len(log')
      BY <1>2, <2>1, OneEntryMore
    <2>3. \A i \in (Len(log) + 1)..Len(log') : i = Len(log) + 1 /\ log'[i].kind # "open"
      BY <2>2 DEF Entry
    <2>4. /\ \A i \in 1..Len(log) : (Present(i)' <=> Present(i)) /\ (Original(i)' <=> Original(i))
          /\ Original(Len(log))' <=> Original(Len(log))
          /\ \A i \in (Len(log) + 1)..Len(log') : Original(i)' => Original(Len(log))
      BY <2>0, <2>2, <2>3, SameStream
    <2>5. ledger' = ledger
      BY DEF dbVars
    <2>6. \A t \in 1..(r - 1) : Callback(t) => t <= delivered
      BY <1>2, <2>0, <2>1, CallbacksDeliveredMeans
    <2>7. last_event = 0
      BY <1>2 DEF Inv, HashAndRows, RunEventsOnce, Callback
    <2>8. RedisType'
      BY <1>2, <2>1, <2>2 DEF Inv, TypeInv, RedisType
    <2>9. EntriesCommitted'
      BY <2>2, <2>5 DEF Inv, EntriesCommitted, Entry
    <2>10. HashHasStream'
      BY <1>2, <2>2 DEF HashHasStream, Exists
    <2>11. HashAndRows'
      BY <1>2, <2>1, <2>5, <2>6 DEF Inv, HashAndRows, Callback
    <2>12. HashAndEntries'
      <3>1. ASSUME NEW i \in 1..Len(log), Present(i)'
            PROVE  /\ log'[i].kind = "callback" =>
                        \A s \in RowsOf(ledger[log'[i].seq].batch) : s <= delivered
                   /\ log'[i].kind \notin {"cancel", "terminal", "end"}
        <4>1. Present(i) /\ log'[i] = log[i]
          BY <2>2, <2>4, <3>1
        <4>2. /\ log[i].kind = "callback" =>
                    \A s \in RowsOf(ledger[log[i].seq].batch) : s <= delivered
              /\ log[i].kind = "cancel" => log[i].seq = 0
              /\ log[i].kind \notin {"terminal", "end"}
          BY <1>2, <2>2, <2>7, <4>1 DEF Inv, HashAndEntries
        <4>3. log[i].kind = "cancel" => log[i].seq \in DOMAIN ledger
          BY <2>2 DEF Inv, EntriesCommitted
        <4>4. 0 \notin DOMAIN ledger
          BY <2>0, LenProperties
        <4> QED BY <4>1, <4>2, <4>3, <4>4
      <3> QED BY <1>2, <2>2, <2>5, <3>1 DEF HashAndEntries, RowsOf, Entry
    <2>13. FirstStreamComplete'
      <3>1. \A c \in DOMAIN ledger : ledger[c].kind = "cancel" => c = r
        BY DEF Inv, RunEventsOnce, Callback
      <3> QED BY <1>2, <2>2, <2>4, <2>5, <3>1 DEF Inv, FirstStreamComplete, Callback
    <2>14. TerminalIsLast'
      <3>1. \A i \in (Len(log) + 1)..Len(log') : log'[i].kind \notin {"open", "terminal"}
        BY <2>2, <2>3 DEF Entry
      <3>2. Len(log) <= Len(log')
        BY <2>2
      <3> QED BY <1>2, <2>2, <2>5, <3>1, <3>2, TerminalStays
    <2>15. Carries
      BY <1>2, <2>0, <2>2, <2>4, <2>7, EmptySeq DEF Carries
    <2> QED BY <1>2, <2>8, <2>9, <2>10, <2>11, <2>12, <2>13, <2>14, <2>15 DEF StreamInv
  <1> QED BY <1>1, <1>2 DEF AppendCancel, CancelAccepted

\* stream.end follows the terminal event directly.
LEMMA EndKeeps ==
  ASSUME Inv, AppendEnd, UNCHANGED dbVars
  PROVE  StreamInv' /\ Carries
  <1>1. CASE UNCHANGED redisVars
    BY <1>1, StreamUntouched DEF dbVars, redisVars
  <1>2. CASE /\ phase = "terminal" /\ XAdd(<<Entry("end", 0)>>) /\ phase' = "ended"
             /\ UNCHANGED <<delivered, last_event, expiries>>
    <2>0. log \in Seq(LogEntry)
      BY DEF Inv, TypeInv
    <2>1. Entry("end", 0) \in LogEntry
      BY DEF Entry, LogEntry
    <2>2. /\ log' \in Seq(LogEntry) /\ Len(log') = Len(log) + 1 /\ Len(log) \in Nat
          /\ DOMAIN log = 1..Len(log) /\ DOMAIN log' = 1..(Len(log) + 1)
          /\ \A i \in 1..Len(log) : log'[i] = log[i]
          /\ log'[Len(log) + 1] = Entry("end", 0)
          /\ first' \in Nat \ {0} /\ first' <= Len(log')
      BY <1>2, <2>1, OneEntryMore
    <2>3. \A i \in (Len(log) + 1)..Len(log') : i = Len(log) + 1 /\ log'[i].kind # "open"
      BY <2>2 DEF Entry
    <2>4. /\ \A i \in 1..Len(log) : (Present(i)' <=> Present(i)) /\ (Original(i)' <=> Original(i))
          /\ Original(Len(log))' <=> Original(Len(log))
          /\ \A i \in (Len(log) + 1)..Len(log') : Original(i)' => Original(Len(log))
      BY <2>0, <2>2, <2>3, SameStream
    <2>5. ledger' = ledger
      BY DEF dbVars
    <2>7. RedisType'
      BY <1>2, <2>2 DEF Inv, TypeInv, RedisType
    <2>8. EntriesCommitted'
      BY <2>2, <2>5 DEF Inv, EntriesCommitted, Entry
    <2>9. HashHasStream'
      BY <1>2, <2>2 DEF HashHasStream, Exists
    <2>10. HashAndRows'
      BY <1>2, <2>5 DEF Inv, HashAndRows, Callback
    <2>11. HashAndEntries'
      <3>1. \A i \in 1..Len(log) : Present(i)' =>
               /\ log'[i].kind = "callback" =>
                    \A s \in RowsOf(ledger[log'[i].seq].batch) : s <= delivered
               /\ log'[i].kind = "cancel" => log'[i].seq = last_event
        BY <1>2, <2>2, <2>4 DEF Inv, HashAndEntries
      <3> QED BY <1>2, <2>2, <2>5, <3>1 DEF HashAndEntries, RowsOf, Entry
    <2>12. FirstStreamComplete'
      BY <1>2, <2>2, <2>4, <2>5 DEF Inv, FirstStreamComplete, Callback
    <2>13. TerminalIsLast'
      <3>1. ASSUME NEW i \in DOMAIN log', Original(i)', log'[i].kind = "terminal"
            PROVE  /\ \A s \in DOMAIN ledger' :
                        Callback(s)' => \E j \in 1..(i - 1) : log'[j].seq = s
                   /\ \A j \in (i + 1)..Len(log') : Original(j)' => j = i + 1 /\ log'[j].kind = "end"
        <4>1. i \in 1..Len(log) /\ Original(i) /\ log[i].kind = "terminal"
          BY <2>2, <2>4, <3>1 DEF Entry
        <4>2. /\ \A s \in DOMAIN ledger : Callback(s) => \E j \in 1..(i - 1) : log[j].seq = s
              /\ \A j \in (i + 1)..Len(log) : Original(j) => j = i + 1 /\ log[j].kind = "end"
          BY <2>2, <4>1 DEF Inv, TerminalIsLast
        <4>3. \A s \in DOMAIN ledger' : Callback(s)' => \E j \in 1..(i - 1) : log'[j].seq = s
          BY <2>2, <2>5, <4>1, <4>2 DEF Callback
        <4>4. Original(Len(log)) => i = Len(log)
          <5>1. log[Len(log)].kind = "terminal"
            BY <1>2 DEF Inv, HashAndEntries
          <5> QED BY <2>2, <4>1, <4>2, <5>1
        <4>5. \A j \in (i + 1)..Len(log') : Original(j)' => j = i + 1 /\ log'[j].kind = "end"
          BY <2>2, <2>4, <4>1, <4>2, <4>4 DEF Entry
        <4> QED BY <4>3, <4>5
      <3> QED BY <3>1 DEF TerminalIsLast
    <2>14. Carries
      BY <1>2, <2>0, <2>2, <2>4, EmptySeq DEF Carries, Inv, TypeInv
    <2> QED BY <2>7, <2>8, <2>9, <2>10, <2>11, <2>12, <2>13, <2>14 DEF StreamInv
  <1> QED BY <1>1, <1>2 DEF AppendEnd

\* The rows of a batch follow the callback rows and the run event before them.
LEMMA BatchKeeps ==
  ASSUME Inv, NEW h \in Handler, handler[h].pc = "batch", AppendBatch(handler[h].batch),
         UNCHANGED dbVars
  PROVE  /\ StreamInv' /\ Carries
         /\ \A s \in RowsOf(handler[h].batch) : s <= delivered'
  <1> DEFINE b == handler[h].batch
             lo == Min(RowsOf(b))
             hi == Max(RowsOf(b))
  <1>a. ledger \in Seq(Row) /\ delivered \in Nat /\ log \in Seq(LogEntry) /\ BatchRows \in Nat \ {0}
    BY PublicationAssumption DEF Inv, TypeInv
  <1>b. b \in 1..Batches /\ RowsOf(b) # {} /\ b <= acked + 1 /\ acked \in Nat
    BY DEF Inv, TypeInv, Request, RequestsHoldRows
  <1>c. RowsOf(b) = lo..hi /\ lo \in DOMAIN ledger /\ hi \in DOMAIN ledger /\ hi = lo + BatchRows - 1
    BY <1>a, <1>b, BatchInterval DEF Inv
  <1>d. lo \in Nat /\ hi \in Nat /\ lo >= 1 /\ lo <= hi
    BY <1>a, <1>c, LenProperties
  <1> HIDE DEF b, lo, hi
  <1>1. CASE BatchDelivered(b) /\ UNCHANGED redisVars
    <2>1. StreamInv' /\ Carries
      BY <1>1, StreamUntouched DEF dbVars, redisVars
    <2>2. delivered' >= hi
      BY <1>1 DEF BatchDelivered, redisVars, hi
    <2>3. \A s \in RowsOf(b) : s <= delivered'
      BY <1>1, <1>a, <1>c, <1>d, <2>2 DEF redisVars
    <2> QED BY <2>1, <2>3 DEF b
  <1>2. CASE /\ phase = "open" /\ ~BatchDelivered(b)
             /\ XAdd([i \in 1..BatchRows |-> Entry("callback", Min(RowsOf(b)) + i - 1)])
             /\ delivered' = Max(RowsOf(b)) /\ UNCHANGED <<phase, last_event, expiries>>
    <2> DEFINE es == [i \in 1..BatchRows |-> Entry("callback", lo + i - 1)]
    <2>1. /\ es \in Seq(LogEntry) /\ Len(es) = BatchRows /\ es # <<>>
          /\ \A i \in 1..BatchRows : es[i] = Entry("callback", lo + i - 1)
      <3>1. \A i \in 1..BatchRows : Entry("callback", lo + i - 1) \in LogEntry
        BY <1>a, <1>d DEF Entry, LogEntry
      <3>2. es \in Seq(LogEntry) /\ Len(es) = BatchRows
        BY <1>a, <3>1
      <3> QED BY <1>a, <3>2
    <2>2. XAdd(es)
      BY <1>2 DEF lo
    <2>3. first \in Nat \ {0} /\ first <= Len(log) + 1
      BY DEF Inv, TypeInv, HashHasStream
    <2> HIDE DEF es
    <2>4. /\ log' \in Seq(LogEntry) /\ Len(log') = Len(log) + Len(es) /\ Len(es) > 0
          /\ \A i \in 1..Len(log) : log'[i] = log[i]
          /\ \A i \in (Len(log) + 1)..Len(log') : log'[i] = es[i - Len(log)]
          /\ first' \in Nat \ {0} /\ first' <= Len(log')
      BY <1>a, <2>1, <2>2, <2>3, LogGrows
    <2>5. /\ Len(log) \in Nat /\ Len(log') = Len(log) + BatchRows /\ Len(log) <= Len(log')
          /\ DOMAIN log = 1..Len(log) /\ DOMAIN log' = 1..Len(log')
      BY <1>a, <2>1, <2>4, LenProperties
    <2>6. \A i \in (Len(log) + 1)..Len(log') :
            /\ log'[i] = Entry("callback", lo + i - Len(log) - 1)
            /\ log'[i].kind = "callback" /\ log'[i].seq \in RowsOf(b)
      <3>1. ASSUME NEW i \in (Len(log) + 1)..Len(log')
            PROVE  /\ log'[i] = Entry("callback", lo + i - Len(log) - 1)
                   /\ log'[i].kind = "callback" /\ log'[i].seq \in RowsOf(b)
        <4>1. i - Len(log) \in 1..BatchRows
          BY <2>5, <1>a
        <4>2. log'[i] = Entry("callback", lo + (i - Len(log)) - 1)
          BY <2>1, <2>4, <4>1
        <4>3. lo + (i - Len(log)) - 1 \in lo..hi
          BY <1>a, <1>c, <1>d, <4>1
        <4>4. lo + (i - Len(log)) - 1 = lo + i - Len(log) - 1
          BY <1>d, <2>5
        <4> QED BY <1>c, <4>2, <4>3, <4>4 DEF Entry
      <3> QED BY <3>1
    <2>7. /\ \A i \in 1..Len(log) : (Present(i)' <=> Present(i)) /\ (Original(i)' <=> Original(i))
          /\ Original(Len(log))' <=> Original(Len(log))
      <3>1. \A i \in (Len(log) + 1)..Len(log') : log'[i].kind # "open"
        BY <2>6
      <3> QED BY <1>a, <2>4, <2>5, <3>1, SameStream
    <2>8. ledger' = ledger /\ delivered' = hi /\ delivered < hi
      BY <1>2, <1>a, <1>d DEF dbVars, hi, BatchDelivered
    <2>9. \A s \in RowsOf(b) : s \in DOMAIN ledger /\ Callback(s) /\ ledger[s].batch = b
      BY <1>b DEF RowsOf, Inv, RunEventsOnce
    <2>10. RedisType'
      BY <1>2, <1>d, <2>4, <2>8 DEF Inv, TypeInv, RedisType
    <2>11. EntriesCommitted'
      <3>1. \A i \in (Len(log) + 1)..Len(log') : ledger[log'[i].seq].kind = log'[i].kind
        BY <2>6, <2>9 DEF Callback
      <3>2. \A i \in 1..Len(log) :
              IF log'[i].kind \in {"open", "end"} THEN log'[i].seq = 0
              ELSE log'[i].seq \in DOMAIN ledger /\ ledger[log'[i].seq].kind = log'[i].kind
        BY <2>4, <2>5 DEF Inv, EntriesCommitted
      <3> QED BY <2>5, <2>6, <2>8, <2>9, <3>1, <3>2 DEF EntriesCommitted
    <2>12. HashHasStream'
      BY <1>2, <2>4, <2>5 DEF HashHasStream, Exists
    <2>13. HashAndRows'
      <3>1. delivered' \in DOMAIN ledger /\ Callback(delivered')
        BY <1>c, <1>d, <2>8, <2>9
      <3>2. \A s \in Nat : s <= delivered => s <= delivered'
        BY <1>a, <1>d, <2>8
      <3>3. last_event \in Nat
        BY DEF Inv, TypeInv
      <3> QED BY <1>2, <2>8, <3>1, <3>2, <3>3 DEF Inv, HashAndRows, Callback
    <2>14. HashAndEntries'
      <3>1. \A i \in 1..Len(log) : Present(i)' =>
               /\ log'[i].kind = "callback" =>
                    \A s \in RowsOf(ledger[log'[i].seq].batch) : s <= delivered
               /\ log'[i].kind = "cancel" => log'[i].seq = last_event
               /\ log'[i].kind \notin {"terminal", "end"}
        BY <1>2, <2>4, <2>5, <2>7 DEF Inv, HashAndEntries
      <3>2. \A B : \A s \in RowsOf(B) : s \in Nat
        BY <1>a, LenProperties DEF RowsOf
      <3>3. \A B : (\A s \in RowsOf(B) : s <= delivered) => (\A s \in RowsOf(B) : s <= delivered')
        BY <1>a, <1>d, <2>8, <3>2
      <3>4. \A i \in (Len(log) + 1)..Len(log') :
              \A s \in RowsOf(ledger[log'[i].seq].batch) : s <= delivered'
        BY <1>c, <1>d, <2>6, <2>8, <2>9
      <3>5. RowsOf(ledger[1].batch)' = RowsOf(ledger[1].batch) /\ \A B : RowsOf(B)' = RowsOf(B)
        BY <2>8 DEF RowsOf
      <3> QED BY <1>2, <2>5, <2>6, <2>8, <3>1, <3>3, <3>4, <3>5 DEF HashAndEntries
    <2>15. FirstStreamComplete'
      <3> SUFFICES ASSUME Original(Len(log))' PROVE
              /\ \A s \in DOMAIN ledger' : Callback(s)' /\ s <= delivered' =>
                     \E i \in DOMAIN log' : log'[i].seq = s
              /\ \A c \in DOMAIN ledger' : ledger'[c].kind = "cancel" /\ c < delivered' =>
                     last_event' = c
        BY DEF FirstStreamComplete
      <3>1. phase # "none" /\ Original(Len(log))
        BY <1>2, <2>7
      <3>2. ASSUME NEW s \in DOMAIN ledger, Callback(s), s <= hi
            PROVE  \E i \in DOMAIN log' : log'[i].seq = s
        <4>0. s \in Nat
          BY <1>a, LenProperties
        <4>1. CASE s <= delivered
          <5>1. PICK i \in DOMAIN log : log[i].seq = s
            BY <3>1, <3>2, <4>1 DEF Inv, FirstStreamComplete
          <5> QED BY <2>4, <2>5, <5>1
        <4>2. CASE s >= lo
          <5>1. s - lo + Len(log) + 1 \in (Len(log) + 1)..Len(log')
            BY <1>a, <1>c, <1>d, <2>5, <3>2, <4>0, <4>2
          <5>2. log'[s - lo + Len(log) + 1] = Entry("callback", lo + (s - lo + Len(log) + 1) - Len(log) - 1)
            BY <2>6, <5>1
          <5>3. lo + (s - lo + Len(log) + 1) - Len(log) - 1 = s
            BY <1>d, <2>5, <4>0
          <5> QED BY <2>5, <5>1, <5>2, <5>3 DEF Entry
        <4>3. CASE s < lo
          <5>1. ledger[s].batch <= b
            BY <1>c, <1>d, <2>9, <3>2, <4>3 DEF Inv, BatchesWhole
          <5>2. ledger[s].batch # b
            BY <1>c, <1>d, <3>2, <4>0, <4>3 DEF RowsOf
          <5>3. ledger[s].batch \in Nat
            <6>1. ledger[s] \in Row
              BY ONLY <1>a, s \in DOMAIN ledger
            <6> QED BY <6>1, PublicationAssumption DEF Row
          <5>4. ledger[s].batch <= acked
            BY <1>b, <5>1, <5>2, <5>3
          <5>5. s <= delivered
            BY <3>1, <3>2, <5>4 DEF Inv, RequestsInOrder
          <5> QED BY <4>1, <5>5
        <4> QED BY <1>d, <4>0, <4>2, <4>3
      <3>3. ASSUME NEW c \in DOMAIN ledger, ledger[c].kind = "cancel", c < hi
            PROVE  last_event = c
        <4>1. c \notin RowsOf(b)
          BY <2>9, <3>3 DEF Callback
        <4>2. c \in Nat /\ c < lo
          BY <1>a, <1>c, <1>d, <3>3, <4>1, LenProperties
        <4>3. lo \in RowsOf(handler[h].batch)
          BY <1>c, <1>d DEF b
        <4> QED BY <3>1, <3>3, <4>2, <4>3 DEF Inv, RequestsInOrder
      <3> QED BY <1>2, <2>8, <3>2, <3>3 DEF Callback
    <2>16. TerminalIsLast'
      <3>1. \A i \in (Len(log) + 1)..Len(log') : log'[i].kind \notin {"open", "terminal"}
        BY <2>6
      <3> QED BY <1>2, <2>4, <2>5, <2>8, <3>1, TerminalStays
    <2>17. Carries
      <3>1. log' # <<>>
        BY <1>a, <2>4, <2>5, EmptySeq
      <3> QED BY <1>2, <1>a, <1>d, <2>7, <2>8, <3>1 DEF Carries
    <2>18. \A s \in RowsOf(b) : s <= delivered'
      BY <1>c, <1>d, <2>8
    <2> QED BY <2>10, <2>11, <2>12, <2>13, <2>14, <2>15, <2>16, <2>17, <2>18 DEF StreamInv, b
  <1> QED BY <1>1, <1>2 DEF AppendBatch, BatchAccepted, b

\* PEXPIRE removes the stream with its hash.
LEMMA ExpireKeeps ==
  ASSUME Inv, Expire
  PROVE  StreamInv' /\ Carries
  <1>1. /\ log' = log /\ first' = Len(log) + 1 /\ phase' = "none" /\ delivered' = 0 /\ last_event' = 0
        /\ expiries' = expiries + 1 /\ UNCHANGED dbVars /\ ledger' = ledger
    BY DEF Expire, dbVars
  <1>2. log \in Seq(LogEntry) /\ Len(log) \in Nat /\ expiries \in Nat
    BY LenProperties DEF Inv, TypeInv
  <1>3. RedisType' /\ HashHasStream'
    BY <1>1, <1>2 DEF RedisType, HashHasStream, Exists
  <1>4. EntriesCommitted' /\ TerminalIsLast'
    BY <1>1 DEF Inv, EntriesCommitted, TerminalIsLast, Original, Callback
  <1>5. HashAndRows' /\ HashAndEntries' /\ FirstStreamComplete' /\ Carries
    BY <1>1 DEF HashAndRows, HashAndEntries, FirstStreamComplete, Carries
  <1> QED BY <1>3, <1>4, <1>5 DEF StreamInv

-----------------------------------------------------------------------------
(* What a step on one side leaves true of the other.                        *)

\* What the first stream gained serves the requests that are still in flight.
LEMMA RequestsKept ==
  ASSUME Inv, ledger' = ledger, Carries,
         \A s \in DOMAIN ledger : Callback(s) /\ ledger[s].batch <= acked' =>
            ledger[s].batch <= acked \/ s <= delivered',
         \A g \in Handler : handler'[g].pc = "batch" =>
            \/ handler[g].pc = "batch" /\ handler'[g].batch = handler[g].batch
            \/ \A c \in DOMAIN ledger, s \in RowsOf(handler'[g].batch) :
                  ledger[c].kind = "cancel" /\ c < s => last_event' = c,
         delivered' \in Nat
  PROVE  RequestsInOrder'
  <1> SUFFICES ASSUME phase' # "none", Original(Len(log))'
               PROVE  /\ \A s \in DOMAIN ledger : Callback(s) /\ ledger[s].batch <= acked' => s <= delivered'
                      /\ \A h \in Handler : handler'[h].pc = "batch" =>
                           \A c \in DOMAIN ledger, s \in RowsOf(handler'[h].batch) :
                             ledger[c].kind = "cancel" /\ c < s => last_event' = c
    <2>1. \A b : RowsOf(b)' = RowsOf(b)
      BY DEF RowsOf
    <2> QED BY <2>1 DEF RequestsInOrder, Callback, RowsOf
  <1>0. ledger \in Seq(Row) /\ delivered \in Nat /\ DOMAIN ledger = 1..Len(ledger) /\ Len(ledger) \in Nat
    BY LenProperties DEF Inv, TypeInv
  <1>1. CASE log = <<>>
    <2>1. \A s \in DOMAIN ledger : ~Callback(s)
      BY <1>1 DEF Inv, StreamFirst
    <2>2. \A h \in Handler : handler[h].pc = "idle"
      BY <1>1 DEF Inv, StreamFirst
    <2> QED BY <2>1, <2>2
  <1>2. CASE /\ phase # "none" /\ Original(Len(log)) /\ delivered <= delivered'
             /\ last_event # 0 => last_event' = last_event
    <2>1. ASSUME NEW s \in DOMAIN ledger, Callback(s), ledger[s].batch <= acked
          PROVE  s <= delivered'
      <3>1. s <= delivered
        BY <1>2, <2>1 DEF Inv, RequestsInOrder
      <3> QED BY <1>0, <1>2, <3>1
    <2>2. ASSUME NEW h \in Handler, handler[h].pc = "batch",
                 NEW c \in DOMAIN ledger, NEW s \in RowsOf(handler[h].batch),
                 ledger[c].kind = "cancel", c < s
          PROVE  last_event' = c
      <3>1. last_event = c
        BY <1>2, <2>2 DEF Inv, RequestsInOrder
      <3> QED BY <1>0, <1>2, <3>1
    <2> QED BY <2>1, <2>2
  <1> QED BY <1>1, <1>2 DEF Carries

\* A run event's row joins the ledger: the batches and the stream do not change.
LEMMA RunEventRow ==
  ASSUME Inv, NEW k \in {"cancel", "terminal"}, ledger' = Append(ledger, [kind |-> k, batch |-> 0]),
         UNCHANGED redisVars, acked' = acked, handler' = handler
  PROVE  /\ ledger' \in Seq(Row) /\ Len(ledger') = Len(ledger) + 1 /\ Len(ledger) \in Nat
         /\ DOMAIN ledger = 1..Len(ledger) /\ DOMAIN ledger' = 1..(Len(ledger) + 1)
         /\ \A s \in DOMAIN ledger : ledger'[s] = ledger[s]
         /\ ledger'[Len(ledger) + 1] = [kind |-> k, batch |-> 0]
         /\ BatchesWhole' /\ RowsCounted' /\ StreamInv' /\ RequestsInOrder' /\ RequestsHoldRows'
  <1> DEFINE r == [kind |-> k, batch |-> 0]
  <1>0. ledger \in Seq(Row) /\ r \in Row
    BY PublicationAssumption DEF Inv, TypeInv, Row
  <1>1. /\ ledger' \in Seq(Row) /\ Len(ledger') = Len(ledger) + 1 /\ Len(ledger) \in Nat
        /\ DOMAIN ledger = 1..Len(ledger) /\ DOMAIN ledger' = 1..(Len(ledger) + 1)
        /\ \A s \in DOMAIN ledger : ledger'[s] = ledger[s]
        /\ ledger'[Len(ledger) + 1] = r
    BY <1>0, AppendProperties, LenProperties
  <1>2. \A s \in DOMAIN ledger : Callback(s)' <=> Callback(s)
    BY <1>1 DEF Callback
  <1>3. \A s \in DOMAIN ledger' : s \notin DOMAIN ledger => s = Len(ledger) + 1 /\ ~Callback(s)'
    BY <1>1 DEF Callback
  <1>4. \A b : b # 0 => RowsOf(b)' = RowsOf(b)
    BY <1>1 DEF RowsOf
  <1>5. CallbackRows' = CallbackRows
    BY <1>1, <1>2, <1>3 DEF CallbackRows
  <1>6. acked \in Nat /\ Batches \in Nat
    BY PublicationAssumption DEF Inv, TypeInv
  <1>7. BatchesWhole'
    <2>1. \A b \in 1..Batches : RowsOf(b)' # {} =>
            b <= acked' + 1 /\ \E m \in DOMAIN ledger' : RowsOf(b)' = m..(m + BatchRows - 1)
      BY <1>1, <1>4, <1>6 DEF Inv, BatchesWhole
    <2>2. \A b \in 1..acked' : RowsOf(b)' # {}
      BY <1>4, <1>6 DEF Inv, BatchesWhole
    <2>3. \A s, t \in DOMAIN ledger' :
            Callback(s)' /\ Callback(t)' /\ s < t => ledger'[s].batch <= ledger'[t].batch
      BY <1>1, <1>2, <1>3 DEF Inv, BatchesWhole
    <2> QED BY <2>1, <2>2, <2>3 DEF BatchesWhole
  <1>8. RowsCounted'
    BY <1>4, <1>5, <1>6 DEF Inv, RowsCounted, BatchesBegun
  <1>9. \A i : Present(i)' <=> Present(i)
    BY DEF Present, redisVars
  <1>10. \A i : Original(i)' <=> Original(i)
    BY DEF Original, redisVars
  <1>11. Original(Len(log))' <=> Original(Len(log))
    BY DEF Original, redisVars
  <1>12. \A s \in DOMAIN ledger : Callback(s) => ledger[s].batch # 0
    BY DEF Inv, RunEventsOnce
  <1>13. StreamInv'
    <2>1. RedisType' /\ HashHasStream'
      BY DEF Inv, TypeInv, RedisType, HashHasStream, Exists, redisVars
    <2>2. EntriesCommitted'
      BY <1>1 DEF Inv, EntriesCommitted, redisVars
    <2>3. HashAndRows'
      <3>1. last_event \in DOMAIN ledger => 1..(last_event - 1) \subseteq DOMAIN ledger
        BY <1>1
      <3> QED BY <1>1, <1>2, <3>1 DEF Inv, HashAndRows, redisVars
    <2>4. HashAndEntries'
      <3>1. \A i \in DOMAIN log : log[i].kind = "callback" =>
              RowsOf(ledger[log[i].seq].batch)' = RowsOf(ledger[log[i].seq].batch)
        <4>1. \A i \in DOMAIN log : log[i].kind = "callback" =>
                log[i].seq \in DOMAIN ledger /\ Callback(log[i].seq)
          BY DEF Inv, EntriesCommitted, Callback
        <4> QED BY <1>1, <1>4, <1>12, <4>1 DEF redisVars, RowsOf
      <3> QED BY <1>9, <3>1 DEF Inv, HashAndEntries, redisVars
    <2>5. FirstStreamComplete'
      <3>1. delivered \in Nat /\ delivered <= Len(ledger)
        BY <1>1 DEF Inv, TypeInv, HashAndRows
      <3>2. phase' # "none" /\ Original(Len(log))' =>
              /\ \A s \in DOMAIN ledger' : Callback(s)' /\ s <= delivered => \E i \in DOMAIN log : log[i].seq = s
              /\ \A c \in DOMAIN ledger' : ledger'[c].kind = "cancel" /\ c < delivered => last_event = c
        BY <1>1, <1>2, <1>3, <1>11, <3>1 DEF Inv, FirstStreamComplete, redisVars
      <3> QED BY <3>2 DEF FirstStreamComplete, redisVars
    <2>6. TerminalIsLast'
      BY <1>1, <1>2, <1>3, <1>10 DEF Inv, TerminalIsLast, redisVars
    <2> QED BY <2>1, <2>2, <2>3, <2>4, <2>5, <2>6 DEF StreamInv
  <1>14. \A h \in Handler : handler[h].pc # "idle" =>
            /\ handler[h].batch # 0 /\ RowsOf(handler[h].batch)' = RowsOf(handler[h].batch)
            /\ RowsOf(handler[h].batch) \subseteq 1..Len(ledger)
    BY <1>1, <1>4, <1>6 DEF Inv, RequestsHoldRows, RowsOf
  <1>15. RequestsInOrder'
    <2>1. phase # "none" /\ Original(Len(log)) =>
            \A s \in DOMAIN ledger' : Callback(s)' /\ ledger'[s].batch <= acked => s <= delivered
      BY <1>1, <1>2, <1>3 DEF Inv, RequestsInOrder
    <2>2. ASSUME phase # "none", Original(Len(log)), NEW h \in Handler, handler[h].pc = "batch",
                 NEW c \in DOMAIN ledger', NEW s \in RowsOf(handler[h].batch),
                 ledger'[c].kind = "cancel", c < s
          PROVE  last_event = c
      <3>1. c \in DOMAIN ledger /\ ledger[c].kind = "cancel"
        BY <1>1, <1>14, <2>2
      <3> QED BY <2>2, <3>1 DEF Inv, RequestsInOrder
    <2> QED BY <1>11, <1>14, <2>1, <2>2 DEF RequestsInOrder, redisVars, RowsOf
  <1>16. RequestsHoldRows'
    BY <1>1, <1>14 DEF Inv, RequestsHoldRows, RowsOf
  <1> QED BY <1>1, <1>7, <1>8, <1>13, <1>15, <1>16

\* A new batch joins the ledger while the run is running: its rows are not delivered yet.
LEMMA FreshBatch ==
  ASSUME Inv, acked + 1 <= Batches, RowsOf(acked + 1) = {}, status = "running",
         ledger' = ledger \o [i \in 1..BatchRows |-> [kind |-> "callback", batch |-> acked + 1]],
         UNCHANGED redisVars, UNCHANGED <<status, authority, acked>>
  PROVE  /\ ledger' \in Seq(Row) /\ Len(ledger') = Len(ledger) + BatchRows /\ Len(ledger) \in Nat
         /\ DOMAIN ledger = 1..Len(ledger) /\ DOMAIN ledger' = 1..Len(ledger')
         /\ \A s \in DOMAIN ledger : ledger'[s] = ledger[s]
         /\ \A s \in (Len(ledger) + 1)..Len(ledger') :
              ledger'[s] = [kind |-> "callback", batch |-> acked + 1]
         /\ RowsOf(acked + 1)' = (Len(ledger) + 1)..Len(ledger')
         /\ \A b : b # acked + 1 => RowsOf(b)' = RowsOf(b)
         /\ RunEventsOnce' /\ RowsFollowRun' /\ BatchesWhole' /\ RowsCounted' /\ StreamInv'
  <1> DEFINE n == acked + 1
             r == [kind |-> "callback", batch |-> n]
             rs == [i \in 1..BatchRows |-> r]
  <1>0. /\ ledger \in Seq(Row) /\ acked \in Nat /\ n \in Nat /\ n # 0 /\ n \in 1..Batches
        /\ BatchRows \in Nat \ {0} /\ Batches \in Nat
    BY PublicationAssumption DEF Inv, TypeInv
  <1>a. r \in Row
    BY <1>0 DEF Row
  <1>b. rs \in Seq(Row) /\ Len(rs) = BatchRows /\ \A i \in 1..BatchRows : rs[i] = r
    BY <1>0, <1>a
  <1>c. ledger' = ledger \o rs /\ acked' = acked /\ status' = status /\ authority' = authority
    OBVIOUS
  <1> HIDE DEF r, rs
  <1>1. /\ ledger' \in Seq(Row) /\ Len(ledger') = Len(ledger) + BatchRows /\ Len(ledger) \in Nat
        /\ DOMAIN ledger = 1..Len(ledger) /\ DOMAIN ledger' = 1..Len(ledger')
        /\ \A s \in DOMAIN ledger : ledger'[s] = ledger[s]
        /\ \A s \in (Len(ledger) + 1)..Len(ledger') : ledger'[s] = r
    <2>1. Len(ledger) \in Nat /\ DOMAIN ledger = 1..Len(ledger)
      BY <1>0, LenProperties
    <2>2. ledger' \in Seq(Row) /\ Len(ledger') = Len(ledger) + BatchRows
      BY <1>0, <1>b, <1>c, ConcatProperties
    <2>3. \A s \in 1..Len(ledger) : ledger'[s] = ledger[s]
      BY <1>0, <1>b, <1>c, <2>1, ConcatProperties
    <2>4. \A s \in (Len(ledger) + 1)..Len(ledger') : ledger'[s] = rs[s - Len(ledger)]
      BY <1>0, <1>b, <1>c, <2>1, <2>2, ConcatProperties
    <2>5. \A s \in (Len(ledger) + 1)..Len(ledger') : s - Len(ledger) \in 1..BatchRows
      BY <1>0, <2>1, <2>2
    <2> QED BY <1>b, <2>1, <2>2, <2>3, <2>4, <2>5, LenProperties
  <1>2. \A s \in DOMAIN ledger : Callback(s)' <=> Callback(s)
    BY <1>1 DEF Callback
  <1>3. \A s \in DOMAIN ledger' : s \in DOMAIN ledger \/ s \in (Len(ledger) + 1)..Len(ledger')
    BY <1>0, <1>1
  <1>4. \A s \in (Len(ledger) + 1)..Len(ledger') :
          s \in DOMAIN ledger' /\ Callback(s)' /\ ledger'[s].kind = "callback" /\ ledger'[s].batch = n
    BY <1>0, <1>1 DEF Callback, r
  <1>5. \A s \in DOMAIN ledger : ledger[s].batch # n
    BY DEF RowsOf
  <1>6. \A b : RowsOf(b)' = {s \in DOMAIN ledger' : ledger'[s].batch = b}
    BY DEF RowsOf
  <1>d. DOMAIN ledger \subseteq DOMAIN ledger' /\ Len(ledger) + 1 \in (Len(ledger) + 1)..Len(ledger')
    BY <1>0, <1>1
  <1>e. \A b : b = n => RowsOf(b)' = (Len(ledger) + 1)..Len(ledger')
    BY <1>1, <1>3, <1>4, <1>5, <1>6
  <1>7. RowsOf(acked + 1)' = (Len(ledger) + 1)..Len(ledger')
    BY <1>c, <1>e DEF RowsOf
  <1>8. \A b : b # n => RowsOf(b)' = RowsOf(b)
    <2>1. ASSUME NEW b, b # n
          PROVE  RowsOf(b)' = RowsOf(b)
      <3>1. \A s \in RowsOf(b)' : s \in RowsOf(b)
        BY <1>1, <1>3, <1>4, <1>6, <2>1 DEF RowsOf
      <3>2. \A s \in RowsOf(b) : s \in RowsOf(b)'
        BY <1>1, <1>6, <1>d DEF RowsOf
      <3> QED BY <3>1, <3>2
    <2> QED BY <2>1
  <1>9. RunEventsOnce'
    <2>1. \A s \in DOMAIN ledger : ledger[s].kind # "terminal"
      BY DEF Inv, RunEventsOnce, Terminal
    <2>2. \A s \in DOMAIN ledger' : Callback(s)' <=> ledger'[s].batch # 0
      BY <1>0, <1>1, <1>2, <1>3, <1>4 DEF Inv, RunEventsOnce
    <2>3. \A s, t \in DOMAIN ledger' : ledger'[s].kind = ledger'[t].kind /\ ~Callback(s)' => s = t
      <3>1. \A s \in DOMAIN ledger' : ledger'[s].kind # "callback" => s \in DOMAIN ledger /\ ledger'[s] = ledger[s]
        BY <1>1, <1>3, <1>4
      <3>2. \A s, t \in DOMAIN ledger : ledger[s].kind = ledger[t].kind /\ ledger[s].kind # "callback" => s = t
        BY DEF Inv, RunEventsOnce, Callback
      <3> QED BY <3>1, <3>2 DEF Callback
    <2>4. \A s \in DOMAIN ledger' : ledger'[s].kind # "terminal"
      BY <1>1, <1>3, <1>4, <2>1
    <2> QED BY <2>2, <2>3, <2>4 DEF RunEventsOnce
  <1>10. RowsFollowRun'
    <2>1. \A s \in DOMAIN ledger' : ledger'[s].kind = "cancel" => authority' # "none"
      BY <1>1, <1>3, <1>4, <1>c DEF Inv, RowsFollowRun
    <2> QED BY <1>c, <2>1 DEF RowsFollowRun, Terminal
  <1>11. BatchesWhole'
    <2>1. ASSUME NEW b \in 1..Batches, RowsOf(b)' # {}
          PROVE  b <= acked' + 1 /\ \E m \in DOMAIN ledger' : RowsOf(b)' = m..(m + BatchRows - 1)
      <3>1. CASE b = n
        <4>1. RowsOf(b)' = (Len(ledger) + 1)..((Len(ledger) + 1) + BatchRows - 1)
          <5>1. Len(ledger') = (Len(ledger) + 1) + BatchRows - 1
            BY <1>0, <1>1
          <5> QED BY <1>e, <3>1, <5>1
        <4>2. Len(ledger) + 1 \in DOMAIN ledger'
          BY <1>0, <1>1
        <4> QED BY <1>0, <1>c, <3>1, <4>1, <4>2
      <3>2. CASE b # n
        <4>1. RowsOf(b)' = RowsOf(b)
          BY <1>8, <3>2
        <4>2. b <= acked + 1 /\ \E m \in DOMAIN ledger : RowsOf(b) = m..(m + BatchRows - 1)
          BY <2>1, <4>1 DEF Inv, BatchesWhole
        <4> QED BY <1>0, <1>1, <1>c, <4>1, <4>2
      <3> QED BY <3>1, <3>2
    <2>2. \A b \in 1..acked' : RowsOf(b)' # {}
      BY <1>0, <1>8, <1>c DEF Inv, BatchesWhole
    <2>3. \A s \in DOMAIN ledger : Callback(s) => ledger[s].batch <= n
      <3>1. \A s \in DOMAIN ledger : Callback(s) => ledger[s].batch \in 1..Batches
        <4>1. \A s \in DOMAIN ledger : ledger[s] \in Row
          BY <1>0
        <4> QED BY <1>0, <4>1 DEF Row, Inv, RunEventsOnce
      <3>2. \A s \in DOMAIN ledger : RowsOf(ledger[s].batch) # {}
        BY DEF RowsOf
      <3> QED BY <3>1, <3>2 DEF Inv, BatchesWhole
    <2>4. ASSUME NEW s \in DOMAIN ledger', NEW t \in DOMAIN ledger', Callback(s)', Callback(t)', s < t
          PROVE  ledger'[s].batch <= ledger'[t].batch
      <3>1. CASE t \in DOMAIN ledger
        <4>1. s \in DOMAIN ledger
          BY <1>1, <2>4, <3>1
        <4> QED BY <1>1, <1>2, <2>4, <3>1, <4>1 DEF Inv, BatchesWhole
      <3>2. CASE t \in (Len(ledger) + 1)..Len(ledger')
        BY <1>0, <1>1, <1>2, <1>3, <1>4, <2>3, <2>4, <3>2
      <3> QED BY <1>3, <3>1, <3>2
    <2> QED BY <2>1, <2>2, <2>4 DEF BatchesWhole
  <1>12. RowsCounted'
    <2> DEFINE new == (Len(ledger) + 1)..Len(ledger')
    <2>1. CallbackRows' = CallbackRows \cup new
      BY <1>2, <1>3, <1>4, <1>d DEF CallbackRows
    <2>2. CallbackRows \subseteq 1..Len(ledger) /\ CallbackRows \cap new = {}
      BY <1>1 DEF CallbackRows
    <2>3. IsFiniteSet(CallbackRows)
      <3>1. 1 \in Int /\ Len(ledger) \in Int
        BY <1>1
      <3>2. IsFiniteSet(1..Len(ledger))
        BY <3>1, FS_Interval
      <3>3. CallbackRows \in SUBSET (1..Len(ledger))
        BY <2>2
      <3> QED BY <3>2, <3>3, FS_Subset
    <2>4. IsFiniteSet(new) /\ Cardinality(new) = BatchRows
      <3>1. Len(ledger) + 1 \in Int /\ Len(ledger') \in Int
        BY <1>0, <1>1
      <3>2. IsFiniteSet(new)
            /\ Cardinality(new) = IF Len(ledger) + 1 > Len(ledger') THEN 0 ELSE Len(ledger') - (Len(ledger) + 1) + 1
        BY <3>1, FS_Interval
      <3> QED BY <1>0, <1>1, <3>2
    <2> HIDE DEF new
    <2>5. Cardinality(CallbackRows \cup new)
            = Cardinality(CallbackRows) + Cardinality(new) - Cardinality(CallbackRows \cap new)
      BY <2>3, <2>4, FS_Union
    <2>6. Cardinality(CallbackRows \cap new) = 0
      BY <2>2, FS_EmptySet
    <2>7. Cardinality(CallbackRows) = acked * BatchRows
      BY DEF Inv, RowsCounted, BatchesBegun
    <2>8. acked * BatchRows + BatchRows - 0 = (acked + 1) * BatchRows
      BY <1>0
    <2>9. RowsOf(acked + 1)' # {}
      BY <1>7, <1>d
    <2> QED BY <1>c, <2>1, <2>4, <2>5, <2>6, <2>7, <2>8, <2>9 DEF RowsCounted, BatchesBegun
  <1>13. StreamInv'
    <2>1. RedisType' /\ HashHasStream'
      BY DEF Inv, TypeInv, RedisType, HashHasStream, Exists, redisVars
    <2>2. EntriesCommitted'
      BY <1>0, <1>1 DEF Inv, EntriesCommitted, redisVars
    <2>3. HashAndRows'
      <3>1. last_event \in DOMAIN ledger => 1..(last_event - 1) \subseteq DOMAIN ledger
        BY <1>1
      <3>2. DOMAIN ledger \subseteq DOMAIN ledger'
        BY <1>0, <1>1
      <3> QED BY <1>1, <1>2, <3>1, <3>2 DEF Inv, HashAndRows, redisVars
    <2>4. HashAndEntries'
      <3>1. \A i \in DOMAIN log : log[i].kind = "callback" =>
              RowsOf(ledger[log[i].seq].batch)' = RowsOf(ledger[log[i].seq].batch)
        <4>1. \A i \in DOMAIN log : log[i].kind = "callback" => log[i].seq \in DOMAIN ledger
          BY DEF Inv, EntriesCommitted
        <4> QED BY <1>1, <1>5, <1>8, <4>1 DEF redisVars, RowsOf
      <3>2. \A i : Present(i)' <=> Present(i)
        BY DEF Present, redisVars
      <3> QED BY <3>1, <3>2 DEF Inv, HashAndEntries, redisVars
    <2>5. FirstStreamComplete'
      <3>1. delivered \in Nat /\ delivered <= Len(ledger)
        BY <1>1 DEF Inv, TypeInv, HashAndRows
      <3>2. Original(Len(log))' <=> Original(Len(log))
        BY DEF Original, redisVars
      <3>3. phase' # "none" /\ Original(Len(log))' =>
              /\ \A s \in DOMAIN ledger' : Callback(s)' /\ s <= delivered => \E i \in DOMAIN log : log[i].seq = s
              /\ \A c \in DOMAIN ledger' : ledger'[c].kind = "cancel" /\ c < delivered => last_event = c
        BY <1>1, <1>2, <1>3, <1>4, <3>1, <3>2 DEF Inv, FirstStreamComplete, redisVars
      <3> QED BY <3>3 DEF FirstStreamComplete, redisVars
    <2>6. TerminalIsLast'
      <3>1. \A i \in DOMAIN log : log[i].kind # "terminal"
        BY DEF Inv, EntriesCommitted, RunEventsOnce, Terminal
      <3> QED BY <3>1 DEF TerminalIsLast, redisVars
    <2> QED BY <2>1, <2>2, <2>3, <2>4, <2>5, <2>6 DEF StreamInv
  <1> QED BY <1>1, <1>7, <1>8, <1>9, <1>10, <1>11, <1>12, <1>13 DEF r

\* A step that leaves the rows, the run and the acknowledgements alone.
LEMMA RowsUntouched ==
  ASSUME Inv, ledger' = ledger, status' = status, acked' = acked,
         authority # "none" => authority' # "none",
         authority' # "none" => authority # "none" \/ status = "running"
  PROVE  RunEventsOnce' /\ RowsFollowRun' /\ BatchesWhole' /\ RowsCounted'
  <1>1. RunEventsOnce'
    BY DEF Inv, RunEventsOnce, Callback
  <1>2. RowsFollowRun'
    BY DEF Inv, RowsFollowRun, Terminal
  <1>3. \A b : RowsOf(b)' = RowsOf(b)
    BY DEF RowsOf
  <1>4. BatchesWhole'
    BY <1>3 DEF Inv, BatchesWhole, Callback
  <1>5. RowsCounted'
    BY <1>3 DEF Inv, RowsCounted, BatchesBegun, CallbackRows, Callback, RowsOf
  <1> QED BY <1>1, <1>2, <1>4, <1>5

\* One publisher goes on, while rows, stream and authority only grow.
LEMMA PublishersKept ==
  ASSUME Inv, NEW p \in Publisher, NEW rec \in Publication, Set(p, rec),
         \A s \in DOMAIN ledger : s \in DOMAIN ledger' /\ ledger'[s] = ledger[s],
         authority # "none" => authority' # "none", log # <<>> => log' # <<>>,
         rec.pc \in {"open", "confirm"} => authority' # "none",
         rec.pc = "confirm" => log' # <<>>,
         rec.pc = "publish" => rec.row \in DOMAIN ledger' /\ ledger'[rec.row].kind # "callback"
  PROVE  publisher' \in [Publisher -> Publication] /\ AdmissionInOrder' /\ PublishersHoldRows'
  <1>1. publisher \in [Publisher -> Publication] /\ publisher' = [publisher EXCEPT ![p] = rec]
    BY DEF Inv, TypeInv, Set
  <1>2. publisher' \in [Publisher -> Publication]
    BY <1>1
  <1>3. \A q \in Publisher : publisher'[q] = IF q = p THEN rec ELSE publisher[q]
    BY <1>1
  <1>4. AdmissionInOrder'
    BY <1>3 DEF Inv, AdmissionInOrder
  <1>5. PublishersHoldRows'
    BY <1>3 DEF Inv, PublishersHoldRows, Callback
  <1> QED BY <1>2, <1>4, <1>5

\* The handlers and what they hold, when rows and handlers stay as they are.
LEMMA RequestsUntouched ==
  ASSUME Inv, ledger' = ledger, acked' = acked, handler' = handler, Carries, delivered' \in Nat
  PROVE  RequestsInOrder' /\ RequestsHoldRows'
  <1>1. RequestsInOrder'
    BY RequestsKept
  <1>2. \A b : RowsOf(b)' = RowsOf(b)
    BY DEF RowsOf
  <1>3. RequestsHoldRows'
    BY <1>2 DEF Inv, RequestsHoldRows, RowsOf
  <1> QED BY <1>1, <1>3

\* A publisher's step that changes neither rows nor stream.
LEMMA PublisherMoves ==
  ASSUME Inv, NEW p \in Publisher, NEW rec \in Publication, Set(p, rec),
         UNCHANGED <<redisVars, status, ledger, acked, handler>>,
         dispatch' \in {"no", "admitting", "yes", "failed"},
         authority' \in {"none", "pending", "confirmed"},
         authority # "none" => authority' # "none",
         authority' # "none" => authority # "none" \/ status = "running",
         authority' = "confirmed" => log # <<>>,
         rec.pc \in {"open", "confirm"} => authority' # "none",
         rec.pc = "confirm" => log # <<>>,
         rec.pc = "publish" => rec.row \in DOMAIN ledger /\ ledger[rec.row].kind # "callback"
  PROVE  Inv'
  <1>1. /\ ledger' = ledger /\ status' = status /\ acked' = acked /\ handler' = handler
        /\ log' = log /\ delivered' = delivered /\ UNCHANGED redisVars
    BY DEF redisVars
  <1>2. RunEventsOnce' /\ RowsFollowRun' /\ BatchesWhole' /\ RowsCounted'
    BY <1>1, RowsUntouched
  <1>3. StreamInv' /\ Carries
    BY <1>1, StreamUntouched
  <1>4. publisher' \in [Publisher -> Publication] /\ AdmissionInOrder' /\ PublishersHoldRows'
    BY <1>1, PublishersKept
  <1>5. delivered' \in Nat
    BY <1>1 DEF Inv, TypeInv
  <1>6. RequestsInOrder' /\ RequestsHoldRows'
    BY <1>1, <1>3, <1>5, RequestsUntouched
  <1>7. StreamFirst'
    BY <1>1 DEF Inv, StreamFirst, Callback
  <1>8. TypeInv'
    BY <1>1, <1>3, <1>4 DEF Inv, TypeInv, StreamInv, RedisType
  <1> QED BY <1>2, <1>3, <1>4, <1>6, <1>7, <1>8 DEF Inv, StreamInv

\* A publisher's step that appends to the stream.
LEMMA PublisherAppends ==
  ASSUME Inv, NEW p \in Publisher, NEW rec \in Publication, Set(p, rec),
         UNCHANGED <<dbVars, dispatch, acked, handler>>, StreamInv', Carries,
         rec.pc # "open" /\ rec.pc # "publish",
         rec.pc = "confirm" => authority # "none" /\ log' # <<>>
  PROVE  Inv'
  <1>1. /\ ledger' = ledger /\ status' = status /\ authority' = authority /\ acked' = acked
        /\ handler' = handler /\ dispatch' = dispatch /\ (log # <<>> => log' # <<>>)
    BY DEF dbVars, Carries
  <1>2. RunEventsOnce' /\ RowsFollowRun' /\ BatchesWhole' /\ RowsCounted'
    BY <1>1, RowsUntouched
  <1>3. publisher' \in [Publisher -> Publication] /\ AdmissionInOrder' /\ PublishersHoldRows'
    BY <1>1, PublishersKept
  <1>4. RequestsInOrder' /\ RequestsHoldRows'
    BY <1>1, RequestsUntouched DEF StreamInv, RedisType
  <1>5. StreamFirst'
    BY <1>1 DEF Inv, StreamFirst, Callback
  <1>6. TypeInv'
    BY <1>1, <1>3 DEF Inv, TypeInv, StreamInv, RedisType
  <1> QED BY <1>2, <1>3, <1>4, <1>5, <1>6 DEF Inv, StreamInv

\* A step of a callback request, or of Redis alone, that commits nothing.
LEMMA RequestMoves ==
  ASSUME Inv, UNCHANGED <<dbVars, dispatch, publisher>>, StreamInv', Carries,
         handler' \in [Handler -> Request], acked' \in 0..Batches,
         \A h \in Handler : handler'[h].pc # "idle" => handler[h].pc # "idle",
         RequestsInOrder', RequestsHoldRows', BatchesWhole', RowsCounted'
  PROVE  Inv'
  <1>1. /\ ledger' = ledger /\ status' = status /\ authority' = authority
        /\ publisher' = publisher /\ dispatch' = dispatch /\ (log # <<>> => log' # <<>>)
    BY DEF dbVars, Carries
  <1>2. RunEventsOnce' /\ RowsFollowRun'
    BY <1>1 DEF Inv, RunEventsOnce, RowsFollowRun, Callback
  <1>3. StreamFirst' /\ AdmissionInOrder' /\ PublishersHoldRows'
    BY <1>1 DEF Inv, StreamFirst, AdmissionInOrder, PublishersHoldRows, Callback
  <1>4. TypeInv'
    BY <1>1 DEF Inv, TypeInv, StreamInv, RedisType
  <1> QED BY <1>2, <1>3, <1>4 DEF Inv, StreamInv

=============================================================================
