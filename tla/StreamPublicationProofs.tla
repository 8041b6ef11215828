---------------------- MODULE StreamPublicationProofs -----------------------
(*****************************************************************************)
(* The publishers of a run's events keep the order of its stream, for any    *)
(* number of batches, rows, requests, publishers, expiries and any retention: *)
(* every step keeps the invariant of StreamPublicationInvariant.             *)
(*****************************************************************************)
EXTENDS StreamPublicationInvariant

\* Init: no row, no stream, nobody at work.
LEMMA InitInv == Init => Inv
  <1> SUFFICES ASSUME Init PROVE Inv
    OBVIOUS
  <1>0. Batches \in Nat /\ BatchRows \in Nat
    BY PublicationAssumption
  <1>1. TypeInv
    BY <1>0 DEF Init, TypeInv, IdleHandler, IdlePublisher, Request, Publication
  <1>2. RunEventsOnce /\ RowsFollowRun /\ StreamFirst /\ AdmissionInOrder
    BY DEF Init, RunEventsOnce, RowsFollowRun, StreamFirst, AdmissionInOrder, IdleHandler, IdlePublisher, Terminal
  <1>3. \A b : RowsOf(b) = {}
    BY DEF Init, RowsOf
  <1>4. BatchesWhole
    BY <1>3 DEF Init, BatchesWhole
  <1>5. RowsCounted
    <2>1. CallbackRows = {}
      BY DEF Init, CallbackRows
    <2>2. Cardinality(CallbackRows) = 0
      BY <2>1, FS_EmptySet
    <2>3. BatchesBegun = 0
      BY <1>3 DEF Init, BatchesBegun
    <2> QED BY <1>0, <2>2, <2>3 DEF RowsCounted
  <1>6. EntriesCommitted /\ HashHasStream /\ HashAndRows /\ HashAndEntries /\ FirstStreamComplete
    BY DEF Init, EntriesCommitted, HashHasStream, HashAndRows, HashAndEntries, FirstStreamComplete, Exists
  <1>7. RequestsInOrder /\ RequestsHoldRows /\ PublishersHoldRows /\ TerminalIsLast
    BY DEF Init, RequestsInOrder, RequestsHoldRows, PublishersHoldRows, TerminalIsLast, IdleHandler, IdlePublisher
  <1> QED BY <1>1, <1>2, <1>4, <1>5, <1>6, <1>7 DEF Inv

\* Admission: the authority is prepared before the stream is created and confirmed after.
LEMMA AdmissionSteps ==
  ASSUME Inv, NEW p \in Publisher,
         \/ WorkerAdmits(p) \/ PrepareAdmission(p) \/ PublishOpen(p) \/ ConfirmAdmission(p)
         \/ AdmissionFails(p) \/ PublishAgain(p) \/ PublicationFails(p)
  PROVE  Inv'
  <1>0. /\ publisher[p] \in Publication /\ IdlePublisher \in Publication
        /\ \A pc \in {"idle", "prepare", "open", "confirm", "load", "publish", "end"} :
             /\ [publisher[p] EXCEPT !.pc = pc] \in Publication
             /\ [publisher[p] EXCEPT !.pc = pc].pc = pc
        /\ IdlePublisher.pc = "idle"
    BY DEF Inv, TypeInv, Publication, IdlePublisher
  <1>a. /\ dispatch \in {"no", "admitting", "yes", "failed"}
        /\ authority \in {"none", "pending", "confirmed"} /\ (authority = "confirmed" => log # <<>>)
    BY DEF Inv, TypeInv, StreamFirst
  <1>b. /\ publisher[p].pc \in {"open", "confirm"} => authority # "none"
        /\ publisher[p].pc = "confirm" => log # <<>>
    BY DEF Inv, AdmissionInOrder
  <1>c. status \in Terminal \/ status = "running"
    BY DEF Inv, TypeInv
  <1>1. CASE WorkerAdmits(p)
    <2> DEFINE rec == [pc |-> "prepare", role |-> "worker", row |-> 0]
    <2>1. rec \in Publication /\ rec.pc = "prepare"
      BY DEF Publication
    <2>2. Set(p, rec) /\ dispatch' = "admitting" /\ authority' = authority
          /\ UNCHANGED <<redisVars, status, ledger, acked, handler>>
      BY <1>1 DEF WorkerAdmits, Start, dbVars
    <2> HIDE DEF rec
    <2> QED BY <1>a, <2>1, <2>2, PublisherMoves
  <1>2. CASE PrepareAdmission(p)
    <2> DEFINE rec == [publisher[p] EXCEPT !.pc = "open"]
    <2>1. rec \in Publication /\ rec.pc = "open"
      BY <1>0
    <2>2. Set(p, rec) /\ dispatch' = dispatch
          /\ authority' = (IF authority = "none" THEN "pending" ELSE authority)
          /\ ~(status \in Terminal /\ authority = "none")
          /\ UNCHANGED <<redisVars, status, ledger, acked, handler>>
      BY <1>2 DEF PrepareAdmission, At
    <2> HIDE DEF rec
    <2> QED BY <1>a, <1>c, <2>1, <2>2, PublisherMoves
  <1>3. CASE PublishOpen(p)
    <2> DEFINE rec == [publisher[p] EXCEPT !.pc = "confirm"]
    <2>1. rec \in Publication /\ rec.pc = "confirm"
      BY <1>0
    <2>2. Set(p, rec) /\ AppendOpen /\ UNCHANGED <<dbVars, dispatch, acked, handler>>
          /\ UNCHANGED dbVars /\ authority # "none"
      BY <1>3, <1>b DEF PublishOpen, At
    <2>3. StreamInv' /\ Carries
      BY <2>2, OpenKeeps
    <2>4. log' # <<>>
      <3>1. first' <= Len(log')
        BY <2>3, <2>2 DEF StreamInv, HashHasStream, Exists, AppendOpen, redisVars, Inv
      <3>2. first' \in Nat \ {0}
        BY <2>3 DEF StreamInv, RedisType
      <3> QED BY <3>1, <3>2
    <2> HIDE DEF rec
    <2> QED BY <2>1, <2>2, <2>3, <2>4, PublisherAppends
  <1>4. CASE ConfirmAdmission(p)
    <2>1. /\ authority' = "confirmed" /\ authority # "none" /\ log # <<>>
          /\ UNCHANGED <<redisVars, status, ledger, acked, handler>>
      BY <1>4, <1>b DEF ConfirmAdmission
    <2>2. CASE publisher[p].role = "worker"
      <3>1. Set(p, IdlePublisher) /\ dispatch' = "yes"
        BY <1>4, <2>2 DEF ConfirmAdmission
      <3> QED BY <1>0, <2>1, <3>1, PublisherMoves
    <2>3. CASE publisher[p].role # "worker"
      <3> DEFINE rec == [publisher[p] EXCEPT !.pc = "load"]
      <3>1. Set(p, rec) /\ dispatch' = dispatch /\ rec \in Publication /\ rec.pc = "load"
        BY <1>0, <1>4, <2>3 DEF ConfirmAdmission, At
      <3> HIDE DEF rec
      <3> QED BY <1>a, <2>1, <3>1, PublisherMoves
    <2> QED BY <2>2, <2>3
  <1>5. CASE AdmissionFails(p)
    <2>1. /\ dispatch' \in {"no", "admitting", "yes", "failed"} /\ authority' = authority
          /\ UNCHANGED <<redisVars, status, ledger, acked, handler>>
      BY <1>5, <1>a DEF AdmissionFails, dbVars
    <2>2. CASE publisher[p].role = "cancel"
      <3> DEFINE rec == [publisher[p] EXCEPT !.pc = "load"]
      <3>1. Set(p, rec) /\ rec \in Publication /\ rec.pc = "load"
        BY <1>0, <1>5, <2>2 DEF AdmissionFails, At
      <3> HIDE DEF rec
      <3> QED BY <1>a, <2>1, <3>1, PublisherMoves
    <2>3. CASE publisher[p].role # "cancel"
      <3>1. Set(p, IdlePublisher)
        BY <1>5, <2>3 DEF AdmissionFails
      <3> QED BY <1>0, <1>a, <2>1, <3>1, PublisherMoves
    <2> QED BY <2>2, <2>3
  <1>6. CASE PublishAgain(p)
    <2> DEFINE rec == [pc |-> "load", role |-> "run", row |-> 0]
    <2>1. rec \in Publication /\ rec.pc = "load"
      BY DEF Publication
    <2>2. Set(p, rec) /\ dispatch' = dispatch /\ authority' = authority
          /\ UNCHANGED <<redisVars, status, ledger, acked, handler>>
      BY <1>6 DEF PublishAgain, Start, dbVars
    <2> HIDE DEF rec
    <2> QED BY <1>a, <2>1, <2>2, PublisherMoves
  <1>7. CASE PublicationFails(p)
    <2>1. Set(p, IdlePublisher) /\ dispatch' = dispatch /\ authority' = authority
          /\ UNCHANGED <<redisVars, status, ledger, acked, handler>>
      BY <1>7 DEF PublicationFails, dbVars
    <2> QED BY <1>0, <1>a, <2>1, PublisherMoves
  <1> QED BY <1>1, <1>2, <1>3, <1>4, <1>5, <1>6, <1>7

\* Run events: a row for the cancel request, a row for the end, and their publication.
LEMMA RunEventSteps ==
  ASSUME Inv, NEW p \in Publisher,
         \/ RequestCancel(p) \/ Terminate(p) \/ LoadRunEvent(p) \/ PublishRunEvent(p) \/ PublishEnd(p)
  PROVE  Inv'
  <1>0. /\ publisher[p] \in Publication /\ IdlePublisher \in Publication /\ IdlePublisher.pc = "idle"
    BY DEF Inv, TypeInv, Publication, IdlePublisher
  <1>a. /\ dispatch \in {"no", "admitting", "yes", "failed"}
        /\ authority \in {"none", "pending", "confirmed"} /\ (authority = "confirmed" => log # <<>>)
        /\ status \in {"running"} \cup Terminal /\ ledger \in Seq(Row)
        /\ DOMAIN ledger = 1..Len(ledger) /\ Len(ledger) \in Nat
    BY LenProperties DEF Inv, TypeInv, StreamFirst
  <1>1. CASE RequestCancel(p)
    <2> DEFINE rec == [pc |-> "open", role |-> "cancel", row |-> 0]
    <2>1. rec \in Publication /\ rec.pc = "open"
      BY DEF Publication
    <2>2. /\ status \in {"running", "cancelled"} /\ Set(p, rec)
          /\ authority' = (IF authority = "none" THEN "pending" ELSE authority)
          /\ dispatch' = dispatch /\ UNCHANGED redisVars /\ status' = status
          /\ acked' = acked /\ handler' = handler
      BY <1>1 DEF RequestCancel, Start
    <2> HIDE DEF rec
    <2>3. CASE \E s \in DOMAIN ledger : ledger[s].kind = "cancel"
      <3>1. authority # "none" /\ authority' = authority /\ ledger' = ledger
        BY <1>1, <2>2, <2>3 DEF RequestCancel, Inv, RowsFollowRun
      <3> QED BY <1>a, <2>1, <2>2, <3>1, PublisherMoves
    <2>4. CASE ~\E s \in DOMAIN ledger : ledger[s].kind = "cancel"
      <3>1. status = "running" /\ ledger' = Append(ledger, [kind |-> "cancel", batch |-> 0])
        BY <1>1, <2>2, <2>4 DEF RequestCancel, Inv, RowsFollowRun
      <3>2. /\ ledger' \in Seq(Row) /\ Len(ledger') = Len(ledger) + 1
            /\ DOMAIN ledger' = 1..(Len(ledger) + 1)
            /\ \A s \in DOMAIN ledger : ledger'[s] = ledger[s]
            /\ ledger'[Len(ledger) + 1] = [kind |-> "cancel", batch |-> 0]
            /\ BatchesWhole' /\ RowsCounted' /\ StreamInv' /\ RequestsInOrder' /\ RequestsHoldRows'
        BY <2>2, <3>1, RunEventRow
      <3>3. \A s \in DOMAIN ledger : ledger[s].kind # "terminal"
        BY <3>1 DEF Inv, RunEventsOnce, Terminal
      <3>4. RunEventsOnce'
        <4>1. \A s \in DOMAIN ledger' : Callback(s)' <=> ledger'[s].batch # 0
          BY <1>a, <3>2 DEF Inv, RunEventsOnce, Callback
        <4>2. \A s, t \in DOMAIN ledger' : ledger'[s].kind = ledger'[t].kind /\ ~Callback(s)' => s = t
          BY <1>a, <2>4, <3>2 DEF Inv, RunEventsOnce, Callback
        <4>3. \A s \in DOMAIN ledger' : ledger'[s].kind # "terminal"
          BY <1>a, <3>2, <3>3
        <4> QED BY <4>1, <4>2, <4>3 DEF RunEventsOnce
      <3>5. RowsFollowRun' /\ authority' \in {"none", "pending", "confirmed"} /\ authority' # "none"
        BY <1>a, <2>2, <3>1 DEF RowsFollowRun, Terminal
      <3>6. log' = log /\ \A s \in DOMAIN ledger : s \in DOMAIN ledger'
        BY <1>a, <2>2, <3>2 DEF redisVars
      <3>7. publisher' \in [Publisher -> Publication] /\ AdmissionInOrder' /\ PublishersHoldRows'
        BY <2>1, <2>2, <3>2, <3>5, <3>6, PublishersKept
      <3>8. StreamFirst'
        BY <1>a, <2>2, <3>2, <3>6 DEF Inv, StreamFirst, Callback
      <3>9. TypeInv'
        BY <1>a, <2>2, <3>2, <3>5, <3>7 DEF Inv, TypeInv, StreamInv, RedisType
      <3> QED BY <3>2, <3>4, <3>5, <3>7, <3>8, <3>9 DEF Inv, StreamInv
    <2> QED BY <2>3, <2>4
  <1>2. CASE Terminate(p)
    <2>1. PICK st \in Terminal, role \in {"run", "prepare"} :
            /\ status = "running" /\ status' = st
            /\ st = "cancelled" => \E s \in DOMAIN ledger : ledger[s].kind = "cancel"
            /\ Set(p, [pc |-> IF role = "run" THEN "load" ELSE "prepare", role |-> role, row |-> 0])
            /\ ledger' = WithTerminalRow(ledger, st)
            /\ UNCHANGED redisVars /\ authority' = authority /\ dispatch' = dispatch
            /\ acked' = acked /\ handler' = handler
      BY <1>2 DEF Terminate, Start
    <2> DEFINE rec == [pc |-> IF role = "run" THEN "load" ELSE "prepare", role |-> role, row |-> 0]
    <2>2. rec \in Publication /\ rec.pc \in {"load", "prepare"} /\ Set(p, rec)
      BY <2>1 DEF Publication
    <2> HIDE DEF rec
    <2>3. \A s \in DOMAIN ledger : ledger[s].kind # "terminal"
      BY <2>1 DEF Inv, RunEventsOnce, Terminal
    <2>4. CASE authority = "none"
      <3>1. ledger' = ledger /\ log' = log /\ delivered' = delivered
        BY <2>1, <2>4 DEF WithTerminalRow, redisVars
      <3>2. RunEventsOnce' /\ RowsFollowRun'
        BY <2>1, <2>3, <2>4, <3>1 DEF Inv, RunEventsOnce, RowsFollowRun, Callback
      <3>3. \A b : RowsOf(b)' = RowsOf(b)
        BY <3>1 DEF RowsOf
      <3>4. BatchesWhole'
        BY <2>1, <3>1, <3>3 DEF Inv, BatchesWhole, Callback
      <3>5. RowsCounted'
        BY <2>1, <3>1, <3>3 DEF Inv, RowsCounted, BatchesBegun, CallbackRows, Callback, RowsOf
      <3>6. StreamInv' /\ Carries
        BY <2>1, <3>1, StreamUntouched
      <3>7. RequestsInOrder' /\ RequestsHoldRows'
        BY <2>1, <3>1, <3>6, RequestsUntouched DEF Inv, TypeInv
      <3>8. publisher' \in [Publisher -> Publication] /\ AdmissionInOrder' /\ PublishersHoldRows'
        BY <2>1, <2>2, <3>1, PublishersKept
      <3>9. StreamFirst'
        BY <2>1, <3>1 DEF Inv, StreamFirst, Callback
      <3>10. TypeInv'
        BY <2>1, <3>1, <3>6, <3>8 DEF Inv, TypeInv, StreamInv, RedisType
      <3> QED BY <3>2, <3>4, <3>5, <3>6, <3>7, <3>8, <3>9, <3>10 DEF Inv, StreamInv
    <2>5. CASE authority # "none"
      <3>1. ledger' = Append(ledger, [kind |-> "terminal", batch |-> 0])
        BY <2>1, <2>3, <2>5 DEF WithTerminalRow
      <3>2. /\ ledger' \in Seq(Row) /\ Len(ledger') = Len(ledger) + 1
            /\ DOMAIN ledger' = 1..(Len(ledger) + 1)
            /\ \A s \in DOMAIN ledger : ledger'[s] = ledger[s]
            /\ ledger'[Len(ledger) + 1] = [kind |-> "terminal", batch |-> 0]
            /\ BatchesWhole' /\ RowsCounted' /\ StreamInv' /\ RequestsInOrder' /\ RequestsHoldRows'
        BY <2>1, <3>1, RunEventRow
      <3>3. RunEventsOnce'
        <4>1. \A s \in DOMAIN ledger' : Callback(s)' <=> ledger'[s].batch # 0
          BY <1>a, <3>2 DEF Inv, RunEventsOnce, Callback
        <4>2. \A s, t \in DOMAIN ledger' : ledger'[s].kind = ledger'[t].kind /\ ~Callback(s)' => s = t
          BY <1>a, <2>3, <3>2 DEF Inv, RunEventsOnce, Callback
        <4>3. \A s \in DOMAIN ledger' : ledger'[s].kind = "terminal" => s = Len(ledger') /\ status' \in Terminal
          BY <1>a, <2>1, <2>3, <3>2
        <4> QED BY <4>1, <4>2, <4>3 DEF RunEventsOnce
      <3>4. RowsFollowRun'
        <4>1. Len(ledger) + 1 \in DOMAIN ledger' /\ ledger'[Len(ledger) + 1].kind = "terminal"
          BY <1>a, <3>2
        <4>2. \A s \in DOMAIN ledger : s \in DOMAIN ledger'
          BY <1>a, <3>2
        <4> QED BY <2>1, <2>5, <3>2, <4>1, <4>2 DEF RowsFollowRun
      <3>5. log' = log /\ \A s \in DOMAIN ledger : s \in DOMAIN ledger'
        BY <1>a, <2>1, <3>2 DEF redisVars
      <3>6. publisher' \in [Publisher -> Publication] /\ AdmissionInOrder' /\ PublishersHoldRows'
        BY <2>1, <2>2, <3>2, <3>5, PublishersKept
      <3>7. StreamFirst'
        BY <1>a, <2>1, <3>2, <3>5 DEF Inv, StreamFirst, Callback
      <3>8. TypeInv'
        BY <1>a, <2>1, <3>2, <3>6 DEF Inv, TypeInv, StreamInv, RedisType
      <3> QED BY <3>2, <3>3, <3>4, <3>6, <3>7, <3>8 DEF Inv, StreamInv
    <2> QED BY <2>4, <2>5
  <1>3. CASE LoadRunEvent(p)
    <2>1. WithTerminalRow(ledger, status) = ledger
      BY DEF WithTerminalRow, Inv, RowsFollowRun
    <2> DEFINE row == IF authority = "confirmed" THEN LatestRunEvent(ledger, Len(ledger) + 1) ELSE 0
               rec == [publisher[p] EXCEPT !.pc = "publish", !.row = row]
    <2>2. ledger' = ledger /\ Set(p, IF row = 0 THEN IdlePublisher ELSE rec)
          /\ authority' = authority /\ dispatch' = dispatch
          /\ UNCHANGED <<redisVars, status, ledger, acked, handler>>
      BY <1>3, <2>1 DEF LoadRunEvent
    <2>3. row \in Nat /\ (row # 0 => row \in DOMAIN ledger /\ ledger[row].kind # "callback")
      <3>1. Len(ledger) + 1 \in 1..(Len(ledger) + 1)
        BY <1>a
      <3>2. /\ LatestRunEvent(ledger, Len(ledger) + 1) \in 0..(Len(ledger) + 1 - 1)
            /\ LatestRunEvent(ledger, Len(ledger) + 1) # 0 =>
                 ledger[LatestRunEvent(ledger, Len(ledger) + 1)].kind # "callback"
        BY <1>a, <3>1, LatestRunEventMeans
      <3> QED BY <1>a, <3>2
    <2> HIDE DEF row
    <2>4. rec \in Publication /\ rec.pc = "publish" /\ rec.row = row
      BY <1>0, <2>3 DEF Publication
    <2> HIDE DEF rec
    <2>5. CASE row = 0
      BY <1>0, <1>a, <2>2, <2>5, PublisherMoves
    <2>6. CASE row # 0
      BY <1>a, <2>2, <2>3, <2>4, <2>6, PublisherMoves
    <2> QED BY <2>5, <2>6
  <1>4. CASE PublishRunEvent(p)
    <2> DEFINE r == publisher[p].row
    <2>1. r \in DOMAIN ledger /\ ledger[r].kind \in {"cancel", "terminal"}
      <3>1. r \in DOMAIN ledger /\ ledger[r].kind # "callback"
        BY <1>4 DEF PublishRunEvent, Inv, PublishersHoldRows, Callback
      <3>2. ledger[r] \in Row
        BY <1>a, <3>1
      <3> QED BY <3>1, <3>2 DEF Row
    <2>2. AppendRunEvent(r) /\ UNCHANGED <<dbVars, dispatch, acked, handler>> /\ UNCHANGED dbVars
      BY <1>4 DEF PublishRunEvent
    <2>3. CASE ledger[r].kind = "terminal"
      <3> DEFINE rec == [publisher[p] EXCEPT !.pc = "end"]
      <3>1. rec \in Publication /\ rec.pc = "end" /\ Set(p, rec)
        BY <1>0, <1>4, <2>3 DEF PublishRunEvent, At, Publication
      <3>2. AppendTerminal(r)
        BY <2>2, <2>3 DEF AppendRunEvent
      <3> HIDE DEF rec
      <3>3. StreamInv' /\ Carries
        BY <2>1, <2>2, <2>3, <3>2, TerminalKeeps
      <3> QED BY <2>2, <3>1, <3>3, PublisherAppends
    <2>4. CASE ledger[r].kind = "cancel"
      <3>1. Set(p, IdlePublisher)
        BY <1>4, <2>4 DEF PublishRunEvent
      <3>2. AppendCancel(r)
        BY <2>2, <2>4 DEF AppendRunEvent
      <3>3. StreamInv' /\ Carries
        BY <2>1, <2>2, <2>4, <3>2, CancelKeeps
      <3> QED BY <1>0, <2>2, <3>1, <3>3, PublisherAppends
    <2> QED BY <2>1, <2>3, <2>4
  <1>5. CASE PublishEnd(p)
    <2>1. AppendEnd /\ Set(p, IdlePublisher) /\ UNCHANGED <<dbVars, dispatch, acked, handler>>
          /\ UNCHANGED dbVars
      BY <1>5 DEF PublishEnd
    <2>2. StreamInv' /\ Carries
      BY <2>1, EndKeeps
    <2> QED BY <1>0, <2>1, <2>2, PublisherAppends
  <1> QED BY <1>1, <1>2, <1>3, <1>4, <1>5

\* The transaction of a callback request, for a new batch or one it sends again.
LEMMA PersistCallbackStep ==
  ASSUME Inv, NEW h \in Handler, PersistCallback(h)
  PROVE  Inv'
  <1> DEFINE b == acked + 1
             at == IF RowsOf(b) = {} THEN Len(ledger) + 1 ELSE Min(RowsOf(b))
             pred == LatestRunEvent(ledger, at)
             rec == [pc |-> IF pred = 0 THEN "batch" ELSE "pred", batch |-> b, pred |-> pred]
  <1>0. /\ ledger \in Seq(Row) /\ DOMAIN ledger = 1..Len(ledger) /\ Len(ledger) \in Nat
        /\ acked \in Nat /\ Batches \in Nat /\ BatchRows \in Nat \ {0}
        /\ handler \in [Handler -> Request] /\ acked \in 0..Batches
    BY LenProperties, PublicationAssumption DEF Inv, TypeInv
  <1>1. /\ b <= Batches /\ status = "running" /\ authority = "confirmed"
        /\ ledger' = (IF RowsOf(b) = {} THEN ledger \o [i \in 1..BatchRows |-> [kind |-> "callback", batch |-> b]]
                                        ELSE ledger)
        /\ handler' = [handler EXCEPT ![h] = rec]
        /\ UNCHANGED redisVars /\ status' = status /\ authority' = authority
        /\ dispatch' = dispatch /\ acked' = acked /\ publisher' = publisher
    BY DEF PersistCallback, Predecessor
  <1>2. b \in 1..Batches
    BY <1>0, <1>1
  <1>3. at \in 1..(Len(ledger) + 1)
    <2>1. RowsOf(b) # {} => Min(RowsOf(b)) \in DOMAIN ledger
      BY <1>0, <1>2, BatchInterval DEF Inv
    <2> QED BY <1>0, <2>1
  <1> HIDE DEF at
  <1>4. /\ pred \in 0..(at - 1)
        /\ pred # 0 => ledger[pred].kind # "callback"
        /\ \A t \in 1..(at - 1) : ledger[t].kind # "callback" => t <= pred
    BY <1>0, <1>3, LatestRunEventMeans
  <1> HIDE DEF pred
  <1>5. pred # 0 => pred \in DOMAIN ledger /\ pred < at /\ ledger[pred].kind = "cancel"
    <2>1. pred # 0 => pred \in DOMAIN ledger /\ pred < at
      BY <1>0, <1>3, <1>4
    <2>2. \A s \in DOMAIN ledger : ledger[s] \in Row /\ ledger[s].kind # "terminal"
      BY <1>0, <1>1 DEF Inv, RunEventsOnce, Terminal
    <2> QED BY <1>4, <2>1, <2>2 DEF Row
  <1>6. pred = 0 => \A c \in DOMAIN ledger : ledger[c].kind = "cancel" => at <= c
    BY <1>0, <1>3, <1>4
  <1>7. rec \in Request /\ rec.pc \in {"batch", "pred"} /\ rec.batch = b /\ rec.pred = pred
        /\ (rec.pc = "batch" <=> pred = 0)
    BY <1>2, <1>3, <1>4 DEF Request
  <1> HIDE DEF rec
  <1>8. handler' \in [Handler -> Request] /\ \A g \in Handler : handler'[g] = IF g = h THEN rec ELSE handler[g]
    BY <1>0, <1>1, <1>7
  <1>9. log # <<>> /\ log' = log
    BY <1>1 DEF Inv, StreamFirst, redisVars
  <1>10. CASE RowsOf(b) # {}
    <2>1. ledger' = ledger /\ \A c : RowsOf(c)' = RowsOf(c)
      BY <1>1, <1>10 DEF RowsOf
    <2>2. at = Min(RowsOf(b)) /\ RowsOf(b) = Min(RowsOf(b))..Max(RowsOf(b))
          /\ Min(RowsOf(b)) \in Nat /\ Max(RowsOf(b)) \in Nat
      BY <1>0, <1>2, <1>10, BatchInterval DEF at, Inv
    <2>3. StreamInv' /\ Carries
      BY <1>1, <2>1, StreamUntouched
    <2>4. RunEventsOnce' /\ RowsFollowRun' /\ BatchesWhole' /\ RowsCounted'
      BY <1>1, <2>1, RowsUntouched
    <2>5. \A s \in RowsOf(b) : s \in Nat /\ at <= s /\ ledger[s].kind = "callback"
      <3>1. \A s \in RowsOf(b) : s \in Nat /\ at <= s
        BY <2>2
      <3>2. \A s \in RowsOf(b) : Callback(s)
        BY <1>0 DEF RowsOf, Inv, RunEventsOnce
      <3> QED BY <3>1, <3>2 DEF Callback
    <2>6. pred = 0 => \A c \in DOMAIN ledger, s \in RowsOf(b) :
                         ledger[c].kind = "cancel" /\ c < s => FALSE
      <3> SUFFICES ASSUME pred = 0, NEW c \in DOMAIN ledger, NEW s \in RowsOf(b),
                          ledger[c].kind = "cancel", c < s
                   PROVE  FALSE
        OBVIOUS
      <3>1. at <= c /\ c \in Nat
        BY <1>0, <1>6
      <3>2. c \in RowsOf(b)
        BY <2>2, <2>5, <3>1
      <3> QED BY <2>5, <3>2
    <2>7. RequestsInOrder'
      <3>1. \A g \in Handler : handler'[g].pc = "batch" =>
              \/ handler[g].pc = "batch" /\ handler'[g].batch = handler[g].batch
              \/ \A c \in DOMAIN ledger, s \in RowsOf(handler'[g].batch) :
                    ledger[c].kind = "cancel" /\ c < s => last_event' = c
        BY <1>7, <1>8, <2>6
      <3>2. delivered' \in Nat /\ acked' = acked
        BY <1>1, <2>3 DEF StreamInv, RedisType
      <3> QED BY <2>1, <2>3, <3>1, <3>2, RequestsKept
    <2>8. RequestsHoldRows'
      <3>1. pred # 0 => \A s \in RowsOf(b) : pred < s
        BY <1>0, <1>3, <1>5, <2>5
      <3>3. ASSUME NEW g \in Handler, handler'[g].pc # "idle"
            PROVE  /\ handler'[g].batch \in 1..(acked + 1) /\ RowsOf(handler'[g].batch) # {}
                   /\ handler'[g].pc = "pred" =>
                        /\ handler'[g].pred \in DOMAIN ledger /\ ledger[handler'[g].pred].kind = "cancel"
                        /\ \A s \in RowsOf(handler'[g].batch) : handler'[g].pred < s
        <4>1. CASE g = h
          BY <1>0, <1>5, <1>7, <1>8, <1>10, <3>1, <4>1
        <4>2. CASE g # h
          BY <1>8, <3>3, <4>2 DEF Inv, RequestsHoldRows
        <4> QED BY <4>1, <4>2
      <3> QED BY <1>1, <2>1, <3>3 DEF RequestsHoldRows, RowsOf
    <2>9. StreamFirst' /\ AdmissionInOrder' /\ PublishersHoldRows'
      BY <1>1, <1>9, <2>1 DEF Inv, StreamFirst, AdmissionInOrder, PublishersHoldRows, Callback
    <2>10. TypeInv'
      BY <1>1, <1>8, <2>1, <2>3 DEF Inv, TypeInv, StreamInv, RedisType
    <2> QED BY <2>3, <2>4, <2>7, <2>8, <2>9, <2>10 DEF Inv, StreamInv
  <1>11. CASE RowsOf(b) = {}
    <2>1. at = Len(ledger) + 1
      BY <1>11 DEF at
    <2>2. /\ ledger' \in Seq(Row) /\ Len(ledger') = Len(ledger) + BatchRows
          /\ DOMAIN ledger' = 1..Len(ledger')
          /\ \A s \in DOMAIN ledger : ledger'[s] = ledger[s]
          /\ \A s \in (Len(ledger) + 1)..Len(ledger') : ledger'[s] = [kind |-> "callback", batch |-> acked + 1]
          /\ RowsOf(acked + 1)' = (Len(ledger) + 1)..Len(ledger')
          /\ \A c : c # acked + 1 => RowsOf(c)' = RowsOf(c)
          /\ RunEventsOnce' /\ RowsFollowRun' /\ BatchesWhole' /\ RowsCounted' /\ StreamInv'
      BY <1>1, <1>11, FreshBatch
    <2>3. \A s \in DOMAIN ledger' : s \in DOMAIN ledger \/ s \in (Len(ledger) + 1)..Len(ledger')
      BY <1>0, <2>2
    <2>4. \A s \in DOMAIN ledger : s \in DOMAIN ledger'
      BY <1>0, <2>2
    <2>5. \A c : c = b => RowsOf(c)' = (Len(ledger) + 1)..Len(ledger')
      BY <1>1, <2>2 DEF RowsOf
    <2>6. \A c : c # b => RowsOf(c)' = RowsOf(c)
      BY <2>2
    <2>7. \A g \in Handler : handler[g].pc # "idle" => handler[g].batch # b
      BY <1>11 DEF Inv, RequestsHoldRows
    <2>8. \A c \in DOMAIN ledger' : ledger'[c].kind = "cancel" => c \in DOMAIN ledger /\ ledger[c].kind = "cancel"
      BY <2>2, <2>3
    <2>9. RequestsInOrder'
      <3> SUFFICES ASSUME phase # "none", Original(Len(log))
                   PROVE  /\ \A s \in DOMAIN ledger' : Callback(s)' /\ ledger'[s].batch <= acked => s <= delivered
                          /\ \A g \in Handler : handler'[g].pc = "batch" =>
                               \A c \in DOMAIN ledger', s \in RowsOf(handler[g].batch)' :
                                 ledger'[c].kind = "cancel" /\ c < s => last_event = c
        BY <1>1 DEF RequestsInOrder, Original, RowsOf, redisVars
      <3>1. \A s \in DOMAIN ledger' : Callback(s)' /\ ledger'[s].batch <= acked => s <= delivered
        <4>1. \A s \in DOMAIN ledger' : Callback(s)' /\ ledger'[s].batch <= acked =>
                s \in DOMAIN ledger /\ Callback(s) /\ ledger[s].batch <= acked
          BY <1>0, <2>2, <2>3 DEF Callback
        <4> QED BY <4>1 DEF Inv, RequestsInOrder
      <3>2. ASSUME NEW g \in Handler, handler'[g].pc = "batch",
                   NEW c \in DOMAIN ledger', NEW s \in RowsOf(handler[g].batch)',
                   ledger'[c].kind = "cancel", c < s
            PROVE  last_event = c
        <4>1. CASE g = h
          <5>1. pred = 0
            BY <1>7, <1>8, <3>2, <4>1
          <5>2. c \in DOMAIN ledger /\ ledger[c].kind = "cancel"
            BY <2>8, <3>2
          <5> QED BY <1>0, <1>6, <2>1, <5>1, <5>2
        <4>2. CASE g # h
          <5>1. handler[g].pc = "batch" /\ handler'[g].batch = handler[g].batch /\ handler[g].batch # b
            BY <1>8, <2>7, <3>2, <4>2
          <5>2. s \in RowsOf(handler[g].batch)
            BY <2>6, <3>2, <5>1 DEF RowsOf
          <5> QED BY <2>8, <3>2, <5>1, <5>2 DEF Inv, RequestsInOrder
        <4> QED BY <4>1, <4>2
      <3> QED BY <3>1, <3>2
    <2>10. RequestsHoldRows'
      <3>1. ASSUME NEW g \in Handler, handler'[g].pc # "idle"
            PROVE  /\ handler'[g].batch \in 1..(acked' + 1) /\ RowsOf(handler[g].batch)' # {}
                   /\ handler'[g].pc = "pred" =>
                        /\ handler'[g].pred \in DOMAIN ledger' /\ ledger'[handler'[g].pred].kind = "cancel"
                        /\ \A s \in RowsOf(handler[g].batch)' : handler'[g].pred < s
        <4>1. CASE g = h
          <5>1. handler'[g].batch = b /\ handler'[g].pred = pred /\ (handler'[g].pc = "pred" => pred # 0)
            BY <1>7, <1>8, <3>1, <4>1
          <5>2. RowsOf(handler[g].batch)' = (Len(ledger) + 1)..Len(ledger')
            BY <2>5, <5>1 DEF RowsOf
          <5>3. Len(ledger) + 1 \in (Len(ledger) + 1)..Len(ledger')
            BY <1>0, <2>2
          <5>4. pred # 0 => pred \in DOMAIN ledger' /\ ledger'[pred].kind = "cancel"
                           /\ \A s \in (Len(ledger) + 1)..Len(ledger') : pred < s
            BY <1>0, <1>5, <2>1, <2>2, <2>4
          <5>5. handler'[g].batch \in 1..(acked' + 1) /\ RowsOf(handler[g].batch)' # {}
            <6>1. handler'[g].batch \in 1..(acked' + 1)
              BY <1>0, <1>1, <5>1
            <6>2. RowsOf(handler[g].batch)' # {}
              BY ONLY <5>2, <5>3
            <6> QED BY <6>1, <6>2
          <5>6. handler'[g].pc = "pred" =>
                  /\ handler'[g].pred \in DOMAIN ledger' /\ ledger'[handler'[g].pred].kind = "cancel"
                  /\ \A s \in RowsOf(handler[g].batch)' : handler'[g].pred < s
            BY <5>1, <5>2, <5>4
          <5> QED BY <5>5, <5>6
        <4>2. CASE g # h
          <5>1. handler'[g] = handler[g] /\ handler[g].pc # "idle" /\ handler[g].batch # b
            BY <1>8, <2>7, <3>1, <4>2
          <5>2. RowsOf(handler[g].batch)' = RowsOf(handler[g].batch)
            BY <2>6, <5>1 DEF RowsOf
          <5> QED BY <1>1, <2>2, <2>4, <5>1, <5>2 DEF Inv, RequestsHoldRows
        <4> QED BY <4>1, <4>2
      <3> QED BY <3>1 DEF RequestsHoldRows
    <2>11. StreamFirst' /\ AdmissionInOrder'
      BY <1>1, <1>9 DEF Inv, StreamFirst, AdmissionInOrder
    <2>12. PublishersHoldRows'
      BY <1>1, <2>2, <2>4 DEF Inv, PublishersHoldRows, Callback
    <2>13. TypeInv'
      BY <1>1, <1>8, <2>2 DEF Inv, TypeInv, StreamInv, RedisType
    <2> QED BY <2>2, <2>9, <2>10, <2>11, <2>12, <2>13 DEF Inv, StreamInv
  <1> QED BY <1>10, <1>11

\* The other steps of a callback request, and the TTL running out.
LEMMA RequestSteps ==
  ASSUME Inv, NEW h \in Handler, PublishPredecessor(h) \/ PublishBatch(h) \/ CallbackFails(h)
  PROVE  Inv'
  <1>0. /\ handler \in [Handler -> Request] /\ IdleHandler \in Request /\ IdleHandler.pc = "idle"
        /\ acked \in 0..Batches /\ acked \in Nat /\ Batches \in Nat /\ ledger \in Seq(Row)
    BY PublicationAssumption DEF Inv, TypeInv, Request, IdleHandler
  <1>1. CASE PublishPredecessor(h)
    <2> DEFINE r == handler[h].pred
    <2>1. /\ handler[h].pc = "pred" /\ AppendRunEvent(r)
          /\ handler' = [handler EXCEPT ![h].pc = "batch", ![h].pred = 0]
          /\ UNCHANGED <<dbVars, dispatch, acked, publisher>>
          /\ ledger' = ledger /\ acked' = acked
      BY <1>1 DEF PublishPredecessor, dbVars
    <2>2. /\ r \in DOMAIN ledger /\ ledger[r].kind = "cancel"
          /\ handler[h].batch \in 1..(acked + 1) /\ RowsOf(handler[h].batch) # {}
      BY <2>1 DEF Inv, RequestsHoldRows
    <2>3. AppendCancel(r)
      BY <2>1, <2>2 DEF AppendRunEvent
    <2>4. StreamInv' /\ Carries /\ last_event' = r
      BY <2>1, <2>2, <2>3, CancelKeeps
    <2>5. /\ handler' \in [Handler -> Request]
          /\ \A g \in Handler : handler'[g].batch = handler[g].batch
          /\ \A g \in Handler : g # h => handler'[g] = handler[g]
          /\ handler'[h].pc = "batch"
      BY <1>0, <2>1 DEF Request
    <2>6. RequestsInOrder'
      <3>1. \A c \in DOMAIN ledger : ledger[c].kind = "cancel" => c = r
        BY <2>2 DEF Inv, RunEventsOnce, Callback
      <3>2. \A g \in Handler : handler'[g].pc = "batch" =>
              \/ handler[g].pc = "batch" /\ handler'[g].batch = handler[g].batch
              \/ \A c \in DOMAIN ledger, s \in RowsOf(handler'[g].batch) :
                    ledger[c].kind = "cancel" /\ c < s => last_event' = c
        BY <2>4, <2>5, <3>1
      <3>3. delivered' \in Nat
        BY <2>4 DEF StreamInv, RedisType
      <3> QED BY <2>1, <2>4, <3>2, <3>3, RequestsKept
    <2>7. \A b : RowsOf(b)' = RowsOf(b)
      BY <2>1 DEF RowsOf
    <2>8. RequestsHoldRows'
      <3> SUFFICES ASSUME NEW g \in Handler, handler'[g].pc # "idle"
                   PROVE  /\ handler'[g].batch \in 1..(acked + 1) /\ RowsOf(handler'[g].batch) # {}
                          /\ handler'[g].pc = "pred" =>
                               /\ handler'[g].pred \in DOMAIN ledger
                               /\ ledger[handler'[g].pred].kind = "cancel"
                               /\ \A s \in RowsOf(handler'[g].batch) : handler'[g].pred < s
        BY <2>1 DEF RequestsHoldRows, RowsOf
      <3>1. CASE g = h
        BY <2>2, <2>5, <3>1
      <3>2. CASE g # h
        BY <2>5, <3>2 DEF Inv, RequestsHoldRows
      <3> QED BY <3>1, <3>2
    <2>9. BatchesWhole' /\ RowsCounted'
      BY <2>1, RowsUntouched DEF dbVars
    <2>10. \A g \in Handler : handler'[g].pc # "idle" => handler[g].pc # "idle"
      BY <2>1, <2>5
    <2> QED BY <1>0, <2>1, <2>4, <2>5, <2>6, <2>8, <2>9, <2>10, RequestMoves
  <1>2. CASE CallbackFails(h)
    <2>1. /\ handler' = [handler EXCEPT ![h] = IdleHandler] /\ UNCHANGED redisVars
          /\ UNCHANGED <<dbVars, dispatch, publisher>> /\ ledger' = ledger /\ acked' = acked
      BY <1>2 DEF CallbackFails, Ends, dbVars
    <2>2. StreamInv' /\ Carries
      BY <2>1, StreamUntouched
    <2>3. /\ handler' \in [Handler -> Request]
          /\ \A g \in Handler : handler'[g].pc # "idle" => handler'[g] = handler[g]
      BY <1>0, <2>1
    <2>4. RequestsInOrder'
      <3>1. delivered' \in Nat
        BY <2>2 DEF StreamInv, RedisType
      <3>2. \A g \in Handler : handler'[g].pc = "batch" =>
               handler[g].pc = "batch" /\ handler'[g].batch = handler[g].batch
        BY <2>3
      <3> QED BY <2>1, <2>2, <3>1, <3>2, RequestsKept
    <2>5. RequestsHoldRows'
      BY <2>1, <2>3 DEF Inv, RequestsHoldRows, RowsOf
    <2>6. BatchesWhole' /\ RowsCounted'
      BY <2>1, RowsUntouched DEF dbVars
    <2>7. \A g \in Handler : handler'[g].pc # "idle" => handler[g].pc # "idle"
      BY <2>3
    <2> QED BY <1>0, <2>1, <2>2, <2>3, <2>4, <2>5, <2>6, <2>7, RequestMoves
  <1>3. CASE PublishBatch(h)
    <2> DEFINE b == handler[h].batch
    <2>1. /\ handler[h].pc = "batch" /\ AppendBatch(b)
          /\ handler' = [handler EXCEPT ![h] = IdleHandler]
          /\ acked' \in {acked, Max({acked, b})}
          /\ UNCHANGED dbVars /\ UNCHANGED <<dbVars, dispatch, publisher>> /\ ledger' = ledger
      BY <1>3 DEF PublishBatch, Ends, dbVars
    <2>2. StreamInv' /\ Carries /\ \A s \in RowsOf(b) : s <= delivered'
      BY <2>1, BatchKeeps
    <2>3. b \in 1..(acked + 1) /\ RowsOf(b) # {} /\ b \in 0..Batches
      BY <1>0, <2>1 DEF Inv, RequestsHoldRows, Request
    <2>4. acked' = acked \/ (acked' = acked + 1 /\ b = acked + 1)
      <3>1. Max({acked, b}) = IF acked >= b THEN acked ELSE b
        BY <1>0, <2>3, MaxOfTwo
      <3> QED BY <1>0, <2>1, <2>3, <3>1
    <2>5. acked' \in 0..Batches /\ acked' \in Nat /\ acked <= acked'
      BY <1>0, <2>3, <2>4
    <2>6. /\ handler' \in [Handler -> Request]
          /\ \A g \in Handler : handler'[g].pc # "idle" => handler'[g] = handler[g]
      BY <1>0, <2>1
    <2>7. \A c : RowsOf(c)' = RowsOf(c)
      BY <2>1 DEF RowsOf
    <2>8. RequestsInOrder'
      <3>1. delivered' \in Nat
        BY <2>2 DEF StreamInv, RedisType
      <3>2. \A g \in Handler : handler'[g].pc = "batch" =>
               handler[g].pc = "batch" /\ handler'[g].batch = handler[g].batch
        BY <2>6
      <3>3. \A s \in DOMAIN ledger : Callback(s) /\ ledger[s].batch <= acked' =>
               ledger[s].batch <= acked \/ s <= delivered'
        <4> SUFFICES ASSUME NEW s \in DOMAIN ledger, ledger[s].batch <= acked', ~(ledger[s].batch <= acked)
                     PROVE  s <= delivered'
          OBVIOUS
        <4>1. ledger[s].batch \in Nat
          <5>1. ledger[s] \in Row
            BY <1>0
          <5> QED BY <1>0, <5>1 DEF Row
        <4>2. ledger[s].batch = b
          BY <1>0, <2>4, <4>1
        <4>3. s \in RowsOf(b)
          BY <4>2 DEF RowsOf
        <4> QED BY <2>2, <4>3
      <3> QED BY <2>1, <2>2, <3>1, <3>2, <3>3, RequestsKept
    <2>9. RequestsHoldRows'
      <3> SUFFICES ASSUME NEW g \in Handler, handler'[g].pc # "idle"
                   PROVE  /\ handler[g].batch \in 1..(acked' + 1) /\ RowsOf(handler[g].batch) # {}
                          /\ handler[g].pc = "pred" =>
                               /\ handler[g].pred \in DOMAIN ledger
                               /\ ledger[handler[g].pred].kind = "cancel"
                               /\ \A s \in RowsOf(handler[g].batch) : handler[g].pred < s
        BY <2>1, <2>6 DEF RequestsHoldRows, RowsOf
      <3>1. handler[g].pc # "idle"
        BY <2>6
      <3>2. handler[g].batch \in 1..(acked + 1)
        BY <3>1 DEF Inv, RequestsHoldRows
      <3>3. handler[g].batch \in 1..(acked' + 1)
        BY <1>0, <2>5, <3>2
      <3> QED BY <3>1, <3>3 DEF Inv, RequestsHoldRows
    <2>10. BatchesWhole'
      <3>1. \A c \in 1..Batches : RowsOf(c) # {} =>
              c <= acked' + 1 /\ \E m \in DOMAIN ledger : RowsOf(c) = m..(m + BatchRows - 1)
        BY <1>0, <2>5 DEF Inv, BatchesWhole
      <3>2. \A c \in 1..acked' : RowsOf(c) # {}
        BY <1>0, <2>3, <2>4 DEF Inv, BatchesWhole
      <3> QED BY <2>1, <2>7, <3>1, <3>2 DEF Inv, BatchesWhole, Callback
    <2>11. RowsCounted'
      <3>1. CASE acked' = acked
        BY <2>1, <3>1, RowsUntouched DEF dbVars
      <3>2. CASE acked' = acked + 1 /\ b = acked + 1
        <4>1. RowsOf(acked + 1) # {}
          BY <2>3, <3>2
        <4>2. RowsOf(acked + 2) = {}
          <5>1. \A s \in DOMAIN ledger : ledger[s].batch # acked + 2
            <6> SUFFICES ASSUME NEW s \in DOMAIN ledger, ledger[s].batch = acked + 2 PROVE FALSE
              OBVIOUS
            <6>1. ledger[s] \in Row
              BY <1>0
            <6>2. acked + 2 \in 1..Batches
              BY <1>0, <6>1 DEF Row
            <6>3. RowsOf(acked + 2) # {}
              BY DEF RowsOf
            <6> QED BY <1>0, <6>2, <6>3 DEF Inv, BatchesWhole
          <5> QED BY <5>1 DEF RowsOf
        <4>3. BatchesBegun = acked + 1
          BY <4>1 DEF BatchesBegun
        <4>4. acked' + 1 = acked + 2
          BY <1>0, <3>2
        <4>5. RowsOf(acked + 1)' = {}
          BY <2>1, <4>2, <4>4 DEF RowsOf
        <4>6. BatchesBegun' = acked + 1
          BY <3>2, <4>5 DEF BatchesBegun
        <4>7. CallbackRows' = CallbackRows
          BY <2>1 DEF CallbackRows, Callback
        <4> QED BY <4>3, <4>6, <4>7 DEF Inv, RowsCounted
      <3> QED BY <2>4, <3>1, <3>2
    <2>12. \A g \in Handler : handler'[g].pc # "idle" => handler[g].pc # "idle"
      BY <2>6
    <2> QED BY <2>1, <2>2, <2>5, <2>6, <2>8, <2>9, <2>10, <2>11, <2>12, RequestMoves
  <1> QED BY <1>1, <1>2, <1>3

\* The TTL runs out.
LEMMA ExpireStep ==
  ASSUME Inv, Expire
  PROVE  Inv'
  <1>1. /\ UNCHANGED dbVars /\ ledger' = ledger /\ acked' = acked /\ handler' = handler
        /\ UNCHANGED <<dbVars, dispatch, publisher>>
    BY DEF Expire, dbVars, writerVars
  <1>2. StreamInv' /\ Carries
    BY ExpireKeeps
  <1>3. delivered' \in Nat
    BY <1>2 DEF StreamInv, RedisType
  <1>4. RequestsInOrder' /\ RequestsHoldRows'
    BY <1>1, <1>2, <1>3, RequestsUntouched
  <1>5. BatchesWhole' /\ RowsCounted'
    BY <1>1, RowsUntouched DEF dbVars
  <1>6. handler' \in [Handler -> Request] /\ acked' \in 0..Batches
    BY <1>1 DEF Inv, TypeInv
  <1> QED BY <1>1, <1>2, <1>4, <1>5, <1>6, RequestMoves

\* The ledger, the hash, the entries of the stream and the requests in flight agree in
\* every state, whatever the publishers, the requests and Redis do in between.
THEOREM PublicationInvariance == Spec => []Inv
  <1>1. Init => Inv
    BY InitInv
  <1>2. Inv /\ [Next]_vars => Inv'
    <2> SUFFICES ASSUME Inv, [Next]_vars PROVE Inv'
      OBVIOUS
    <2>1. ASSUME NEW p \in Publisher,
                 \/ WorkerAdmits(p) \/ PrepareAdmission(p) \/ PublishOpen(p) \/ ConfirmAdmission(p)
                 \/ AdmissionFails(p) \/ PublishAgain(p) \/ PublicationFails(p)
          PROVE  Inv'
      BY <2>1, AdmissionSteps
    <2>2. ASSUME NEW p \in Publisher,
                 \/ RequestCancel(p) \/ Terminate(p) \/ LoadRunEvent(p) \/ PublishRunEvent(p)
                 \/ PublishEnd(p)
          PROVE  Inv'
      BY <2>2, RunEventSteps
    <2>3. ASSUME NEW h \in Handler, PersistCallback(h)
          PROVE  Inv'
      BY <2>3, PersistCallbackStep
    <2>4. ASSUME NEW h \in Handler, PublishPredecessor(h) \/ PublishBatch(h) \/ CallbackFails(h)
          PROVE  Inv'
      BY <2>4, RequestSteps
    <2>5. CASE Expire
      BY <2>5, ExpireStep
    <2>6. CASE UNCHANGED vars
      <3>1. /\ UNCHANGED dbVars /\ UNCHANGED redisVars /\ ledger' = ledger /\ acked' = acked
            /\ handler' = handler /\ UNCHANGED <<dbVars, dispatch, publisher>>
        BY <2>6 DEF vars, dbVars, writerVars
      <3>2. StreamInv' /\ Carries
        BY <3>1, StreamUntouched
      <3>3. delivered' \in Nat
        BY <3>2 DEF StreamInv, RedisType
      <3>4. RequestsInOrder' /\ RequestsHoldRows'
        BY <3>1, <3>2, <3>3, RequestsUntouched
      <3>5. BatchesWhole' /\ RowsCounted'
        BY <3>1, RowsUntouched DEF dbVars
      <3>6. handler' \in [Handler -> Request] /\ acked' \in 0..Batches
        BY <3>1 DEF Inv, TypeInv
      <3> QED BY <3>1, <3>2, <3>4, <3>5, <3>6, RequestMoves
    <2> QED BY <2>1, <2>2, <2>3, <2>4, <2>5, <2>6 DEF Next, Write
  <1> QED BY <1>1, <1>2, PTL DEF Spec

\* For every retention, number of requests and publishers, the terminal event of the stream
\* as first created follows every callback row and is followed by stream.end alone.
THEOREM TerminalComesLast == Spec => []TerminalIsLast
  <1>1. Inv => TerminalIsLast
    BY DEF Inv
  <1> QED BY <1>1, PublicationInvariance, PTL

\* The run event before a batch is never refused with 'stream_callback_pending': every
\* callback row before it belongs to an acknowledged batch.
THEOREM PredecessorAccepted == Spec => []PredecessorNeverPending
  <1>1. Inv => PredecessorNeverPending
    <2> SUFFICES ASSUME Inv, NEW h \in Handler, handler[h].pc = "pred", phase = "open", Original(Len(log))
                 PROVE  CancelAccepted(handler[h].pred)
      BY DEF PredecessorNeverPending
    <2> DEFINE r == handler[h].pred
               b == handler[h].batch
    <2>0. /\ ledger \in Seq(Row) /\ DOMAIN ledger = 1..Len(ledger) /\ Len(ledger) \in Nat
          /\ delivered \in Nat /\ acked \in Nat /\ acked \in 0..Batches /\ Batches \in Nat
      BY LenProperties, PublicationAssumption DEF Inv, TypeInv
    <2>1. /\ r \in DOMAIN ledger /\ b \in 1..(acked + 1) /\ RowsOf(b) # {}
          /\ \A s \in RowsOf(b) : r < s
      BY DEF Inv, RequestsHoldRows
    <2>2. PICK s \in RowsOf(b) : TRUE
      BY <2>1
    <2>3. s \in DOMAIN ledger /\ ledger[s].batch = b /\ r < s
      BY <2>1 DEF RowsOf
    <2>4. ASSUME NEW t \in 1..(r - 1), Callback(t)
          PROVE  t <= delivered
      <3>1. t \in DOMAIN ledger /\ t < s /\ t < r /\ t \in Nat
        BY <2>0, <2>1, <2>3
      <3>2. Callback(s)
        BY <2>1, <2>3 DEF Inv, RunEventsOnce
      <3>3. ledger[t].batch <= b
        BY <2>3, <2>4, <3>1, <3>2 DEF Inv, BatchesWhole
      <3>4. ledger[t].batch # b
        <4>1. ledger[t].batch = b => t \in RowsOf(b)
          BY <3>1 DEF RowsOf
        <4> QED BY <2>0, <2>1, <3>1, <4>1
      <3>5. ledger[t].batch \in Nat
        <4>1. ledger[t] \in Row
          BY <2>0, <3>1
        <4> QED BY <2>0, <4>1 DEF Row
      <3>6. ledger[t].batch <= acked
        BY <2>0, <2>1, <3>3, <3>4, <3>5
      <3> QED BY <2>4, <3>1, <3>6 DEF Inv, RequestsInOrder
    <2>5. r \in 1..(Len(ledger) + 1)
      BY <2>0, <2>1
    <2>6. CallbacksDelivered(r)
      BY <2>0, <2>4, <2>5, CallbacksDeliveredMeans
    <2> QED BY <2>6 DEF CancelAccepted
  <1> QED BY <1>1, PublicationInvariance, PTL

-----------------------------------------------------------------------------
(* The publishers implement StreamContract: with the rows and the entries    *)
(* for the contract's own, every step is a step of the contract or invisible *)
(* to it.                                                                    *)

Kinds == [s \in DOMAIN ledger |-> ledger[s].kind]

\* What the contract does not see.
LEMMA Unseen ==
  ASSUME UNCHANGED <<status, authority, ledger, log, first, expiries>>
  PROVE  UNCHANGED Promised!streamVars
  BY DEF Promised!streamVars, Promised!dbVars, Promised!redisVars

\* XADD is the contract's.
LEMMA ContractAdd ==
  ASSUME NEW es, XAdd(es), UNCHANGED dbVars, expiries' = expiries
  PROVE  Promised!XAdd(es)
  BY DEF XAdd, Promised!XAdd, Promised!dbVars, dbVars, Max, Promised!Max

\* The rows the contract calls published, in terms of the hash.
LEMMA PublishedRows ==
  ASSUME Inv, phase = "open"
  PROVE  /\ Promised!Exists /\ ~Promised!Settled
         /\ \A t \in Promised!Published :
              \/ t = 0
              \/ /\ t \in DOMAIN ledger /\ Callback(t) /\ t <= delivered
                 /\ \A s \in RowsOf(ledger[t].batch) : s <= delivered
              \/ t \in DOMAIN ledger /\ ledger[t].kind = "cancel" /\ t = last_event
         /\ Promised!Original(Len(log)) => Original(Len(log))
         /\ Original(Len(log)) =>
              \A t \in DOMAIN ledger : Callback(t) /\ t <= delivered => t \in Promised!Published
  <1>0. log \in Seq(LogEntry) /\ DOMAIN log = 1..Len(log) /\ Len(log) \in Nat
    BY LenProperties DEF Inv, TypeInv
  <1>1. \A i \in Promised!Current : i \in DOMAIN log /\ Present(i)
    BY DEF Promised!Current, Present
  <1>2. \A i \in DOMAIN log : Present(i) => i \in Promised!Current
    BY DEF Promised!Current, Present
  <1>3. Promised!Exists
    BY DEF Inv, HashHasStream, Exists, Promised!Exists
  <1>4. \A i \in Promised!Current :
          /\ log[i].kind = "callback" => \A s \in RowsOf(ledger[log[i].seq].batch) : s <= delivered
          /\ log[i].kind = "cancel" => log[i].seq = last_event
          /\ log[i].kind \notin {"terminal", "end"}
    BY <1>1 DEF Inv, HashAndEntries
  <1>5. ~Promised!Settled
    BY <1>4 DEF Promised!Settled
  <1>6. ASSUME NEW t \in Promised!Published
        PROVE  \/ t = 0
               \/ /\ t \in DOMAIN ledger /\ Callback(t) /\ t <= delivered
                  /\ \A s \in RowsOf(ledger[t].batch) : s <= delivered
               \/ t \in DOMAIN ledger /\ ledger[t].kind = "cancel" /\ t = last_event
    <2>1. PICK i \in Promised!Current : t = log[i].seq
      BY DEF Promised!Published
    <2>2. log[i] \in LogEntry /\ i \in DOMAIN log
      BY <1>0, <1>1
    <2>3. log[i].kind \in {"open", "callback", "cancel"}
      BY <1>4, <2>2 DEF LogEntry
    <2>4. log[i].kind = "open" => t = 0
      BY <2>1, <2>2 DEF Inv, EntriesCommitted
    <2>5. log[i].kind # "open" => t \in DOMAIN ledger /\ ledger[t].kind = log[i].kind
      BY <2>1, <2>2, <2>3 DEF Inv, EntriesCommitted
    <2>6. log[i].kind = "callback" => t \in RowsOf(ledger[t].batch)
      BY <2>5 DEF RowsOf
    <2> QED BY <1>4, <2>1, <2>3, <2>4, <2>5, <2>6 DEF Callback
  <1>7. Promised!Original(Len(log)) => Original(Len(log))
    BY DEF Promised!Original, Original
  <1>8. ASSUME Original(Len(log)), NEW t \in DOMAIN ledger, Callback(t), t <= delivered
        PROVE  t \in Promised!Published
    <2>1. PICK i \in DOMAIN log : log[i].seq = t
      BY <1>8 DEF Inv, FirstStreamComplete
    <2>2. \A k \in (i + 1)..Len(log) : k \in 2..Len(log)
      BY <1>0
    <2>3. Present(i)
      BY <1>8, <2>2 DEF Original, Present
    <2> QED BY <1>2, <2>1, <2>3 DEF Promised!Published
  <1> QED BY <1>3, <1>5, <1>6, <1>7, <1>8

\* A run event is published as the contract says.
LEMMA RunEventContracted ==
  ASSUME Inv, NEW r \in DOMAIN ledger, ~Callback(r), AppendRunEvent(r), UNCHANGED dbVars
  PROVE  [Promised!NextStream]_Promised!streamVars
  <1>0. /\ ledger \in Seq(Row) /\ DOMAIN ledger = 1..Len(ledger) /\ Len(ledger) \in Nat
        /\ delivered \in Nat /\ last_event \in Nat /\ r \in Nat /\ r # 0
        /\ BatchRows \in Nat \ {0}
    BY LenProperties, PublicationAssumption DEF Inv, TypeInv
  <1>1. CASE UNCHANGED redisVars
    BY <1>1, Unseen DEF redisVars, dbVars
  <1>2. CASE /\ phase = "open" /\ CallbacksDelivered(r) /\ expiries' = expiries
             /\ XAdd(<<Entry(ledger[r].kind, r)>>)
             /\ ledger[r].kind = "cancel" => last_event # r
    <2>1. /\ Promised!Exists /\ ~Promised!Settled
          /\ \A t \in Promised!Published :
               \/ t = 0
               \/ /\ t \in DOMAIN ledger /\ Callback(t) /\ t <= delivered
                  /\ \A s \in RowsOf(ledger[t].batch) : s <= delivered
               \/ t \in DOMAIN ledger /\ ledger[t].kind = "cancel" /\ t = last_event
          /\ Promised!Original(Len(log)) => Original(Len(log))
          /\ Original(Len(log)) =>
               \A t \in DOMAIN ledger : Callback(t) /\ t <= delivered => t \in Promised!Published
      BY <1>2, PublishedRows
    <2>2. \A t \in 1..(r - 1) : Callback(t) => t <= delivered
      <3>1. r \in 1..(Len(ledger) + 1)
        BY <1>0
      <3> QED BY <1>0, <1>2, <3>1, CallbacksDeliveredMeans
    <2>3. r \notin Promised!Published
      <3>1. ledger[r].kind = "cancel" \/ ledger[r].kind = "terminal"
        <4>1. ledger[r] \in Row
          BY ONLY <1>0, r \in DOMAIN ledger
        <4> QED BY <4>1 DEF Row, Callback
      <3> QED BY <1>0, <1>2, <2>1, <3>1
    <2>4. \A s \in Promised!CallbackRows : s \in DOMAIN ledger /\ Callback(s)
      BY DEF Promised!CallbackRows, Callback
    <2>5. ASSUME Original(Len(log)), NEW s \in Promised!CallbackRows, s < r
          PROVE  s \in Promised!Published
      <3>1. s \in 1..(r - 1) /\ Callback(s)
        BY <1>0, <2>4, <2>5
      <3> QED BY <2>1, <2>2, <2>4, <2>5, <3>1
    <2>6. ASSUME Original(Len(log)), NEW t \in Promised!Published
          PROVE  t < r
      <3>1. t # r
        BY <2>3
      <3>2. CASE t = 0
        BY <1>0, <3>2
      <3>3. CASE t \in DOMAIN ledger /\ Callback(t) /\ t <= delivered
        <4>1. ledger[r].kind = "terminal" => r = Len(ledger)
          BY DEF Inv, RunEventsOnce
        <4>2. ledger[r].kind = "cancel" => ~(r < delivered)
          BY <1>2, <2>6 DEF Inv, FirstStreamComplete
        <4>3. ledger[r].kind = "cancel" \/ ledger[r].kind = "terminal"
          <5>1. ledger[r] \in Row
            BY ONLY <1>0, r \in DOMAIN ledger
          <5> QED BY <5>1 DEF Row, Callback
        <4> QED BY <1>0, <3>1, <3>3, <4>1, <4>2, <4>3
      <3>4. CASE t \in DOMAIN ledger /\ ledger[t].kind = "cancel" /\ t = last_event
        <4>1. ledger[r].kind = "terminal"
          <5>1. ledger[r].kind # "cancel"
            BY <3>1, <3>4 DEF Inv, RunEventsOnce, Callback
          <5>2. ledger[r] \in Row
            BY ONLY <1>0, r \in DOMAIN ledger
          <5> QED BY <5>1, <5>2 DEF Row, Callback
        <4>2. r = Len(ledger)
          BY <4>1 DEF Inv, RunEventsOnce
        <4>3. last_event \in 1..Len(ledger) /\ last_event # Len(ledger)
          BY <1>0, <3>1, <3>4, <4>2
        <4>4. \A x, n \in Nat : x \in 1..n /\ x # n => x < n
          OBVIOUS
        <4>5. last_event < Len(ledger)
          BY ONLY <1>0, <4>3, <4>4
        <4> QED BY <3>4, <4>2, <4>5
      <3> QED BY <2>1, <3>2, <3>3, <3>4
    <2> DEFINE es == [i \in 1..1 |-> Promised!EntryOf(r + i - 1)]
    <2>7. es = <<Entry(ledger[r].kind, r)>>
      <3>1. Promised!EntryOf(r + 1 - 1) = Entry(ledger[r].kind, r)
        BY <1>0 DEF Promised!EntryOf, Promised!Entry, Entry
      <3>2. 1..1 = {1}
        OBVIOUS
      <3> QED BY <3>1, <3>2
    <2> HIDE DEF es
    <2>8. Promised!XAdd(es)
      BY <1>2, <2>7, ContractAdd
    <2>9. r + 1 - 1 = r /\ r..r = {r} /\ 1 \in 1..BatchRows /\ ~(1 > 1)
      BY <1>0
    <2>10. Promised!Publish
      <3>1. r \in DOMAIN [s \in DOMAIN ledger |-> ledger[s].kind] /\ r + 1 - 1 \in DOMAIN [s \in DOMAIN ledger |-> ledger[s].kind]
        BY <2>9
      <3>2. r..(r + 1 - 1) \cap Promised!Published = {}
        BY <2>3, <2>9
      <3>3. Promised!Original(Len(log)) =>
              /\ \A t \in Promised!CallbackRows : t < r => t \in Promised!Published
              /\ \A t \in Promised!Published : t < r
        BY <2>1, <2>5, <2>6
      <3> QED BY <2>1, <2>8, <2>9, <3>1, <3>2, <3>3 DEF Promised!Publish, es
    <2> QED BY <2>10 DEF Promised!NextStream
  <1>3. CASE AppendTerminal(r) /\ ledger[r].kind = "terminal"
    BY <1>1, <1>2, <1>3 DEF AppendTerminal, TerminalAccepted
  <1>4. CASE AppendCancel(r) /\ ledger[r].kind = "cancel"
    BY <1>1, <1>2, <1>4 DEF AppendCancel, CancelAccepted
  <1>5. ledger[r].kind = "cancel" \/ ledger[r].kind = "terminal"
    <2>1. ledger[r] \in Row
      BY ONLY <1>0, r \in DOMAIN ledger
    <2> QED BY <2>1 DEF Row, Callback
  <1> QED BY <1>3, <1>4, <1>5 DEF AppendRunEvent

\* So is a batch: every callback row before it is, and no later row is.
LEMMA BatchContracted ==
  ASSUME Inv, NEW h \in Handler, handler[h].pc = "batch", AppendBatch(handler[h].batch),
         UNCHANGED dbVars
  PROVE  [Promised!NextStream]_Promised!streamVars
  <1> DEFINE b == handler[h].batch
             lo == Min(RowsOf(b))
             hi == Max(RowsOf(b))
  <1>0. /\ ledger \in Seq(Row) /\ DOMAIN ledger = 1..Len(ledger) /\ Len(ledger) \in Nat
        /\ delivered \in Nat /\ last_event \in Nat /\ acked \in Nat
        /\ BatchRows \in Nat \ {0} /\ Batches \in Nat
    BY LenProperties, PublicationAssumption DEF Inv, TypeInv
  <1>1. b \in 1..Batches /\ RowsOf(b) # {} /\ b <= acked + 1
    BY DEF Inv, TypeInv, Request, RequestsHoldRows
  <1>2. RowsOf(b) = lo..hi /\ lo \in DOMAIN ledger /\ hi \in DOMAIN ledger /\ hi = lo + BatchRows - 1
    BY <1>0, <1>1, BatchInterval DEF Inv
  <1>3. lo \in Nat /\ hi \in Nat /\ lo >= 1 /\ lo <= hi
    BY <1>0, <1>2
  <1>4. \A s \in RowsOf(b) : s \in DOMAIN ledger /\ Callback(s) /\ ledger[s].batch = b
    BY <1>1 DEF RowsOf, Inv, RunEventsOnce
  <1>5. CASE UNCHANGED redisVars
    BY <1>5, Unseen DEF redisVars, dbVars
  <1>6. CASE /\ phase = "open" /\ ~BatchDelivered(b) /\ expiries' = expiries
             /\ XAdd([i \in 1..BatchRows |-> Entry("callback", Min(RowsOf(b)) + i - 1)])
    <2>1. /\ Promised!Exists /\ ~Promised!Settled
          /\ \A t \in Promised!Published :
               \/ t = 0
               \/ /\ t \in DOMAIN ledger /\ Callback(t) /\ t <= delivered
                  /\ \A s \in RowsOf(ledger[t].batch) : s <= delivered
               \/ t \in DOMAIN ledger /\ ledger[t].kind = "cancel" /\ t = last_event
          /\ Promised!Original(Len(log)) => Original(Len(log))
          /\ Original(Len(log)) =>
               \A t \in DOMAIN ledger : Callback(t) /\ t <= delivered => t \in Promised!Published
      BY <1>6, PublishedRows
    <2>2. delivered < hi
      BY <1>0, <1>3, <1>6 DEF BatchDelivered
    <2> HIDE DEF b, lo, hi
    <2>3. ASSUME NEW t \in Promised!Published
          PROVE  t \notin RowsOf(b)
      <3> SUFFICES ASSUME t \in RowsOf(b) PROVE FALSE
        OBVIOUS
      <3>1. t \in DOMAIN ledger /\ Callback(t) /\ ledger[t].batch = b /\ t # 0
        BY <1>0, <1>4
      <3>2. \A s \in RowsOf(b) : s <= delivered
        BY <2>1, <3>1 DEF Callback
      <3>3. hi <= delivered
        BY <1>2, <1>3, <3>2
      <3> QED BY <1>0, <1>3, <2>2, <3>3
    <2>4. ASSUME NEW t \in Promised!Published
          PROVE  t < lo
      <3>1. CASE t = 0
        BY <1>3, <3>1
      <3>2. CASE t \in DOMAIN ledger /\ Callback(t) /\ t <= delivered
        BY <1>0, <1>2, <1>3, <2>2, <2>3, <3>2
      <3>3. CASE t \in DOMAIN ledger /\ ledger[t].kind = "cancel" /\ t = last_event
        <4>1. t \in Nat /\ t # 0
          BY <1>0, <3>3
        <4>2. \A s \in 1..(t - 1) : Callback(s) => s <= delivered
          BY <3>3, <4>1 DEF Inv, HashAndRows
        <4>3. Callback(hi) /\ hi \in Nat /\ hi >= 1
          BY <1>2, <1>3, <1>4
        <4>4. ~(hi < t)
          BY <1>0, <2>2, <4>1, <4>2, <4>3
        <4> QED BY <1>2, <1>3, <2>3, <4>1, <4>4
      <3> QED BY <2>1, <3>1, <3>2, <3>3
    <2>5. \A s \in Promised!CallbackRows : s \in DOMAIN ledger /\ Callback(s)
      BY DEF Promised!CallbackRows, Callback
    <2>6. ASSUME Original(Len(log)), NEW s \in Promised!CallbackRows, s < lo
          PROVE  s \in Promised!Published
      <3>0. s \in DOMAIN ledger /\ Callback(s) /\ s \in Nat
        BY <1>0, <2>5
      <3>1. ledger[s].batch <= b
        BY <1>2, <1>3, <1>4, <2>6, <3>0 DEF Inv, BatchesWhole
      <3>2. ledger[s].batch # b
        BY <1>2, <1>3, <2>6, <3>0 DEF RowsOf
      <3>3. ledger[s].batch \in Nat
        <4>1. ledger[s] \in Row
          BY ONLY <1>0, <3>0
        <4> QED BY <1>0, <4>1 DEF Row
      <3>4. ledger[s].batch <= acked
        BY <1>0, <1>1, <3>1, <3>2, <3>3
      <3>5. s <= delivered
        BY <1>6, <2>6, <3>0, <3>4 DEF Inv, RequestsInOrder
      <3> QED BY <2>1, <2>6, <3>0, <3>5
    <2> DEFINE es == [i \in 1..BatchRows |-> Promised!EntryOf(lo + i - 1)]
    <2>7. es = [i \in 1..BatchRows |-> Entry("callback", Min(RowsOf(b)) + i - 1)]
      <3>1. ASSUME NEW i \in 1..BatchRows
            PROVE  Promised!EntryOf(lo + i - 1) = Entry("callback", lo + i - 1)
        <4>1. lo + i - 1 \in lo..hi
          BY <1>0, <1>2, <1>3
        <4>2. lo + i - 1 \in DOMAIN ledger /\ ledger[lo + i - 1].kind = "callback"
          BY <1>2, <1>4, <4>1 DEF Callback
        <4> QED BY <4>2 DEF Promised!EntryOf, Promised!Entry, Entry
      <3> QED BY <3>1 DEF lo
    <2> HIDE DEF es
    <2>8. Promised!XAdd(es)
      BY <1>6, <2>7, ContractAdd DEF b
    <2>9. Promised!Publish
      <3>1. lo \in DOMAIN [s \in DOMAIN ledger |-> ledger[s].kind]
            /\ lo + BatchRows - 1 \in DOMAIN [s \in DOMAIN ledger |-> ledger[s].kind]
            /\ BatchRows \in 1..BatchRows
        BY <1>0, <1>2
      <3>2. lo..(lo + BatchRows - 1) \cap Promised!Published = {}
        BY <1>2, <2>3
      <3>3. lo..(lo + BatchRows - 1) \subseteq Promised!CallbackRows
        BY <1>2, <1>4 DEF Promised!CallbackRows, Callback
      <3>4. Promised!Original(Len(log)) =>
              /\ \A t \in Promised!CallbackRows : t < lo => t \in Promised!Published
              /\ \A t \in Promised!Published : t < lo
        BY <2>1, <2>4, <2>6
      <3> QED BY <2>1, <2>8, <3>1, <3>2, <3>3, <3>4 DEF Promised!Publish, es
    <2> QED BY <2>9 DEF Promised!NextStream
  <1> QED BY <1>5, <1>6 DEF AppendBatch, BatchAccepted

\* The contract counts rows as FiniteSets does.
LEMMA SameCardinality ==
  ASSUME NEW S
  PROVE  Promised!Cardinality(S) = Cardinality(S)
  BY DEF Promised!Cardinality, Cardinality

\* The rows the contract sees after rows were added.
LEMMA KindsGrow ==
  ASSUME ledger \in Seq(Row), NEW n \in Nat, ledger' \in Seq(Row), Len(ledger') = Len(ledger) + n,
         NEW k \in {"callback", "cancel", "terminal"},
         \A s \in 1..Len(ledger) : ledger'[s] = ledger[s],
         \A s \in (Len(ledger) + 1)..Len(ledger') : ledger'[s].kind = k
  PROVE  Kinds' = Kinds \o [i \in 1..n |-> k]
  <1> DEFINE K == {"callback", "cancel", "terminal"}
             cs == [i \in 1..n |-> k]
  <1>0. /\ DOMAIN ledger = 1..Len(ledger) /\ Len(ledger) \in Nat
        /\ DOMAIN ledger' = 1..Len(ledger') /\ Len(ledger') \in Nat
    BY LenProperties
  <1>1. Kinds \in Seq(K) /\ Len(Kinds) = Len(ledger) /\ \A i \in 1..Len(ledger) : Kinds[i] = ledger[i].kind
    <2>1. \A s \in DOMAIN ledger : ledger[s].kind \in K
      <3>1. \A s \in DOMAIN ledger : ledger[s] \in Row
        BY <1>0
      <3> QED BY <3>1 DEF Row
    <2> QED BY <1>0, <2>1 DEF Kinds
  <1>2. Kinds' \in Seq(K) /\ Len(Kinds') = Len(ledger') /\ \A i \in 1..Len(ledger') : Kinds'[i] = ledger'[i].kind
    <2>1. \A s \in DOMAIN ledger' : ledger'[s].kind \in K
      <3>1. \A s \in DOMAIN ledger' : ledger'[s] \in Row
        BY <1>0
      <3> QED BY <3>1 DEF Row
    <2> QED BY <1>0, <2>1 DEF Kinds
  <1>3. cs \in Seq(K) /\ Len(cs) = n /\ \A i \in 1..n : cs[i] = k
    OBVIOUS
  <1> HIDE DEF cs, K
  <1>4. /\ Kinds \o cs \in Seq(K) /\ Len(Kinds \o cs) = Len(ledger) + n
        /\ \A i \in 1..(Len(ledger) + n) :
             (Kinds \o cs)[i] = IF i <= Len(ledger) THEN Kinds[i] ELSE cs[i - Len(ledger)]
    <2>1. /\ Kinds \o cs \in Seq(K) /\ Len(Kinds \o cs) = Len(Kinds) + Len(cs)
          /\ \A i \in 1..(Len(Kinds) + Len(cs)) :
               (Kinds \o cs)[i] = IF i <= Len(Kinds) THEN Kinds[i] ELSE cs[i - Len(Kinds)]
      BY <1>1, <1>3, ConcatProperties
    <2> QED BY <1>1, <1>3, <2>1
  <1>5. ASSUME NEW i \in 1..Len(Kinds')
        PROVE  Kinds'[i] = (Kinds \o cs)[i]
    <2>1. i \in 1..(Len(ledger) + n) /\ i \in 1..Len(ledger')
      BY <1>2
    <2>2. CASE i <= Len(ledger)
      <3>1. i \in 1..Len(ledger)
        BY <1>0, <2>1, <2>2
      <3> QED BY <1>1, <1>2, <1>4, <2>1, <2>2, <3>1
    <2>3. CASE ~(i <= Len(ledger))
      <3>1. i \in (Len(ledger) + 1)..Len(ledger') /\ i - Len(ledger) \in 1..n
        BY <1>0, <2>1, <2>3
      <3> QED BY <1>2, <1>3, <1>4, <2>1, <2>3, <3>1
    <2> QED BY <2>2, <2>3
  <1>6. Kinds' = Kinds \o cs
    BY <1>2, <1>4, <1>5, SeqEqual
  <1> QED BY <1>6 DEF cs

\* A new batch stays within the rows of the run.
LEMMA BatchCommitContracted ==
  ASSUME Inv, NEW h \in Handler, PersistCallback(h)
  PROVE  [Promised!NextStream]_Promised!streamVars
  <1> DEFINE b == acked + 1
             es == [i \in 1..BatchRows |-> [kind |-> "callback", batch |-> b]]
  <1>0. /\ ledger \in Seq(Row) /\ DOMAIN ledger = 1..Len(ledger) /\ Len(ledger) \in Nat
        /\ acked \in Nat /\ BatchRows \in Nat \ {0} /\ Batches \in Nat
    BY LenProperties, PublicationAssumption DEF Inv, TypeInv
  <1>1. /\ b <= Batches /\ status = "running" /\ authority = "confirmed"
        /\ ledger' = (IF RowsOf(b) = {} THEN ledger \o es ELSE ledger)
        /\ UNCHANGED redisVars /\ status' = status /\ authority' = authority /\ acked' = acked
    BY DEF PersistCallback, Predecessor
  <1>2. CASE RowsOf(b) # {}
    BY <1>1, <1>2, Unseen DEF redisVars
  <1>3. CASE RowsOf(b) = {}
    <2>1. /\ Len(ledger') = Len(ledger) + BatchRows /\ ledger' \in Seq(Row)
          /\ \A s \in 1..Len(ledger) : ledger'[s] = ledger[s]
          /\ \A s \in (Len(ledger) + 1)..Len(ledger') : ledger'[s].kind = "callback"
      <3>1. /\ Len(ledger') = Len(ledger) + BatchRows /\ ledger' \in Seq(Row)
            /\ \A s \in DOMAIN ledger : ledger'[s] = ledger[s]
            /\ \A s \in (Len(ledger) + 1)..Len(ledger') : ledger'[s] = [kind |-> "callback", batch |-> acked + 1]
        BY <1>1, <1>3, FreshBatch
      <3> QED BY <1>0, <3>1
    <2>4. Kinds' = Kinds \o [i \in 1..BatchRows |-> "callback"]
      BY <1>0, <2>1, KindsGrow
    <2>5. Promised!CallbackRows = CallbackRows
      BY DEF Promised!CallbackRows, CallbackRows, Callback
    <2>6. Cardinality(Promised!CallbackRows) = acked * BatchRows
      BY <1>3, <2>5 DEF Inv, RowsCounted, BatchesBegun
    <2>7. Promised!Cardinality(Promised!CallbackRows) + BatchRows <= Batches * BatchRows
      <3>1. \A m, n, k \in Nat : m + 1 <= n => m * k + k <= n * k
        <4> SUFFICES ASSUME NEW m \in Nat, NEW n \in Nat, NEW k \in Nat, m + 1 <= n
                     PROVE  m * k + k <= n * k
          OBVIOUS
        <4>1. PICK d \in Nat : n = (m + 1) + d
          <5>1. n - (m + 1) \in Nat /\ n = (m + 1) + (n - (m + 1))
            OBVIOUS
          <5> QED BY <5>1
        <4>2. n * k = (m + 1) * k + d * k
          BY <4>1
        <4>3. (m + 1) * k = m * k + k
          OBVIOUS
        <4>4. d * k \in Nat /\ m * k \in Nat
          OBVIOUS
        <4> QED BY <4>2, <4>3, <4>4
      <3>2. Promised!Cardinality(Promised!CallbackRows) = acked * BatchRows
        BY <2>6, SameCardinality
      <3> QED BY <1>0, <1>1, <3>1, <3>2
    <2>8. Promised!CommitCallbacks
      <3>1. BatchRows \in 1..BatchRows
        BY <1>0
      <3>2. ~(status \in Terminal) /\ (status \in Terminal)' = (status \in Terminal)
        BY <1>1 DEF Terminal
      <3>3. UNCHANGED <<log, first, expiries>>
        BY <1>1 DEF redisVars
      <3> QED BY <1>1, <2>4, <2>7, <3>1, <3>2, <3>3 DEF Promised!CommitCallbacks, Promised!redisVars, Kinds
    <2> QED BY <2>8 DEF Promised!NextStream
  <1> QED BY <1>2, <1>3

\* The transactions of the publishers.
LEMMA TransactionContracted ==
  ASSUME Inv, NEW p \in Publisher,
         \/ RequestCancel(p) \/ Terminate(p) \/ PrepareAdmission(p) \/ ConfirmAdmission(p)
         \/ LoadRunEvent(p)
  PROVE  [Promised!NextStream]_Promised!streamVars
  <1>0. /\ ledger \in Seq(Row) /\ DOMAIN ledger = 1..Len(ledger) /\ Len(ledger) \in Nat
        /\ authority \in {"none", "pending", "confirmed"} /\ status \in {"running"} \cup Terminal
        /\ "running" \notin Terminal /\ 0 \in 0..Batches
    BY LenProperties, PublicationAssumption DEF Inv, TypeInv, Terminal
  <1>1. ASSUME NEW k \in {"cancel", "terminal"}, ledger' = Append(ledger, [kind |-> k, batch |-> 0])
        PROVE  Kinds' = Append(Kinds, k)
    <2> DEFINE r == [kind |-> k, batch |-> 0]
    <2>1. r \in Row /\ r.kind = k
      BY <1>0 DEF Row
    <2> HIDE DEF r
    <2>2. /\ ledger' \in Seq(Row) /\ Len(ledger') = Len(ledger) + 1
          /\ \A s \in 1..Len(ledger) : ledger'[s] = ledger[s]
          /\ ledger'[Len(ledger) + 1] = r
      BY <1>0, <1>1, <2>1, AppendProperties DEF r
    <2>3. \A s \in (Len(ledger) + 1)..Len(ledger') : ledger'[s].kind = k
      BY <1>0, <2>1, <2>2
    <2>4. Kinds' = Kinds \o [i \in 1..1 |-> k]
      BY <1>0, <2>2, <2>3, KindsGrow
    <2>5. [i \in 1..1 |-> k] = <<k>>
      <3>1. 1..1 = {1}
        OBVIOUS
      <3> QED BY <3>1
    <2>6. Kinds \in Seq({"callback", "cancel", "terminal"})
      <3>1. \A s \in DOMAIN ledger : ledger[s] \in Row
        BY <1>0
      <3>2. \A s \in DOMAIN ledger : ledger[s].kind \in {"callback", "cancel", "terminal"}
        BY <3>1 DEF Row
      <3> QED BY <1>0, <3>2 DEF Kinds
    <2> QED BY <2>4, <2>5, <2>6, AppendIsConcat
  <1>2. CASE RequestCancel(p)
    <2>1. /\ status \in {"running", "cancelled"} /\ UNCHANGED redisVars /\ status' = status
          /\ authority' = (IF authority = "none" THEN "pending" ELSE authority)
          /\ ledger' = (IF \E s \in DOMAIN ledger : ledger[s].kind = "cancel" THEN ledger
                        ELSE Append(ledger, [kind |-> "cancel", batch |-> 0]))
      BY <1>2 DEF RequestCancel
    <2>2. CASE \E s \in DOMAIN ledger : ledger[s].kind = "cancel"
      <3>1. authority' = authority /\ ledger' = ledger
        BY <2>1, <2>2 DEF Inv, RowsFollowRun
      <3> QED BY <2>1, <3>1, Unseen DEF redisVars
    <2>3. CASE ~\E s \in DOMAIN ledger : ledger[s].kind = "cancel"
      <3>1. status = "running"
        BY <2>1, <2>3 DEF Inv, RowsFollowRun
      <3>2. Kinds' = Append(Kinds, "cancel")
        BY <1>1, <2>1, <2>3
      <3>3. ~Promised!Has("cancel")
        BY <2>3 DEF Promised!Has
      <3>4. Promised!CommitCancel
        BY <1>0, <2>1, <3>1, <3>2, <3>3 DEF Promised!CommitCancel, Promised!redisVars, redisVars, Kinds
      <3> QED BY <3>4 DEF Promised!NextStream
    <2> QED BY <2>2, <2>3
  <1>3. CASE Terminate(p)
    <2>1. PICK st \in Terminal : /\ status = "running" /\ status' = st
                                /\ ledger' = WithTerminalRow(ledger, st)
                                /\ UNCHANGED redisVars /\ authority' = authority
      BY <1>3 DEF Terminate
    <2>2. \A s \in DOMAIN ledger : ledger[s].kind # "terminal"
      BY <1>0, <2>1 DEF Inv, RunEventsOnce
    <2>3. ledger' = (IF authority = "none" THEN ledger ELSE Append(ledger, [kind |-> "terminal", batch |-> 0]))
      BY <2>1, <2>2 DEF WithTerminalRow
    <2>4. Kinds' = IF authority = "none" THEN Kinds ELSE Append(Kinds, "terminal")
      <3>1. authority = "none" => Kinds' = Kinds
        BY <2>3 DEF Kinds
      <3> QED BY <1>1, <2>3, <3>1
    <2>5. ~(status \in Terminal) /\ (status \in Terminal)' = TRUE
      BY <1>0, <2>1
    <2>6. Promised!CommitTerminal
      BY <2>1, <2>4, <2>5 DEF Promised!CommitTerminal, Promised!redisVars, redisVars, Kinds
    <2> QED BY <2>6 DEF Promised!NextStream
  <1>4. CASE PrepareAdmission(p) \/ ConfirmAdmission(p)
    <2>1. /\ UNCHANGED redisVars /\ status' = status /\ ledger' = ledger
          /\ \/ authority' = authority
             \/ authority = "none" /\ status \notin Terminal /\ authority' = "pending"
             \/ authority = "pending" /\ log # <<>> /\ authority' = "confirmed"
      <3>1. CASE PrepareAdmission(p)
        BY <3>1 DEF PrepareAdmission
      <3>2. CASE ConfirmAdmission(p)
        BY <1>0, <3>2 DEF ConfirmAdmission, Inv, AdmissionInOrder
      <3> QED BY <1>4, <3>1, <3>2
    <2>2. CASE authority' = authority
      BY <2>1, <2>2, Unseen DEF redisVars
    <2>3. CASE \/ authority = "none" /\ status \notin Terminal /\ authority' = "pending"
               \/ authority = "pending" /\ log # <<>> /\ authority' = "confirmed"
      <3>1. Promised!Authorize
        BY <2>1, <2>3 DEF Promised!Authorize, Promised!redisVars, redisVars
      <3> QED BY <3>1 DEF Promised!NextStream
    <2> QED BY <2>1, <2>2, <2>3
  <1>5. CASE LoadRunEvent(p)
    <2>1. /\ ledger' = WithTerminalRow(ledger, status) /\ UNCHANGED redisVars
          /\ status' = status /\ authority' = authority
      BY <1>5 DEF LoadRunEvent
    <2>2. ledger' = ledger
      BY <2>1 DEF WithTerminalRow, Inv, RowsFollowRun
    <2> QED BY <2>1, <2>2, Unseen DEF redisVars
  <1> QED BY <1>2, <1>3, <1>4, <1>5

\* Step by step, the publishers do what StreamContract allows: what StreamReader
\* relies on holds of them for every number of requests, publishers, rows and expiries.
THEOREM PublicationImplementsContract == Spec => ImplementsContract
  <1>1. Init => Promised!InitStream
    BY DEF Init, Promised!InitStream, Terminal
  <1>2. Inv /\ [Next]_vars => [Promised!NextStream]_Promised!streamVars
    <2> SUFFICES ASSUME Inv, [Next]_vars PROVE [Promised!NextStream]_Promised!streamVars
      OBVIOUS
    <2>1. ASSUME NEW p \in Publisher,
                 \/ WorkerAdmits(p) \/ AdmissionFails(p) \/ PublishAgain(p) \/ PublicationFails(p)
          PROVE  [Promised!NextStream]_Promised!streamVars
      BY <2>1, Unseen DEF WorkerAdmits, AdmissionFails, PublishAgain, PublicationFails, dbVars, redisVars
    <2>2. ASSUME NEW p \in Publisher,
                 \/ RequestCancel(p) \/ Terminate(p) \/ PrepareAdmission(p) \/ ConfirmAdmission(p)
                 \/ LoadRunEvent(p)
          PROVE  [Promised!NextStream]_Promised!streamVars
      BY <2>2, TransactionContracted
    <2>3. ASSUME NEW p \in Publisher, PublishOpen(p)
          PROVE  [Promised!NextStream]_Promised!streamVars
      <3>1. AppendOpen /\ UNCHANGED dbVars /\ authority # "none"
        BY <2>3 DEF PublishOpen, Inv, AdmissionInOrder
      <3>2. CASE UNCHANGED redisVars
        BY <3>1, <3>2, Unseen DEF redisVars, dbVars
      <3>3. CASE phase = "none" /\ XAdd(<<Entry("open", 0)>>) /\ expiries' = expiries
        <4>1. ~Promised!Exists
          BY <3>3 DEF Inv, HashHasStream, Exists, Promised!Exists
        <4>2. Promised!XAdd(<<Entry("open", 0)>>)
          BY <3>1, <3>3, ContractAdd
        <4>3. Promised!OpenStream
          BY <3>1, <4>1, <4>2 DEF Promised!OpenStream, Entry, Promised!Entry
        <4> QED BY <4>3 DEF Promised!NextStream
      <3> QED BY <3>1, <3>2, <3>3 DEF AppendOpen
    <2>4. ASSUME NEW p \in Publisher, PublishRunEvent(p)
          PROVE  [Promised!NextStream]_Promised!streamVars
      <3>1. /\ AppendRunEvent(publisher[p].row) /\ UNCHANGED dbVars
            /\ publisher[p].row \in DOMAIN ledger /\ ~Callback(publisher[p].row)
        BY <2>4 DEF PublishRunEvent, Inv, PublishersHoldRows
      <3> QED BY <3>1, RunEventContracted
    <2>5. ASSUME NEW p \in Publisher, PublishEnd(p)
          PROVE  [Promised!NextStream]_Promised!streamVars
      <3>1. AppendEnd /\ UNCHANGED dbVars
        BY <2>5 DEF PublishEnd
      <3>2. CASE UNCHANGED redisVars
        BY <3>1, <3>2, Unseen DEF redisVars, dbVars
      <3>3. CASE phase = "terminal" /\ XAdd(<<Entry("end", 0)>>) /\ expiries' = expiries
        <4>1. Promised!Exists /\ log[Len(log)].kind = "terminal"
          BY <3>3 DEF Inv, HashHasStream, HashAndEntries, Exists, Promised!Exists
        <4>2. Promised!XAdd(<<Entry("end", 0)>>)
          BY <3>1, <3>3, ContractAdd
        <4>3. Promised!EndStream
          BY <4>1, <4>2 DEF Promised!EndStream, Entry, Promised!Entry
        <4> QED BY <4>3 DEF Promised!NextStream
      <3> QED BY <3>1, <3>2, <3>3 DEF AppendEnd
    <2>6. ASSUME NEW h \in Handler, PersistCallback(h)
          PROVE  [Promised!NextStream]_Promised!streamVars
      BY <2>6, BatchCommitContracted
    <2>7. ASSUME NEW h \in Handler, PublishPredecessor(h)
          PROVE  [Promised!NextStream]_Promised!streamVars
      <3>1. /\ AppendRunEvent(handler[h].pred) /\ UNCHANGED dbVars
            /\ handler[h].pred \in DOMAIN ledger /\ ~Callback(handler[h].pred)
        BY <2>7 DEF PublishPredecessor, Inv, RequestsHoldRows, Callback
      <3> QED BY <3>1, RunEventContracted
    <2>8. ASSUME NEW h \in Handler, PublishBatch(h)
          PROVE  [Promised!NextStream]_Promised!streamVars
      <3>1. handler[h].pc = "batch" /\ AppendBatch(handler[h].batch) /\ UNCHANGED dbVars
        BY <2>8 DEF PublishBatch
      <3> QED BY <3>1, BatchContracted
    <2>9. ASSUME NEW h \in Handler, CallbackFails(h)
          PROVE  [Promised!NextStream]_Promised!streamVars
      BY <2>9, Unseen DEF CallbackFails, dbVars, redisVars
    <2>10. CASE Expire
      <3>1. Promised!Expire
        BY <2>10 DEF Expire, Promised!Expire, Exists, Promised!Exists, dbVars, Promised!dbVars
      <3> QED BY <3>1 DEF Promised!NextStream
    <2>11. CASE UNCHANGED vars
      BY <2>11, Unseen DEF vars, dbVars, redisVars
    <2> QED BY <2>1, <2>2, <2>3, <2>4, <2>5, <2>6, <2>7, <2>8, <2>9, <2>10, <2>11 DEF Next, Write
  <1> QED BY <1>1, <1>2, PublicationInvariance, PTL DEF Spec, ImplementsContract, Promised!Contract

=============================================================================
