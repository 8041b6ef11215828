------------------------- MODULE StreamReaderProofs -------------------------
(***************************************************************************)
(* What a connection and the browser it serves can rely on, for any page   *)
(* size, retention, number of rows and expiries, over any stream published *)
(* under StreamContract.                                                   *)
(***************************************************************************)
EXTENDS StreamReader, SequenceTheorems, TLAPS

Kind == {"callback", "cancel", "terminal"}
LogEntry == [kind : Kind \cup {"open", "end"}, seq : Nat]

Connection == [pc : {"closed", "first", "last", "exact", "replay", "live", "idle", "gap"},
               lo : Nat, tail : Nat, terminal : BOOLEAN, over : BOOLEAN, fresh : BOOLEAN,
               reason : {"none", "missing", "retained", "continuity", "unannounced"}]
Browser == [mode : {"following", "reconnecting", "gap", "stopped", "settling", "unavailable", "done"},
            cursor : Nat, rows : SUBSET Nat, resume : Nat]

StreamType ==
  /\ over \in BOOLEAN /\ authority \in {"none", "pending", "confirmed"}
  /\ ledger \in Seq(Kind) /\ log \in Seq(LogEntry)
  /\ first \in Nat \ {0} /\ first <= Len(log) + 1 /\ expiries \in Nat

\* A terminal row is committed with the end of the run.
TerminalMeansOver == \A s \in DOMAIN ledger : ledger[s] = "terminal" => over

\* An entry carries a committed row, or none.
EntriesCommitted ==
  \A i \in DOMAIN log :
    IF log[i].kind \in {"open", "end"} THEN log[i].seq = 0
    ELSE log[i].seq \in DOMAIN ledger /\ ledger[log[i].seq] = log[i].kind

EndFollowsTerminal ==
  \A i \in DOMAIN log : log[i].kind = "end" => i > 1 /\ log[i - 1].kind = "terminal"

\* In the stream as first created the callback rows before a row come before it.
RowsInOrder ==
  Original(Len(log)) =>
    \A i \in DOMAIN log : \A t \in CallbackRows :
      t < log[i].seq => \E j \in 1..i : log[j].seq = t

StreamInv ==
  StreamType /\ TerminalMeansOver /\ EntriesCommitted /\ EndFollowsTerminal /\ RowsInOrder

\* The entries a connection still has to send are in the stream's past.
ConnInv ==
  /\ conn \in Connection /\ EndIsAnnounced
  /\ conn.pc = "exact" => client.cursor <= conn.tail /\ conn.tail <= Len(log)
  /\ conn.pc = "replay" => client.cursor < conn.tail /\ conn.tail <= Len(log)

ClientInv ==
  /\ client \in Browser
  /\ client.cursor <= Len(log) /\ client.resume <= Len(log) /\ client.rows \subseteq DOMAIN ledger
  /\ client.mode \in {"reconnecting", "gap", "stopped", "unavailable"} => conn.pc = "closed"
  /\ ClientMissesNothing /\ NoHoleInAnswer

\* A browser that has just seen the terminal event follows the run no longer, and its
\* connection knows.
TerminalSeen ==
  client.cursor # 0 /\ log[client.cursor].kind = "terminal" =>
    /\ client.mode \notin {"following", "reconnecting", "gap"}
    /\ conn.pc \notin {"closed", "gap"} => conn.terminal

Inv == StreamInv /\ ConnInv /\ ClientInv /\ TerminalSeen

-----------------------------------------------------------------------------
\* Max of a pair.
LEMMA MaxOfTwo ==
  ASSUME NEW a \in Int, NEW b \in Int
  PROVE  Max({a, b}) = IF a >= b THEN a ELSE b
  BY DEF Max

\* Min of a pair.
LEMMA MinOfTwo ==
  ASSUME NEW a \in Int, NEW b \in Int
  PROVE  Min({a, b}) = IF a <= b THEN a ELSE b
  BY DEF Min

\* The last entry of a page.
LEMMA MaxOfPage ==
  ASSUME NEW a \in Nat, NEW b \in Nat, a <= b
  PROVE  Max(a..b) = b
  BY DEF Max

\* The stream only grows, and so do the rows: what was sent stays as it was.
LEMMA ReaderKept ==
  ASSUME Inv, StreamInv', UNCHANGED <<conn, client>>,
         Len(log) <= Len(log'), \A i \in 1..Len(log) : log'[i] = log[i],
         Len(ledger) <= Len(ledger'), \A s \in 1..Len(ledger) : ledger'[s] = ledger[s]
  PROVE  Inv'
  <1>0. /\ log \in Seq(LogEntry) /\ DOMAIN log = 1..Len(log) /\ Len(log) \in Nat
        /\ ledger \in Seq(Kind) /\ DOMAIN ledger = 1..Len(ledger) /\ Len(ledger) \in Nat
    BY LenProperties DEF Inv, StreamInv, StreamType
  <1>1. /\ Len(log') \in Nat /\ DOMAIN ledger' = 1..Len(ledger') /\ Len(ledger') \in Nat
    BY LenProperties DEF StreamInv, StreamType
  <1>2. /\ client \in Browser /\ client.cursor \in Nat /\ client.cursor <= Len(log)
        /\ client.resume \in Nat /\ client.resume <= Len(log) /\ client.rows \subseteq DOMAIN ledger
    BY DEF Inv, ClientInv, Browser
  <1>3. conn \in Connection /\ conn.tail \in Nat
    BY DEF Inv, ConnInv, Connection
  <1>4. ConnInv'
    BY <1>0, <1>1, <1>2, <1>3 DEF Inv, ConnInv, EndIsAnnounced
  <1>5. \A n \in 0..Len(log) : (\A k \in 2..n : log'[k].kind # "open") => Original(n)
    BY <1>0 DEF Original
  <1>6. ClientMissesNothing'
    <2>1. \A i \in 1..client.cursor : i \in 1..Len(log)
      BY <1>0, <1>2
    <2>2. Original(client.cursor)' => Original(client.cursor)
      BY <1>0, <1>2, <1>5 DEF Original
    <2> QED BY <2>1, <2>2 DEF Inv, ClientInv, ClientMissesNothing
  <1>7. NoHoleInAnswer'
    <2> SUFFICES ASSUME Original(Len(log))', NEW s \in client.rows, NEW t \in 1..(s - 1),
                        t \in CallbackRows'
                 PROVE  t \in client.rows
      BY DEF NoHoleInAnswer
    <2>1. Original(Len(log))
      BY <1>0, <1>1, <1>5 DEF Original
    <2>2. s \in 1..Len(ledger) /\ t \in 1..Len(ledger)
      BY <1>0, <1>2
    <2>3. t \in CallbackRows
      BY <1>0, <2>2 DEF CallbackRows
    <2> QED BY <2>1, <2>3 DEF Inv, ClientInv, NoHoleInAnswer
  <1>8. ClientInv'
    <2>1. client.rows \subseteq DOMAIN ledger'
      BY <1>0, <1>1, <1>2
    <2>2. client.cursor <= Len(log') /\ client.resume <= Len(log')
      BY <1>0, <1>1, <1>2
    <2> QED BY <1>6, <1>7, <2>1, <2>2 DEF Inv, ClientInv
  <1>9. TerminalSeen'
    <2>1. client.cursor # 0 => log'[client.cursor] = log[client.cursor]
      BY <1>0, <1>2
    <2> QED BY <2>1 DEF Inv, TerminalSeen
  <1> QED BY <1>4, <1>8, <1>9 DEF Inv

\* Transactions.
LEMMA LedgerGrows ==
  ASSUME Inv, UNCHANGED <<log, first, expiries, conn, client>>,
         ledger' \in Seq(Kind), Len(ledger) <= Len(ledger'),
         \A s \in 1..Len(ledger) : ledger'[s] = ledger[s],
         over' \in BOOLEAN, over => over', authority' \in {"none", "pending", "confirmed"},
         \A s \in (Len(ledger) + 1)..Len(ledger') : ledger'[s] = "terminal" => over'
  PROVE  Inv'
  <1>0. /\ log \in Seq(LogEntry) /\ DOMAIN log = 1..Len(log) /\ Len(log) \in Nat
        /\ ledger \in Seq(Kind) /\ DOMAIN ledger = 1..Len(ledger) /\ Len(ledger) \in Nat
        /\ DOMAIN ledger' = 1..Len(ledger') /\ Len(ledger') \in Nat
    BY LenProperties DEF Inv, StreamInv, StreamType
  <1>1. StreamType'
    BY DEF Inv, StreamInv, StreamType
  <1>2. TerminalMeansOver'
    <2>1. \A s \in 1..Len(ledger') : s \in 1..Len(ledger) \/ s \in (Len(ledger) + 1)..Len(ledger')
      BY <1>0
    <2> QED BY <1>0, <2>1 DEF Inv, StreamInv, TerminalMeansOver
  <1>3. \A s \in DOMAIN ledger : s \in DOMAIN ledger' /\ ledger'[s] = ledger[s]
    BY <1>0
  <1>4. EntriesCommitted'
    BY <1>3 DEF Inv, StreamInv, EntriesCommitted
  <1>5. EndFollowsTerminal'
    BY DEF Inv, StreamInv, EndFollowsTerminal
  <1>6. RowsInOrder'
    <2> SUFFICES ASSUME Original(Len(log)), NEW i \in DOMAIN log, NEW t \in CallbackRows', t < log[i].seq
                 PROVE  \E j \in 1..i : log[j].seq = t
      BY DEF RowsInOrder, Original
    <2>1. t \in Nat /\ t >= 1 /\ t \in DOMAIN ledger' /\ ledger'[t] = "callback"
      BY <1>0 DEF CallbackRows
    <2>2. log[i].seq \in 1..Len(ledger)
      <3>1. log[i].seq # 0
        <4>1. log[i] \in LogEntry
          BY <1>0
        <4>2. log[i].seq \in Nat
          BY <4>1 DEF LogEntry
        <4> QED BY <2>1, <4>2
      <3> QED BY <1>0, <3>1 DEF Inv, StreamInv, EntriesCommitted
    <2>3. t \in CallbackRows
      BY <1>0, <2>1, <2>2 DEF CallbackRows
    <2> QED BY <2>3 DEF Inv, StreamInv, RowsInOrder
  <1>7. StreamInv'
    BY <1>1, <1>2, <1>4, <1>5, <1>6 DEF StreamInv
  <1> QED BY <1>0, <1>7, ReaderKept

\* XADD leaves the entries in place and keeps the newest.
LEMMA LogGrows ==
  ASSUME Inv, NEW es \in Seq(LogEntry), es # <<>>, XAdd(es)
  PROVE  /\ log' \in Seq(LogEntry) /\ Len(log') = Len(log) + Len(es) /\ Len(es) \in Nat /\ Len(es) > 0
         /\ Len(log) \in Nat /\ DOMAIN log = 1..Len(log) /\ DOMAIN log' = 1..Len(log')
         /\ \A i \in 1..Len(log) : log'[i] = log[i]
         /\ \A i \in (Len(log) + 1)..Len(log') : log'[i] = es[i - Len(log)]
         /\ StreamType' /\ ledger' = ledger /\ over' = over
  <1>0. log \in Seq(LogEntry) /\ first \in Nat \ {0} /\ first <= Len(log) + 1
    BY DEF Inv, StreamInv, StreamType
  <1>1. log' = log \o es /\ first' \in first..Max({first, Len(log) + Len(es) - MaxLen + 1})
        /\ UNCHANGED <<dbVars, expiries>> /\ ledger' = ledger /\ over' = over /\ authority' = authority
    BY DEF XAdd, dbVars
  <1>2. Len(log) \in Nat /\ Len(es) \in Nat /\ Len(es) > 0 /\ MaxLen \in Nat /\ MaxLen >= 1
    BY <1>0, LenProperties, EmptySeq, ContractAssumption
  <1>3. /\ log' \in Seq(LogEntry) /\ Len(log') = Len(log) + Len(es)
        /\ \A i \in 1..(Len(log) + Len(es)) : log'[i] = IF i <= Len(log) THEN log[i] ELSE es[i - Len(log)]
    BY <1>0, <1>1, ConcatProperties
  <1>4. \A i \in 1..Len(log) : log'[i] = log[i]
    BY <1>2, <1>3
  <1>5. \A i \in (Len(log) + 1)..Len(log') : log'[i] = es[i - Len(log)]
    BY <1>2, <1>3
  <1>6. Max({first, Len(log) + Len(es) - MaxLen + 1}) <= Len(log') + 1
    <2>1. Max({first, Len(log) + Len(es) - MaxLen + 1}) \in {first, Len(log) + Len(es) - MaxLen + 1}
      BY <1>0, <1>2, MaxOfTwo
    <2> QED BY <1>0, <1>2, <1>3, <2>1
  <1>7. first' \in Nat \ {0} /\ first' <= Len(log') + 1
    <2>1. Max({first, Len(log) + Len(es) - MaxLen + 1}) \in Int
      BY <1>0, <1>2, MaxOfTwo
    <2> QED BY <1>0, <1>1, <1>2, <1>3, <1>6, <2>1
  <1>8. StreamType'
    BY <1>1, <1>3, <1>7 DEF Inv, StreamInv, StreamType
  <1> QED BY <1>0, <1>1, <1>2, <1>3, <1>4, <1>5, <1>8, LenProperties

\* Entries of the stream that are not stream.open keep Original.
LEMMA StillOriginal ==
  ASSUME log \in Seq(LogEntry), log' \in Seq(LogEntry), Len(log) <= Len(log'),
         \A i \in 1..Len(log) : log'[i] = log[i]
  PROVE  Original(Len(log))' => Original(Len(log))
  <1>1. Len(log) \in Nat /\ Len(log') \in Nat
    BY LenProperties
  <1> QED BY <1>1 DEF Original

\* The steps of the publishers, as the contract allows them.
LEMMA StreamSteps ==
  ASSUME Inv, NextStream, UNCHANGED <<conn, client>>
  PROVE  Inv'
  <1>0. /\ log \in Seq(LogEntry) /\ DOMAIN log = 1..Len(log) /\ Len(log) \in Nat
        /\ ledger \in Seq(Kind) /\ DOMAIN ledger = 1..Len(ledger) /\ Len(ledger) \in Nat
        /\ over \in BOOLEAN /\ authority \in {"none", "pending", "confirmed"}
        /\ MaxBatch \in Nat \ {0}
    BY LenProperties, ContractAssumption DEF Inv, StreamInv, StreamType
  <1>1. CASE CommitCallbacks
    <2>1. PICK n \in 1..MaxBatch :
            /\ ledger' = ledger \o [i \in 1..n |-> "callback"]
            /\ UNCHANGED <<log, first, expiries>> /\ over' = over /\ authority' = authority
      BY <1>1 DEF CommitCallbacks, redisVars
    <2> DEFINE cs == [i \in 1..n |-> "callback"]
    <2>2. n \in Nat /\ cs \in Seq(Kind) /\ Len(cs) = n /\ \A i \in 1..n : cs[i] = "callback"
      BY <1>0 DEF Kind
    <2> HIDE DEF cs
    <2>3. /\ ledger' \in Seq(Kind) /\ Len(ledger') = Len(ledger) + n
          /\ \A i \in 1..(Len(ledger) + n) :
               ledger'[i] = IF i <= Len(ledger) THEN ledger[i] ELSE cs[i - Len(ledger)]
      <3>1. /\ ledger \o cs \in Seq(Kind) /\ Len(ledger \o cs) = Len(ledger) + Len(cs)
            /\ \A i \in 1..(Len(ledger) + Len(cs)) :
                 (ledger \o cs)[i] = IF i <= Len(ledger) THEN ledger[i] ELSE cs[i - Len(ledger)]
        BY <1>0, <2>2, ConcatProperties
      <3> QED BY <2>1, <2>2, <3>1 DEF cs
    <2>4. \A i \in 1..Len(ledger) : ledger'[i] = ledger[i]
      BY <1>0, <2>2, <2>3
    <2>5. ASSUME NEW i \in (Len(ledger) + 1)..Len(ledger') PROVE ledger'[i] # "terminal"
      <3>1. i \in 1..(Len(ledger) + n) /\ ~(i <= Len(ledger)) /\ i - Len(ledger) \in 1..n
        BY <1>0, <2>2, <2>3
      <3> QED BY <2>2, <2>3, <3>1
    <2>6. Len(ledger) <= Len(ledger')
      BY <1>0, <2>2, <2>3
    <2> QED BY <1>0, <2>1, <2>3, <2>4, <2>5, <2>6, LedgerGrows
  <1>2. ASSUME NEW k \in Kind, ledger' = Append(ledger, k), UNCHANGED <<log, first, expiries>>,
               over' \in BOOLEAN, over => over', authority' \in {"none", "pending", "confirmed"},
               k = "terminal" => over'
        PROVE  Inv'
    <2>1. /\ ledger' \in Seq(Kind) /\ Len(ledger') = Len(ledger) + 1
          /\ \A s \in 1..Len(ledger) : ledger'[s] = ledger[s]
          /\ ledger'[Len(ledger) + 1] = k
      BY <1>0, <1>2, AppendProperties
    <2>2. \A s \in (Len(ledger) + 1)..Len(ledger') : ledger'[s] = k
      BY <1>0, <2>1
    <2>3. Len(ledger) <= Len(ledger')
      BY <1>0, <2>1
    <2> QED BY <1>2, <2>1, <2>2, <2>3, LedgerGrows
  <1>3. ASSUME ledger' = ledger, UNCHANGED <<log, first, expiries>>,
               over' \in BOOLEAN, over => over', authority' \in {"none", "pending", "confirmed"}
        PROVE  Inv'
    <2>1. \A s \in (Len(ledger) + 1)..Len(ledger') : FALSE
      BY <1>0, <1>3
    <2> QED BY <1>0, <1>3, <2>1, LedgerGrows
  <1>4. CASE CommitCancel
    <2>1. /\ ledger' = Append(ledger, "cancel") /\ UNCHANGED <<log, first, expiries>> /\ over' = over
          /\ authority' \in {"none", "pending", "confirmed"} /\ "cancel" \in Kind
      BY <1>0, <1>4 DEF CommitCancel, redisVars, Kind
    <2> QED BY <1>0, <1>2, <2>1
  <1>5. CASE CommitTerminal
    <2>1. /\ over' = TRUE /\ UNCHANGED <<log, first, expiries>> /\ authority' = authority
          /\ ledger' = ledger \/ ledger' = Append(ledger, "terminal")
          /\ "terminal" \in Kind
      BY <1>5 DEF CommitTerminal, redisVars, Kind
    <2> QED BY <1>0, <1>2, <1>3, <2>1
  <1>6. CASE Authorize
    <2>1. /\ UNCHANGED <<log, first, expiries>> /\ ledger' = ledger /\ over' = over
          /\ authority' \in {"none", "pending", "confirmed"}
      BY <1>6 DEF Authorize, redisVars
    <2> QED BY <1>0, <1>3, <2>1
  <1>7. CASE Expire
    <2>1. /\ log' = log /\ first' = Len(log) + 1 /\ expiries' = expiries + 1
          /\ ledger' = ledger /\ over' = over /\ authority' = authority
      BY <1>7 DEF Expire, dbVars
    <2>2. StreamInv'
      BY <1>0, <2>1 DEF Inv, StreamInv, StreamType, TerminalMeansOver, EntriesCommitted,
         EndFollowsTerminal, RowsInOrder, Original, CallbackRows
    <2> QED BY <1>0, <2>1, <2>2, ReaderKept
  <1>8. ASSUME NEW e \in LogEntry, e.kind \in {"open", "end"}, e.seq = 0, XAdd(<<e>>),
               e.kind = "end" => Len(log) # 0 /\ log[Len(log)].kind = "terminal"
        PROVE  Inv'
    <2> DEFINE es == <<e>>
    <2>1. es \in Seq(LogEntry) /\ es # <<>> /\ Len(es) = 1 /\ es[1] = e
      BY <1>8
    <2> HIDE DEF es
    <2>2. /\ log' \in Seq(LogEntry) /\ Len(log') = Len(log) + Len(es)
          /\ DOMAIN log' = 1..Len(log') /\ \A i \in 1..Len(log) : log'[i] = log[i]
          /\ \A i \in (Len(log) + 1)..Len(log') : log'[i] = es[i - Len(log)]
          /\ StreamType' /\ ledger' = ledger /\ over' = over
      <3>1. XAdd(es)
        BY <1>8 DEF es
      <3> QED BY <2>1, <3>1, LogGrows
    <2>3. /\ Len(log') = Len(log) + 1 /\ log'[Len(log) + 1] = e
          /\ \A i \in DOMAIN log' : i \in 1..Len(log) \/ i = Len(log) + 1
      BY <1>0, <2>1, <2>2
    <2>4. TerminalMeansOver'
      BY <2>2 DEF Inv, StreamInv, TerminalMeansOver
    <2>5. EntriesCommitted'
      BY <1>0, <1>8, <2>2, <2>3 DEF Inv, StreamInv, EntriesCommitted
    <2>6. EndFollowsTerminal'
      <3>1. ASSUME NEW i \in 1..Len(log), log'[i].kind = "end"
            PROVE  i > 1 /\ log'[i - 1].kind = "terminal"
        <4>1. i > 1 /\ log[i - 1].kind = "terminal"
          BY <1>0, <2>2, <3>1 DEF Inv, StreamInv, EndFollowsTerminal
        <4>2. i - 1 \in 1..Len(log)
          BY <1>0, <4>1
        <4> QED BY <2>2, <4>1, <4>2
      <3>2. log'[Len(log) + 1].kind = "end" =>
              Len(log) + 1 > 1 /\ log'[(Len(log) + 1) - 1].kind = "terminal"
        <4>1. Len(log) # 0 => Len(log) \in 1..Len(log) /\ (Len(log) + 1) - 1 = Len(log) /\ Len(log) + 1 > 1
          BY <1>0
        <4> QED BY <1>8, <2>2, <2>3, <4>1
      <3> QED BY <2>3, <3>1, <3>2 DEF EndFollowsTerminal
    <2>7. RowsInOrder'
      <3> SUFFICES ASSUME Original(Len(log))', NEW i \in DOMAIN log', NEW t \in CallbackRows, t < log'[i].seq
                   PROVE  \E j \in 1..i : log'[j].seq = t
        BY <2>2 DEF RowsInOrder, CallbackRows
      <3>1. Original(Len(log))
        BY <1>0, <2>2, <2>3, StillOriginal
      <3>2. i \in 1..Len(log)
        <4>1. t \in Nat
          BY <1>0 DEF CallbackRows
        <4> QED BY <1>8, <2>3, <4>1
      <3>3. PICK j \in 1..i : log[j].seq = t
        BY <1>0, <2>2, <3>1, <3>2 DEF Inv, StreamInv, RowsInOrder
      <3>4. j \in 1..Len(log)
        BY <1>0, <3>2
      <3> QED BY <2>2, <3>3, <3>4
    <2>8. StreamInv'
      BY <2>2, <2>4, <2>5, <2>6, <2>7 DEF StreamInv
    <2> QED BY <1>0, <2>2, <2>3, <2>8, ReaderKept
  <1>9. CASE OpenStream
    <2>1. Entry("open", 0) \in LogEntry /\ Entry("open", 0).kind = "open" /\ Entry("open", 0).seq = 0
      BY DEF Entry, LogEntry
    <2> QED BY <1>8, <1>9, <2>1 DEF OpenStream
  <1>10. CASE EndStream
    <2>1. Entry("end", 0) \in LogEntry /\ Entry("end", 0).kind = "end" /\ Entry("end", 0).seq = 0
      BY DEF Entry, LogEntry
    <2>2. Len(log) # 0 /\ log[Len(log)].kind = "terminal" /\ XAdd(<<Entry("end", 0)>>)
      BY <1>0, <1>10 DEF EndStream, Exists, Inv, StreamInv, StreamType
    <2> QED BY <1>8, <2>1, <2>2
  <1>11. CASE Publish
    <2>1. PICK s \in DOMAIN ledger, n \in 1..MaxBatch :
            /\ s + n - 1 \in DOMAIN ledger
            /\ n > 1 => s..(s + n - 1) \subseteq CallbackRows
            /\ Original(Len(log)) => \A t \in CallbackRows : t < s => t \in Published
            /\ XAdd([i \in 1..n |-> EntryOf(s + i - 1)])
      BY <1>11 DEF Publish
    <2> DEFINE es == [i \in 1..n |-> EntryOf(s + i - 1)]
    <2>2. s \in Nat /\ n \in Nat /\ s >= 1 /\ n >= 1
      BY <1>0
    <2>3. ASSUME NEW i \in 1..n
          PROVE  /\ s + i - 1 \in DOMAIN ledger /\ EntryOf(s + i - 1) \in LogEntry
                 /\ EntryOf(s + i - 1).seq = s + i - 1 /\ EntryOf(s + i - 1).kind = ledger[s + i - 1]
                 /\ ledger[s + i - 1] \in Kind
      <3>1. s + i - 1 \in DOMAIN ledger /\ s + i - 1 \in Nat
        BY <1>0, <2>1, <2>2
      <3>2. ledger[s + i - 1] \in Kind
        BY <1>0, <3>1
      <3> QED BY <3>1, <3>2 DEF EntryOf, Entry, LogEntry
    <2>4. es \in Seq(LogEntry) /\ Len(es) = n /\ es # <<>> /\ \A i \in 1..n : es[i] = EntryOf(s + i - 1)
      <3>1. es \in Seq(LogEntry) /\ Len(es) = n
        BY <2>2, <2>3
      <3> QED BY <2>2, <3>1
    <2> HIDE DEF es
    <2>5. /\ log' \in Seq(LogEntry) /\ Len(log') = Len(log) + Len(es)
          /\ DOMAIN log' = 1..Len(log') /\ \A i \in 1..Len(log) : log'[i] = log[i]
          /\ \A i \in (Len(log) + 1)..Len(log') : log'[i] = es[i - Len(log)]
          /\ StreamType' /\ ledger' = ledger /\ over' = over
      <3>1. XAdd(es)
        BY <2>1 DEF es
      <3> QED BY <2>4, <3>1, LogGrows
    <2>6. ASSUME NEW i \in (Len(log) + 1)..Len(log')
          PROVE  /\ i - Len(log) \in 1..n
                 /\ log'[i].seq = s + (i - Len(log)) - 1 /\ log'[i].seq \in DOMAIN ledger
                 /\ log'[i].kind = ledger[log'[i].seq] /\ log'[i].kind \in Kind
      <3>1. i - Len(log) \in 1..n
        BY <1>0, <2>2, <2>4, <2>5
      <3>2. log'[i] = EntryOf(s + (i - Len(log)) - 1)
        BY <2>4, <2>5, <3>1
      <3> QED BY <2>3, <3>1, <3>2
    <2>7. \A i \in DOMAIN log' : i \in 1..Len(log) \/ i \in (Len(log) + 1)..Len(log')
      BY <1>0, <2>2, <2>4, <2>5
    <2>8. TerminalMeansOver'
      BY <2>5 DEF Inv, StreamInv, TerminalMeansOver
    <2>9. EntriesCommitted'
      <3>1. \A i \in (Len(log) + 1)..Len(log') : log'[i].kind \notin {"open", "end"}
        BY <2>6 DEF Kind
      <3> QED BY <1>0, <2>5, <2>6, <2>7, <3>1 DEF Inv, StreamInv, EntriesCommitted
    <2>10. EndFollowsTerminal'
      <3>1. \A i \in (Len(log) + 1)..Len(log') : log'[i].kind # "end"
        BY <2>6 DEF Kind
      <3>2. ASSUME NEW i \in 1..Len(log), log'[i].kind = "end"
            PROVE  i > 1 /\ log'[i - 1].kind = "terminal"
        <4>1. i > 1 /\ log[i - 1].kind = "terminal"
          BY <1>0, <2>5, <3>2 DEF Inv, StreamInv, EndFollowsTerminal
        <4>2. i - 1 \in 1..Len(log)
          BY <1>0, <4>1
        <4> QED BY <2>5, <4>1, <4>2
      <3> QED BY <2>7, <3>1, <3>2 DEF EndFollowsTerminal
    <2>11. RowsInOrder'
      <3> SUFFICES ASSUME Original(Len(log))', NEW i \in DOMAIN log', NEW t \in CallbackRows, t < log'[i].seq
                   PROVE  \E j \in 1..i : log'[j].seq = t
        BY <2>5 DEF RowsInOrder, CallbackRows
      <3>0. t \in Nat /\ Len(log) <= Len(log')
        BY <1>0, <2>2, <2>4, <2>5 DEF CallbackRows
      <3>1. Original(Len(log))
        BY <1>0, <2>5, <3>0, StillOriginal
      <3>2. CASE i \in 1..Len(log)
        <4>1. PICK j \in 1..i : log[j].seq = t
          BY <1>0, <2>5, <3>1, <3>2 DEF Inv, StreamInv, RowsInOrder
        <4>2. j \in 1..Len(log)
          BY <1>0, <3>2
        <4> QED BY <2>5, <4>1, <4>2
      <3>3. CASE i \in (Len(log) + 1)..Len(log')
        <4>0. log'[i].seq = s + (i - Len(log)) - 1 /\ i - Len(log) \in 1..n /\ i \in Nat
          BY <1>0, <2>6, <3>3
        <4>1. CASE t < s
          <5>1. t \in Published
            BY <2>1, <3>1, <4>1
          <5>2. PICK j \in DOMAIN log : log[j].seq = t
            BY <5>1 DEF Published, Current
          <5>3. j \in 1..Len(log) /\ j \in 1..i
            BY <1>0, <3>3
          <5> QED BY <2>5, <5>2, <5>3
        <4>2. CASE t >= s
          <5>1. t - s + Len(log) + 1 \in (Len(log) + 1)..Len(log') /\ t - s + Len(log) + 1 \in 1..i
            <6>1. t < s + (i - Len(log)) - 1 /\ i <= Len(log') /\ Len(log') \in Nat
              BY <1>0, <2>2, <2>4, <2>5, <3>3, <4>0
            <6> QED BY ONLY <1>0, <2>2, <3>0, <4>0, <4>2, <6>1
          <5>2. log'[t - s + Len(log) + 1].seq = s + ((t - s + Len(log) + 1) - Len(log)) - 1
            BY <2>6, <5>1
          <5>3. s + ((t - s + Len(log) + 1) - Len(log)) - 1 = t
            BY <1>0, <2>2, <3>0
          <5> QED BY <5>1, <5>2, <5>3
        <4> QED BY <2>2, <3>0, <4>1, <4>2
      <3> QED BY <2>7, <3>2, <3>3
    <2>12. StreamInv'
      BY <2>5, <2>8, <2>9, <2>10, <2>11 DEF StreamInv
    <2>13. Len(log) <= Len(log')
      BY <1>0, <2>2, <2>4, <2>5
    <2> QED BY <1>0, <2>5, <2>12, <2>13, ReaderKept
  <1> QED BY <1>1, <1>4, <1>5, <1>6, <1>7, <1>9, <1>10, <1>11 DEF NextStream

\* A step of the connection that leaves the browser alone.
LEMMA ConnMoves ==
  ASSUME Inv, UNCHANGED <<streamVars, client>>, conn' \in Connection,
         conn'.reason # "unannounced",
         conn'.pc = "exact" => client.cursor <= conn'.tail /\ conn'.tail <= Len(log),
         conn'.pc = "replay" => client.cursor < conn'.tail /\ conn'.tail <= Len(log),
         client.mode \in {"reconnecting", "gap", "stopped", "unavailable"} => conn'.pc = "closed",
         conn'.pc \notin {"closed", "gap"} =>
           conn.pc \notin {"closed", "gap"} /\ conn'.terminal = conn.terminal
  PROVE  Inv'
  <1>1. UNCHANGED <<over, authority, ledger, log, first, expiries>>
    BY DEF streamVars, dbVars, redisVars
  <1>2. StreamInv'
    BY <1>1 DEF Inv, StreamInv, StreamType, TerminalMeansOver, EntriesCommitted, EndFollowsTerminal,
       RowsInOrder, Original, CallbackRows
  <1>3. ConnInv'
    BY <1>1 DEF ConnInv, EndIsAnnounced
  <1>4. ClientInv'
    BY <1>1 DEF Inv, ClientInv, ClientMissesNothing, NoHoleInAnswer, Original, CallbackRows
  <1>5. TerminalSeen'
    BY <1>1 DEF Inv, TerminalSeen
  <1> QED BY <1>2, <1>3, <1>4, <1>5 DEF Inv

\* A step of the browser that receives nothing: its connection is closed then.
LEMMA ClientMoves ==
  ASSUME Inv, UNCHANGED streamVars, client' \in Browser, conn' \in Connection,
         conn'.reason # "unannounced", conn'.pc = "closed" \/ (conn' = conn /\ client'.cursor = client.cursor),
         client'.cursor \in {0, client.cursor, client.resume}, client'.resume \in {0, client.resume, Len(log)},
         client'.cursor # client.cursor => client'.cursor = 0 \/ client'.rows = DOMAIN ledger,
         client'.rows \in {client.rows, DOMAIN ledger},
         client'.mode \in {"reconnecting", "gap", "stopped", "unavailable"} => conn'.pc = "closed",
         client'.mode \in {"following", "reconnecting", "gap"} =>
           client'.cursor = 0 \/ log[client'.cursor].kind # "terminal"
  PROVE  Inv'
  <1>1. UNCHANGED <<over, authority, ledger, log, first, expiries>>
    BY DEF streamVars, dbVars, redisVars
  <1>0. /\ log \in Seq(LogEntry) /\ DOMAIN log = 1..Len(log) /\ Len(log) \in Nat
        /\ ledger \in Seq(Kind) /\ DOMAIN ledger = 1..Len(ledger) /\ Len(ledger) \in Nat
        /\ client.cursor \in 0..Len(log) /\ client.resume \in 0..Len(log)
        /\ client.rows \subseteq DOMAIN ledger
    BY LenProperties DEF Inv, StreamInv, StreamType, ClientInv, Browser
  <1>2. StreamInv'
    BY <1>1 DEF Inv, StreamInv, StreamType, TerminalMeansOver, EntriesCommitted, EndFollowsTerminal,
       RowsInOrder, Original, CallbackRows
  <1>3. ConnInv'
    BY <1>1 DEF Inv, ConnInv, EndIsAnnounced
  <1>4. client'.cursor \in 0..Len(log) /\ client'.resume \in 0..Len(log) /\ client'.rows \subseteq DOMAIN ledger
    BY <1>0
  <1>5. ClientMissesNothing'
    <2>1. ASSUME client'.rows = DOMAIN ledger, NEW i \in 1..client'.cursor, log[i].seq # 0
          PROVE  log[i].seq \in client'.rows
      <3>1. i \in DOMAIN log
        BY <1>0, <1>4
      <3> QED BY <2>1, <3>1 DEF Inv, StreamInv, EntriesCommitted
    <2>2. CASE client'.rows = DOMAIN ledger
      BY <1>1, <2>1, <2>2 DEF ClientMissesNothing
    <2>3. CASE client'.cursor = 0
      BY <2>3 DEF ClientMissesNothing
    <2>4. CASE client'.cursor = client.cursor /\ client'.rows = client.rows
      BY <1>1, <2>4 DEF Inv, ClientInv, ClientMissesNothing, Original
    <2> QED BY <2>2, <2>3, <2>4
  <1>6. NoHoleInAnswer'
    <2>1. CASE client'.rows = client.rows
      BY <1>1, <2>1 DEF Inv, ClientInv, NoHoleInAnswer, Original, CallbackRows
    <2>2. CASE client'.rows = DOMAIN ledger
      BY <1>0, <1>1, <2>2 DEF NoHoleInAnswer, CallbackRows
    <2> QED BY <2>1, <2>2
  <1>7. ClientInv'
    BY <1>0, <1>1, <1>4, <1>5, <1>6 DEF ClientInv
  <1>8. TerminalSeen'
    <2>1. client'.cursor # 0 /\ log[client'.cursor].kind = "terminal" =>
            client'.mode \notin {"following", "reconnecting", "gap"}
      OBVIOUS
    <2>2. client'.cursor # 0 /\ log[client'.cursor].kind = "terminal" =>
            (conn'.pc \notin {"closed", "gap"} => conn'.terminal)
      BY DEF Inv, TerminalSeen
    <2> QED BY <1>1, <2>1, <2>2 DEF TerminalSeen
  <1> QED BY <1>2, <1>3, <1>7, <1>8 DEF Inv

\* What Close and Dropped do.
LEMMA CloseKeeps ==
  ASSUME Inv, Close, UNCHANGED streamVars
  PROVE  Inv'
  <1>1. client \in Browser /\ Closed \in Connection /\ Closed.pc = "closed" /\ Closed.reason = "none"
    BY DEF Inv, ClientInv, Closed, Connection
  <1>2. conn' = Closed /\ client' = Dropped(client)
    BY DEF Close
  <1>3. /\ client' \in Browser /\ client'.cursor = client.cursor /\ client'.rows = client.rows
        /\ client'.resume = client.resume
        /\ client'.mode = IF client.mode = "following" THEN "reconnecting" ELSE client.mode
    BY <1>1, <1>2 DEF Dropped, Browser
  <1>4. client'.mode \in {"following", "reconnecting", "gap"} =>
          client'.cursor = 0 \/ log[client'.cursor].kind # "terminal"
    BY <1>3 DEF Inv, TerminalSeen
  <1> QED BY <1>1, <1>2, <1>3, <1>4, ClientMoves

\* The browser connects, or learns from the run's status or history.
LEMMA BrowserSteps ==
  ASSUME Inv, Browse \/ StatusUnavailable
  PROVE  Inv'
  <1>0. /\ client \in Browser /\ conn \in Connection /\ conn.reason # "unannounced"
        /\ log \in Seq(LogEntry) /\ DOMAIN log = 1..Len(log) /\ Len(log) \in Nat
        /\ DOMAIN ledger = 1..Len(ledger) /\ Len(ledger) \in Nat
        /\ client.mode \in {"reconnecting", "gap", "stopped", "unavailable"} => conn.pc = "closed"
    BY LenProperties DEF Inv, ClientInv, ConnInv, EndIsAnnounced, StreamInv, StreamType
  <1>a. client.mode \in {"following", "reconnecting", "gap"} =>
          client.cursor = 0 \/ log[client.cursor].kind # "terminal"
    BY DEF Inv, TerminalSeen
  <1>1. CASE Connect
    <2>1. /\ conn.pc = "closed" /\ client.mode = "following" /\ client' = client /\ UNCHANGED streamVars
          /\ conn' = [Closed EXCEPT !.pc = "first", !.over = over, !.fresh = TRUE]
      BY <1>1 DEF Connect
    <2>2. conn' \in Connection /\ conn'.pc = "first" /\ conn'.reason = "none"
      BY <2>1 DEF Closed, Connection, Inv, StreamInv, StreamType
    <2>3. UNCHANGED <<over, authority, ledger, log, first, expiries>>
      BY <2>1 DEF streamVars, dbVars, redisVars
    <2>4. StreamInv'
      BY <2>3 DEF Inv, StreamInv, StreamType, TerminalMeansOver, EntriesCommitted, EndFollowsTerminal,
         RowsInOrder, Original, CallbackRows
    <2>5. ConnInv'
      BY <2>2 DEF ConnInv, EndIsAnnounced
    <2>6. ClientInv'
      BY <2>1, <2>3 DEF Inv, ClientInv, ClientMissesNothing, NoHoleInAnswer, Original, CallbackRows
    <2>7. TerminalSeen'
      BY <1>a, <2>1, <2>3 DEF TerminalSeen
    <2> QED BY <2>4, <2>5, <2>6, <2>7 DEF Inv
  <1>2. CASE ConnectRefused \/ StatusUnavailable
    <2>1. /\ client' = [client EXCEPT !.mode = "unavailable"] /\ conn' = conn /\ conn.pc = "closed"
          /\ UNCHANGED streamVars
      BY <1>0, <1>2 DEF ConnectRefused, StatusUnavailable
    <2>2. /\ client' \in Browser /\ client'.cursor = client.cursor /\ client'.rows = client.rows
          /\ client'.resume = client.resume /\ client'.mode = "unavailable"
      BY <1>0, <2>1 DEF Browser
    <2> QED BY <1>0, <2>1, <2>2, ClientMoves
  <1>3. CASE HydrateActive
    <2>1. /\ client' = [mode |-> "following", cursor |-> client.resume, rows |-> DOMAIN ledger, resume |-> 0]
          /\ conn' = conn /\ conn.pc = "closed" /\ UNCHANGED streamVars /\ ~over
      BY <1>0, <1>3 DEF HydrateActive
    <2>2. client.resume \in 0..Len(log) /\ DOMAIN ledger \subseteq Nat
      BY <1>0 DEF Inv, ClientInv, Browser
    <2>3. client' \in Browser
      BY <2>1, <2>2 DEF Browser
    <2>4. client.resume = 0 \/ log[client.resume].kind # "terminal"
      BY <1>0, <2>1, <2>2 DEF Inv, StreamInv, EntriesCommitted, TerminalMeansOver
    <2> QED BY <1>0, <2>1, <2>3, <2>4, ClientMoves
  <1>4. CASE StopFollowing
    <2>1. /\ client' = [client EXCEPT !.mode = "stopped", !.cursor = 0, !.resume = 0]
          /\ conn' = conn /\ conn.pc = "closed" /\ UNCHANGED streamVars
      BY <1>0, <1>4 DEF StopFollowing
    <2>2. /\ client' \in Browser /\ client'.cursor = 0 /\ client'.rows = client.rows
          /\ client'.resume = 0 /\ client'.mode = "stopped"
      BY <1>0, <2>1 DEF Browser
    <2> QED BY <1>0, <2>1, <2>2, ClientMoves
  <1>5. CASE Reconnect
    <2>1. /\ client' = [client EXCEPT !.mode = "following"] /\ client.mode = "reconnecting"
          /\ conn' = conn /\ conn.pc = "closed" /\ UNCHANGED streamVars
      BY <1>0, <1>5 DEF Reconnect
    <2>2. /\ client' \in Browser /\ client'.cursor = client.cursor /\ client'.rows = client.rows
          /\ client'.resume = client.resume /\ client'.mode = "following"
      BY <1>0, <2>1 DEF Browser
    <2> QED BY <1>0, <1>a, <2>1, <2>2, ClientMoves
  <1>6. CASE HydrateTerminal
    <2>1. /\ client' = [client EXCEPT !.mode = "done", !.rows = DOMAIN ledger]
          /\ conn' = conn /\ UNCHANGED streamVars
      BY <1>6 DEF HydrateTerminal
    <2>2. /\ client' \in Browser /\ client'.cursor = client.cursor /\ client'.rows = DOMAIN ledger
          /\ client'.resume = client.resume /\ client'.mode = "done"
      <3>1. DOMAIN ledger \in SUBSET Nat
        BY <1>0
      <3> QED BY <1>0, <2>1, <3>1 DEF Browser
    <2> QED BY <1>0, <2>1, <2>2, ClientMoves
  <1> QED BY <1>1, <1>2, <1>3, <1>4, <1>5, <1>6 DEF Browse

\* The reads of resolve_resume and read_stream, the heartbeat, the lease and a gap.
LEMMA ServerSteps ==
  ASSUME Inv, \/ ReadFirst \/ ReadLast \/ ReadCursor \/ XRead \/ IdleCheck \/ GapFrame
              \/ LeaseLapses \/ Disconnect
  PROVE  Inv'
  <1>0. /\ client \in Browser /\ conn \in Connection /\ conn.reason # "unannounced"
        /\ log \in Seq(LogEntry) /\ DOMAIN log = 1..Len(log) /\ Len(log) \in Nat
        /\ over \in BOOLEAN /\ first \in Nat \ {0} /\ PageSize \in Nat \ {0}
        /\ client.cursor \in 0..Len(log) /\ after = client.cursor
        /\ client.mode \in {"reconnecting", "gap", "stopped", "unavailable"} => conn.pc = "closed"
    BY LenProperties, PageAssumption
       DEF Inv, ClientInv, ConnInv, EndIsAnnounced, StreamInv, StreamType, Browser, after
  <1>1. ASSUME NEW r \in {"missing", "retained", "continuity"}, Gap(r), UNCHANGED <<streamVars, client>>,
               conn.pc # "closed"
        PROVE  Inv'
    <2>1. conn' \in Connection /\ conn'.pc = "gap" /\ conn'.reason = r
      BY <1>1 DEF Gap, Closed, Connection
    <2> QED BY <1>0, <1>1, <2>1, ConnMoves
  <1>2. /\ Authorized \in Connection /\ Authorized.pc = conn.pc /\ Authorized.terminal = conn.terminal
        /\ Authorized.reason = conn.reason /\ Authorized.tail = conn.tail
    BY <1>0 DEF Authorized, Connection
  <1>3. CASE ReadFirst
    <2>1. /\ conn' \in Connection /\ conn'.pc = "last" /\ conn'.terminal = conn.terminal
          /\ conn'.reason = conn.reason
      BY <1>0, <1>3 DEF ReadFirst, Connection
    <2>2. UNCHANGED <<streamVars, client>> /\ conn.pc = "first"
      BY <1>3 DEF ReadFirst
    <2> QED BY <1>0, <2>1, <2>2, ConnMoves
  <1>4. ASSUME NEW tail \in Nat, conn' = Follow(conn, tail), after <= tail, tail <= Len(log),
               UNCHANGED <<streamVars, client>>, conn.pc \notin {"closed", "gap"}
        PROVE  Inv'
    <2>1. /\ conn' \in Connection /\ conn'.terminal = conn.terminal /\ conn'.reason = conn.reason
          /\ conn'.tail = tail /\ conn'.pc = IF after = tail THEN "live" ELSE "replay"
      BY <1>0, <1>4 DEF Follow, Connection
    <2> QED BY <1>0, <1>4, <2>1, ConnMoves
  <1>5. CASE ReadLast
    <2> DEFINE lo == conn.lo
               hi == IF Exists THEN Len(log) ELSE 0
    <2>1. UNCHANGED streamVars /\ conn.pc = "last"
      BY <1>5 DEF ReadLast
    <2>2. lo \in Nat /\ hi \in 0..Len(log) /\ (hi # 0 => hi = Len(log))
      BY <1>0 DEF Connection
    <2>3. CASE Gap("missing") /\ UNCHANGED client
      BY <1>1, <2>1, <2>3
    <2>4. CASE Close
      BY <2>1, <2>4, CloseKeeps
    <2>5. CASE hi # 0 /\ conn' = Follow(conn, hi) /\ UNCHANGED client
      <3>1. after <= Len(log) /\ hi = Len(log)
        BY <1>0, <2>2, <2>5
      <3> QED BY <1>0, <1>4, <2>1, <2>5, <3>1
    <2>6. CASE Gap("retained") /\ UNCHANGED client
      BY <1>1, <2>1, <2>6
    <2>7. CASE hi # 0 /\ conn' = [conn EXCEPT !.pc = "exact", !.lo = 0, !.tail = hi] /\ UNCHANGED client
      <3>1. /\ conn' \in Connection /\ conn'.pc = "exact" /\ conn'.terminal = conn.terminal
            /\ conn'.reason = conn.reason /\ conn'.tail = Len(log)
        BY <1>0, <2>2, <2>7 DEF Connection
      <3>2. client.cursor <= Len(log) /\ Len(log) <= Len(log)
        BY <1>0
      <3> QED BY <1>0, <2>1, <2>7, <3>1, <3>2, ConnMoves
    <2> QED BY <1>5, <2>3, <2>4, <2>5, <2>6, <2>7 DEF ReadLast
  <1>6. CASE ReadCursor
    <2>1. UNCHANGED <<streamVars, client>> /\ conn.pc = "exact"
      BY <1>6 DEF ReadCursor
    <2>2. conn.tail \in Nat /\ after <= conn.tail /\ conn.tail <= Len(log)
      BY <1>0, <2>1 DEF Inv, ConnInv, Connection
    <2>3. conn' = Follow(conn, conn.tail) \/ Gap("continuity")
      BY <1>6 DEF ReadCursor
    <2> QED BY <1>1, <1>4, <2>1, <2>2, <2>3
  <1>7. CASE XRead
    <2>1. UNCHANGED <<streamVars, client>> /\ conn.pc = "live"
      BY <1>7 DEF XRead
    <2>2. CASE conn' = [Authorized EXCEPT !.pc = "idle"]
      <3>1. /\ conn' \in Connection /\ conn'.pc = "idle" /\ conn'.terminal = conn.terminal
            /\ conn'.reason = conn.reason
        BY <1>2, <2>2 DEF Connection
      <3> QED BY <1>0, <2>1, <3>1, ConnMoves
    <2>3. CASE /\ Exists /\ after < Len(log)
               /\ conn' = [Authorized EXCEPT !.pc = "replay", !.tail = PageEnd(PageStart, Len(log))]
      <3>1. PageStart \in Nat /\ after < PageStart /\ PageStart <= Len(log)
        <4>1. PageStart = IF first >= after + 1 THEN first ELSE after + 1
          BY <1>0, MaxOfTwo DEF PageStart
        <4> QED BY <1>0, <2>3, <4>1 DEF Exists
      <3>2. PageEnd(PageStart, Len(log)) \in Nat /\ after < PageEnd(PageStart, Len(log))
            /\ PageEnd(PageStart, Len(log)) <= Len(log)
        <4>1. PageEnd(PageStart, Len(log)) =
                IF PageStart + PageSize - 1 <= Len(log) THEN PageStart + PageSize - 1 ELSE Len(log)
          BY <1>0, <3>1, MinOfTwo DEF PageEnd
        <4> QED BY <1>0, <2>3, <3>1, <4>1
      <3>3. /\ conn' \in Connection /\ conn'.pc = "replay" /\ conn'.terminal = conn.terminal
            /\ conn'.reason = conn.reason /\ conn'.tail = PageEnd(PageStart, Len(log))
        BY <1>2, <2>3, <3>2 DEF Connection
      <3> QED BY <1>0, <2>1, <3>2, <3>3, ConnMoves
    <2> QED BY <1>7, <2>2, <2>3 DEF XRead
  <1>8. CASE IdleCheck
    <2>1. UNCHANGED streamVars /\ conn.pc = "idle"
      BY <1>8 DEF IdleCheck
    <2>2. CASE (Gap("continuity") \/ Gap("missing")) /\ UNCHANGED client
      BY <1>1, <2>1, <2>2
    <2>3. CASE Close
      BY <2>1, <2>3, CloseKeeps
    <2>4. CASE conn' = [Authorized EXCEPT !.pc = "live"] /\ UNCHANGED client
      <3>1. /\ conn' \in Connection /\ conn'.pc = "live" /\ conn'.terminal = conn.terminal
            /\ conn'.reason = conn.reason
        BY <1>2, <2>4 DEF Connection
      <3> QED BY <1>0, <2>1, <2>4, <3>1, ConnMoves
    <2>5. \/ (Gap("continuity") \/ Gap("missing")) /\ UNCHANGED client
          \/ Close
          \/ conn' = [Authorized EXCEPT !.pc = "live"] /\ UNCHANGED client
      BY <1>8 DEF IdleCheck
    <2> QED BY <2>2, <2>3, <2>4, <2>5
  <1>9. CASE LeaseLapses
    <2>1. /\ UNCHANGED <<streamVars, client>> /\ conn.pc \notin {"closed", "gap"}
          /\ conn' = [conn EXCEPT !.fresh = FALSE]
      BY <1>9 DEF LeaseLapses
    <2>2. /\ conn' \in Connection /\ conn'.pc = conn.pc /\ conn'.terminal = conn.terminal
          /\ conn'.reason = conn.reason /\ conn'.tail = conn.tail
      BY <1>0, <2>1 DEF Connection
    <2>3. /\ conn.pc = "exact" => client.cursor <= conn.tail /\ conn.tail <= Len(log)
          /\ conn.pc = "replay" => client.cursor < conn.tail /\ conn.tail <= Len(log)
      BY DEF Inv, ConnInv
    <2> QED BY <1>0, <2>1, <2>2, <2>3, ConnMoves
  <1>10. CASE Disconnect
    BY <1>10, CloseKeeps DEF Disconnect
  <1>11. CASE GapFrame
    <2>1. UNCHANGED streamVars /\ conn.pc = "gap"
      BY <1>11 DEF GapFrame
    <2>2. CASE Close
      BY <2>1, <2>2, CloseKeeps
    <2>3. CASE /\ conn' = Closed
               /\ client' = IF client.mode # "following" THEN client
                            ELSE [client EXCEPT !.mode = "gap",
                                    !.resume = IF conn.reason # "missing" /\ after # 0 THEN Len(log) ELSE 0]
      <3>1. Closed \in Connection /\ Closed.pc = "closed" /\ Closed.reason = "none"
        BY DEF Closed, Connection
      <3>2. /\ client' \in Browser /\ client'.cursor = client.cursor /\ client'.rows = client.rows
            /\ client'.resume \in {0, client.resume, Len(log)}
            /\ client'.mode = IF client.mode = "following" THEN "gap" ELSE client.mode
        BY <1>0, <2>3 DEF Browser
      <3>3. client'.mode \in {"following", "reconnecting", "gap"} =>
              client'.cursor = 0 \/ log[client'.cursor].kind # "terminal"
        BY <3>2 DEF Inv, TerminalSeen
      <3> QED BY <2>1, <2>3, <3>1, <3>2, <3>3, ClientMoves
    <2> QED BY <1>11, <2>2, <2>3 DEF GapFrame
  <1> QED BY <1>3, <1>5, <1>6, <1>7, <1>8, <1>9, <1>10, <1>11

\* A page: its entries follow the browser's cursor, or start at the first stream.open.
LEMMA ReadPageStep ==
  ASSUME Inv, ReadPage
  PROVE  Inv'
  <1> DEFINE start == PageStart
             page == start..PageEnd(start, conn.tail)
             terminal == conn.terminal \/ \E k \in page : log[k].kind = "terminal"
             last == PageEnd(start, conn.tail)
  <1>0. /\ client \in Browser /\ conn \in Connection /\ conn.reason # "unannounced"
        /\ log \in Seq(LogEntry) /\ DOMAIN log = 1..Len(log) /\ Len(log) \in Nat
        /\ DOMAIN ledger = 1..Len(ledger) /\ Len(ledger) \in Nat
        /\ over \in BOOLEAN /\ first \in Nat \ {0} /\ PageSize \in Nat \ {0}
        /\ client.cursor \in 0..Len(log) /\ after = client.cursor /\ client.cursor \in Nat
        /\ client.rows \subseteq DOMAIN ledger
        /\ client.mode \in {"reconnecting", "gap", "stopped", "unavailable"} => conn.pc = "closed"
    BY LenProperties, PageAssumption
       DEF Inv, ClientInv, ConnInv, EndIsAnnounced, StreamInv, StreamType, Browser, after
  <1>1. /\ UNCHANGED streamVars /\ conn.pc = "replay"
        /\ client.cursor < conn.tail /\ conn.tail <= Len(log) /\ conn.tail \in Nat
    BY <1>0 DEF ReadPage, Inv, ConnInv, Connection
  <1>2. UNCHANGED <<over, authority, ledger, log, first, expiries>>
    BY <1>1 DEF streamVars, dbVars, redisVars
  <1>3. CASE (Gap("continuity") \/ Gap("missing")) /\ UNCHANGED client
    <2>1. conn' \in Connection /\ conn'.pc = "gap" /\ conn'.reason # "unannounced"
      <3>1. PICK r \in {"continuity", "missing"} : conn' = [Closed EXCEPT !.pc = "gap", !.reason = r]
        BY <1>3 DEF Gap
      <3> QED BY <3>1 DEF Closed, Connection
    <2> QED BY <1>0, <1>1, <1>3, <2>1, ConnMoves
  <1>4. ASSUME Continuous
        PROVE  /\ start \in 1..conn.tail /\ last \in start..conn.tail /\ Max(page) = last
               /\ page \subseteq 1..Len(log) /\ start > after
               /\ after # 0 => start = after + 1
               /\ after = 0 => log[start].kind = "open"
    <2>1. start = IF first >= after + 1 THEN first ELSE after + 1
      BY <1>0, MaxOfTwo DEF PageStart
    <2>2. after = 0 => start = first /\ first <= conn.tail /\ log[first].kind = "open"
      BY <1>0, <1>4, <2>1 DEF Continuous
    <2>3. after # 0 => start = after + 1
      BY <1>0, <1>4, <2>1 DEF Continuous, Retained
    <2>4. start \in 1..conn.tail /\ start > after
      BY <1>0, <1>1, <2>2, <2>3
    <2> HIDE DEF start
    <2>5. last = IF start + PageSize - 1 <= conn.tail THEN start + PageSize - 1 ELSE conn.tail
      BY <1>0, <1>1, <2>4, MinOfTwo DEF PageEnd
    <2>6. last \in start..conn.tail
      BY <1>0, <1>1, <2>4, <2>5
    <2> HIDE DEF last
    <2>7. Max(start..last) = last
      BY <1>1, <2>4, <2>6, MaxOfPage
    <2>8. start..last \subseteq 1..Len(log)
      BY <1>0, <1>1, <2>4, <2>6
    <2> QED BY <2>2, <2>3, <2>4, <2>6, <2>7, <2>8 DEF last
  <1> HIDE DEF start, last
  <1>5. StreamInv'
    BY <1>2 DEF Inv, StreamInv, StreamType, TerminalMeansOver, EntriesCommitted, EndFollowsTerminal,
       RowsInOrder, Original, CallbackRows
  \* The browser after the entries up to j.
  <1>6. ASSUME Continuous, NEW j \in page, NEW m,
               m \in {Received(start, j), Dropped(Received(start, j))}
        PROVE  /\ m \in Browser /\ m.cursor = j /\ j \in 1..Len(log) /\ m.resume = client.resume
               /\ m.rows = client.rows \cup ({log[k].seq : k \in start..j} \ {0})
               /\ m.rows \subseteq DOMAIN ledger
               /\ m.mode \in {client.mode, "settling", "reconnecting"}
               /\ m.mode = "reconnecting" => m = Dropped(Received(start, j))
               /\ (\E k \in start..j : log[k].kind = "terminal") => m.mode = "settling"
    <2> DEFINE new == {log[k].seq : k \in start..j} \ {0}
    <2>1. j \in 1..Len(log) /\ start..j \subseteq 1..Len(log)
      <3>1. start \in Nat /\ start >= 1 /\ last \in Nat /\ j \in start..last /\ j \in 1..Len(log)
        BY <1>1, <1>4, <1>6 DEF last
      <3> QED BY <1>0, <3>1
    <2>2. new \subseteq DOMAIN ledger
      <3>1. ASSUME NEW k \in start..j, log[k].seq # 0
            PROVE  log[k].seq \in DOMAIN ledger
        BY <1>0, <2>1, <3>1 DEF Inv, StreamInv, EntriesCommitted
      <3> QED BY <3>1
    <2>3. client.rows \cup new \in SUBSET Nat /\ client.rows \cup new \subseteq DOMAIN ledger
      BY <1>0, <2>2
    <2> HIDE DEF new
    <2>4. /\ Received(start, j) \in Browser /\ Received(start, j).cursor = j
          /\ Received(start, j).rows = client.rows \cup new /\ Received(start, j).resume = client.resume
          /\ Received(start, j).mode = IF \E k \in start..j : log[k].kind = "terminal" THEN "settling" ELSE client.mode
      <3> DEFINE md == IF \E k \in start..j : log[k].kind = "terminal" THEN "settling" ELSE client.mode
                 nr == client.rows \cup new
      <3>1. Received(start, j) = [client EXCEPT !.cursor = j, !.rows = nr, !.mode = md]
        BY <1>0 DEF Received, new, Browser
      <3>2. /\ md \in {"following", "reconnecting", "gap", "stopped", "settling", "unavailable", "done"}
            /\ nr \in SUBSET Nat /\ j \in Nat
        BY <1>0, <2>1, <2>3 DEF Browser
      <3> HIDE DEF md, nr
      <3>3. /\ Received(start, j) \in Browser /\ Received(start, j).cursor = j
            /\ Received(start, j).rows = nr /\ Received(start, j).resume = client.resume
            /\ Received(start, j).mode = md
        BY <1>0, <3>1, <3>2 DEF Browser
      <3> QED BY <3>3 DEF md, nr
    <2>5. LET d == Dropped(Received(start, j)) IN
            /\ d \in Browser /\ d.cursor = j /\ d.rows = client.rows \cup new /\ d.resume = client.resume
            /\ d.mode = IF Received(start, j).mode = "following" THEN "reconnecting" ELSE Received(start, j).mode
      BY <2>4 DEF Dropped, Browser
    <2>6. client.mode \in {"following", "settling", "done"}
      BY <1>0, <1>1 DEF Browser
    <2> QED BY <1>6, <2>1, <2>3, <2>4, <2>5, <2>6 DEF new
  <1>7. ASSUME Continuous, NEW j \in page, client' \in {Received(start, j), Dropped(Received(start, j))}
        PROVE  ClientMissesNothing' /\ NoHoleInAnswer'
    <2>0. /\ client'.cursor = j /\ j \in 1..Len(log)
          /\ client'.rows = client.rows \cup ({log[k].seq : k \in start..j} \ {0})
      BY <1>6, <1>7
    <2>1. start \in Nat /\ start >= 1 /\ j >= start
      <3>1. start \in Nat /\ start >= 1 /\ j \in start..last /\ last \in Nat
        BY <1>1, <1>4, <1>7 DEF last
      <3> QED BY <3>1
    <2>2. ASSUME Original(j), NEW i \in 1..j, log[i].seq # 0
          PROVE  log[i].seq \in client'.rows
      <3>1. CASE i >= start
        <4>1. i \in start..j
          BY <2>0, <2>1, <3>1
        <4> QED BY <2>0, <2>2, <4>1
      <3>2. CASE i < start
        <4>1. after # 0
          <5> SUFFICES ASSUME after = 0 PROVE FALSE
            OBVIOUS
          <5>1. log[start].kind = "open"
            BY <1>4, <1>7
          <5>2. start \in 2..j
            BY <2>0, <2>1, <3>2
          <5> QED BY <2>2, <5>1, <5>2 DEF Original
        <4>2. start = after + 1 /\ i \in 1..client.cursor
          BY <1>0, <1>4, <1>7, <2>1, <3>2, <4>1
        <4>3. Original(client.cursor)
          <5>1. client.cursor <= j
            BY <1>0, <2>0, <2>1, <4>2
          <5> QED BY <1>0, <2>0, <2>2, <5>1 DEF Original
        <4>4. log[i].seq \in client.rows
          BY <2>2, <4>2, <4>3 DEF Inv, ClientInv, ClientMissesNothing
        <4> QED BY <2>0, <4>4
      <3> QED BY <2>0, <2>1, <3>1, <3>2
    <2>3. ClientMissesNothing'
      <3>1. Original(client.cursor)' => Original(j)
        BY <1>2, <2>0 DEF Original
      <3> QED BY <1>2, <2>0, <2>2, <3>1 DEF ClientMissesNothing
    <2>4. NoHoleInAnswer'
      <3> SUFFICES ASSUME Original(Len(log)), NEW s \in client'.rows, NEW t \in 1..(s - 1), t \in CallbackRows
                   PROVE  t \in client'.rows
        BY <1>2 DEF NoHoleInAnswer, Original, CallbackRows
      <3>1. CASE s \in client.rows
        BY <2>0, <3>1 DEF Inv, ClientInv, NoHoleInAnswer
      <3>2. CASE s \notin client.rows
        <4>1. PICK k \in start..j : s = log[k].seq
          BY <2>0, <3>2
        <4>2. k \in 1..Len(log) /\ k \in Nat /\ k <= j
          BY <1>0, <2>0, <2>1
        <4>3. s \in Nat /\ t \in Nat /\ t < s /\ t # 0
          <5>1. log[k] \in LogEntry
            BY <1>0, <4>2
          <5>2. s \in Nat
            BY <4>1, <5>1 DEF LogEntry
          <5> QED BY <5>2
        <4>4. PICK i \in 1..k : log[i].seq = t
          BY <1>0, <4>1, <4>2, <4>3 DEF Inv, StreamInv, RowsInOrder
        <4>5. i \in 1..j
          BY <2>0, <4>2
        <4>6. Original(j)
          BY <1>0, <2>0 DEF Original
        <4> QED BY <2>2, <4>3, <4>4, <4>5, <4>6
      <3> QED BY <3>1, <3>2
    <2> QED BY <2>3, <2>4
  \* The connection closes after entry j.
  <1>8. ASSUME Continuous, NEW j \in page, client' = Dropped(Received(start, j)),
               conn' \in Connection, conn'.pc = "closed", conn'.reason # "unannounced"
        PROVE  Inv'
    <2>1. /\ client' \in Browser /\ client'.cursor = j /\ j \in 1..Len(log) /\ client'.resume = client.resume
          /\ client'.rows \subseteq DOMAIN ledger
          /\ (\E k \in start..j : log[k].kind = "terminal") => client'.mode = "settling"
      BY <1>6, <1>8
    <2>2. ClientMissesNothing' /\ NoHoleInAnswer'
      BY <1>7, <1>8
    <2>3. ConnInv'
      BY <1>8 DEF ConnInv, EndIsAnnounced
    <2>4. ClientInv'
      BY <1>0, <1>2, <1>8, <2>1, <2>2 DEF Inv, ClientInv
    <2>5. TerminalSeen'
      <3>1. j \in start..j
        BY <1>1, <1>4, <1>8, <2>1
      <3> QED BY <1>2, <1>8, <2>1, <3>1 DEF TerminalSeen
    <2> QED BY <1>5, <2>3, <2>4, <2>5 DEF Inv
  <1>9. CASE /\ Continuous
             /\ \E j \in page : j # Max(page) /\ client' = Dropped(Received(start, j))
             /\ conn' = Closed
    <2>1. Closed \in Connection /\ Closed.pc = "closed" /\ Closed.reason = "none"
      BY DEF Closed, Connection
    <2> QED BY <1>8, <1>9, <2>1
  <1>10. CASE /\ Continuous /\ client' = Received(start, Max(page))
              /\ conn' = [Authorized EXCEPT !.pc = IF Max(page) = conn.tail THEN "live" ELSE "replay",
                                            !.terminal = terminal]
    <2>0. Max(page) = last /\ last \in page /\ last \in Nat /\ last <= conn.tail /\ start <= last
          /\ start \in Nat
      BY <1>1, <1>4, <1>10 DEF last
    <2>1. /\ client' \in Browser /\ client'.cursor = last /\ last \in 1..Len(log)
          /\ client'.resume = client.resume /\ client'.rows \subseteq DOMAIN ledger
          /\ client'.mode \in {client.mode, "settling", "reconnecting"}
          /\ (\E k \in start..last : log[k].kind = "terminal") => client'.mode = "settling"
      BY <1>6, <1>10, <2>0
    <2>2. ClientMissesNothing' /\ NoHoleInAnswer'
      BY <1>7, <1>10, <2>0
    <2>3. terminal \in BOOLEAN
      BY <1>0 DEF Connection
    <2> HIDE DEF terminal
    <2>4. /\ conn' \in Connection /\ conn'.reason = conn.reason /\ conn'.tail = conn.tail
          /\ conn'.pc = (IF last = conn.tail THEN "live" ELSE "replay") /\ conn'.terminal = terminal
      <3>1. Authorized \in Connection /\ Authorized.reason = conn.reason /\ Authorized.tail = conn.tail
        BY <1>0 DEF Authorized, Connection
      <3> QED BY <1>10, <2>0, <2>3, <3>1 DEF Connection
    <2>5. ConnInv'
      BY <1>0, <1>1, <1>2, <2>0, <2>1, <2>4 DEF ConnInv, EndIsAnnounced
    <2>6. client'.mode # "reconnecting"
      <3>1. Received(start, last).mode \in {client.mode, "settling"}
        BY <1>0 DEF Received, Browser
      <3> QED BY <1>0, <1>1, <1>10, <2>0, <3>1
    <2>7. ClientInv'
      BY <1>0, <1>1, <1>2, <2>1, <2>2, <2>6 DEF Inv, ClientInv
    <2>8. TerminalSeen'
      <3>1. last \in start..last /\ page = start..last
        BY <2>0 DEF last
      <3>2. log[last].kind = "terminal" => terminal
        BY <2>0 DEF terminal
      <3> QED BY <1>2, <2>1, <2>4, <3>1, <3>2 DEF TerminalSeen
    <2> QED BY <1>5, <2>5, <2>7, <2>8 DEF Inv
  <1>11. CASE /\ Continuous /\ \E k \in page : log[k].kind = "end"
              /\ client' = Dropped(Received(start, Max(page)))
              /\ conn' = [Closed EXCEPT !.reason = IF terminal THEN "none" ELSE "unannounced"]
    <2>0. Max(page) = last /\ last \in page
      BY <1>1, <1>4, <1>11 DEF last
    <2>1. terminal
      <3>1. PICK k \in page : log[k].kind = "end"
        BY <1>11
      <3>2. k \in 1..Len(log) /\ k \in Nat /\ k >= start /\ start \in Nat /\ last \in Nat /\ k <= last
        BY <1>1, <1>4, <1>11 DEF last
      <3>3. k > 1 /\ log[k - 1].kind = "terminal"
        BY <1>0, <3>1, <3>2 DEF Inv, StreamInv, EndFollowsTerminal
      <3>4. CASE k > start
        <4>1. k - 1 \in page
          BY <3>2, <3>4 DEF last
        <4> QED BY <3>3, <4>1
      <3>5. CASE k = start
        <4>1. after # 0
          BY <1>4, <1>11, <3>1, <3>5
        <4>2. k - 1 = client.cursor /\ client.cursor # 0
          BY <1>0, <1>4, <1>11, <3>5, <4>1
        <4>3. conn.terminal
          BY <1>1, <3>3, <4>2 DEF Inv, TerminalSeen
        <4> QED BY <4>3
      <3> QED BY <3>2, <3>4, <3>5
    <2>2. conn' = [Closed EXCEPT !.reason = "none"]
      BY <1>11, <2>1
    <2>3. conn' \in Connection /\ conn'.pc = "closed" /\ conn'.reason = "none"
      BY <2>2 DEF Closed, Connection
    <2> QED BY <1>8, <1>11, <2>0, <2>3
  <1>12. \/ (Gap("continuity") \/ Gap("missing")) /\ UNCHANGED client
         \/ Continuous /\ (\E j \in page : j # Max(page) /\ client' = Dropped(Received(start, j))) /\ conn' = Closed
         \/ /\ Continuous /\ client' = Received(start, Max(page))
            /\ conn' = [Authorized EXCEPT !.pc = IF Max(page) = conn.tail THEN "live" ELSE "replay",
                                          !.terminal = terminal]
         \/ /\ Continuous /\ \E k \in page : log[k].kind = "end"
            /\ client' = Dropped(Received(start, Max(page)))
            /\ conn' = [Closed EXCEPT !.reason = IF terminal THEN "none" ELSE "unannounced"]
    BY DEF ReadPage, start
  <1> QED BY <1>3, <1>9, <1>10, <1>11, <1>12

\* The first state.
LEMMA ReaderInit == Init => Inv
  <1> SUFFICES ASSUME Init PROVE Inv
    OBVIOUS
  <1>1. StreamInv
    <2>1. /\ ledger = <<>> /\ log = <<>> /\ first = 1 /\ expiries = 0 /\ over = FALSE /\ authority = "none"
          /\ DOMAIN ledger = {} /\ DOMAIN log = {} /\ Len(log) = 0
      BY DEF Init, InitStream
    <2>2. ledger \in Seq(Kind) /\ log \in Seq(LogEntry)
      BY <2>1, EmptySeq
    <2>3. StreamType
      <3>1. over \in BOOLEAN
        BY <2>1, Zenon
      <3>2. first \in Nat \ {0} /\ first <= Len(log) + 1 /\ expiries \in Nat
        BY <2>1
      <3> QED BY <2>1, <2>2, <3>1, <3>2, Zenon DEF StreamType
    <2> QED BY <2>1, <2>3 DEF StreamInv, TerminalMeansOver, EntriesCommitted, EndFollowsTerminal, RowsInOrder
  <1>2. ConnInv
    BY DEF Init, Closed, ConnInv, EndIsAnnounced, Connection
  <1>3. ClientInv
    BY DEF Init, InitStream, Closed, ClientInv, Browser, ClientMissesNothing, NoHoleInAnswer
  <1>4. TerminalSeen
    BY DEF Init, TerminalSeen
  <1> QED BY <1>1, <1>2, <1>3, <1>4 DEF Inv

\* The connection, the browser and the stream agree in every state.
THEOREM ReaderInvariance == Spec => []Inv
  <1>1. Inv /\ [Next]_vars => Inv'
    <2> SUFFICES ASSUME Inv, [Next]_vars PROVE Inv'
      OBVIOUS
    <2>1. CASE NextStream /\ UNCHANGED <<conn, client>>
      BY <2>1, StreamSteps
    <2>2. CASE ReadPage
      BY <2>2, ReadPageStep
    <2>3. CASE \/ ReadFirst \/ ReadLast \/ ReadCursor \/ XRead \/ IdleCheck \/ GapFrame
               \/ LeaseLapses \/ Disconnect
      BY <2>3, ServerSteps
    <2>4. CASE Browse \/ StatusUnavailable
      BY <2>4, BrowserSteps
    <2>5. CASE UNCHANGED vars
      <3>1. UNCHANGED <<over, authority, ledger, log, first, expiries, conn, client>>
        BY <2>5 DEF vars, streamVars, dbVars, redisVars
      <3>2. StreamInv'
        BY <3>1 DEF Inv, StreamInv, StreamType, TerminalMeansOver, EntriesCommitted,
           EndFollowsTerminal, RowsInOrder, Original, CallbackRows
      <3>3. Len(log) <= Len(log') /\ Len(ledger) <= Len(ledger')
        BY <3>1, LenProperties DEF Inv, StreamInv, StreamType
      <3> QED BY <3>1, <3>2, <3>3, ReaderKept
    <2> QED BY <2>1, <2>2, <2>3, <2>4, <2>5 DEF Next, Serve
  <1> QED BY <1>1, ReaderInit, PTL DEF Spec

\* For every page size and retention, stream.end is never sent to a browser that has not
\* seen the terminal event.
THEOREM EndAlwaysAnnounced == Spec => []EndIsAnnounced
  <1>1. Inv => EndIsAnnounced
    BY DEF Inv, ConnInv
  <1> QED BY <1>1, ReaderInvariance, PTL

\* Whatever is trimmed, expires or is created again between two reads, the browser has every
\* row of the stream up to its cursor.
THEOREM NothingMissed == Spec => []ClientMissesNothing
  <1>1. Inv => ClientMissesNothing
    BY DEF Inv, ClientInv
  <1> QED BY <1>1, ReaderInvariance, PTL

\* The answer a browser shows has no hole, however its rows reached it.
THEOREM AnswerHasNoHole == Spec => []NoHoleInAnswer
  <1>1. Inv => NoHoleInAnswer
    BY DEF Inv, ClientInv
  <1> QED BY <1>1, ReaderInvariance, PTL

=============================================================================
