------------------------- MODULE RunLifecycleProofs -------------------------
(***************************************************************************)
(* Proofs about RunLifecycle, for any number of deliveries and any set of  *)
(* maintenance loops: the run row and its attempts agree, a run executes   *)
(* at most once, the first intent wins, and an attempt a reconciler took   *)
(* over is out of its worker's reach.                                      *)
(*                                                                         *)
(* Every transaction that writes the two rows makes one of three moves:    *)
(* it writes the run alone, it writes the run and one existing attempt, or *)
(* it binds the first attempt.  The proof first shows what a move keeps,   *)
(* then that each action makes a move, and last what the steps of the      *)
(* workers and of the maintenance loops do to their own program counters.  *)
(***************************************************************************)
EXTENDS RunLifecycle, FiniteSetTheorems, TLAPS

Bound == {"executing", "blocked", "finishing"}

(* What holds of every run row the code writes *)
RunFits(r) ==
  /\ r \in Run
  /\ r.status = "succeeded" => ~r.cancel
  /\ Settled(r) => r.target = "none"

(* An attempt row that goes with run row r *)
AttemptFits(r, a) ==
  /\ a.status \in RunTerminal => a.status = r.status
  /\ a.status = "expired" =>
       a.owner = "reconciler" /\ r.status = "running" /\ r.target = "failed"

(* What the processes know about the rows: a worker past its bind has an   *)
(* attempt, one about to finish an escaped failure still owns it and finds *)
(* the failure staged or the run settled; so does a reconciler that staged *)
(* the run, which names the attempt it expired; before its first enqueue   *)
(* the run has met no worker.                                              *)
StepsAgree ==
  /\ \A d \in Delivery : pc[d] \in Bound => Exists(d)
  /\ \A d \in Delivery : pc[d] = "finishing" =>
       /\ attempt[d].owner = "queue_worker"
       /\ Settled(run) \/ run.target = "failed"
  /\ \A r \in Reconcilers : rec[r].step = "staged" =>
       /\ Settled(run) \/ run.target \in {"failed", "cancelled"}
       /\ \A d \in Delivery : attempt[d].status = "expired" => rec[r].at = d
  /\ msg = "absent" => ~AnyAttempt /\ \A d \in Delivery : pc[d] = "idle"

LifecycleInv == TypeOK /\ ExecutedAtMostOnce /\ RowsAgree /\ StepsAgree

-----------------------------------------------------------------------------
(* Moves of the two rows                                                   *)

RunMoves(r, s) ==
  /\ r.target \in {"failed", "cancelled"} =>
       \/ s.target = r.target /\ s.status \in RunOpen
       \/ s.status = r.target
  /\ r.target = "cancel_requested" =>
       \/ s.target \in {"cancel_requested", "cancelled"} /\ s.status \in RunOpen
       \/ s.status = "cancelled"
  /\ Settled(r) => s = r

WritesRun ==
  /\ attempt' = attempt
  /\ RunFits(run') /\ RunMoves(run, run')
  /\ run'.status \in {"queued", "running"} => run'.status = run.status
  /\ run' # run => \A d \in Delivery : attempt[d].status # "expired"

WritesAttempt(d, a) ==
  /\ Exists(d)
  /\ a \in Attempt
  /\ attempt' = [attempt EXCEPT ![d] = a]
  /\ RunFits(run') /\ RunMoves(run, run') /\ AttemptFits(run', a)
  /\ run'.status # "queued"
  /\ run'.status = "running" => a.status \in AttemptOpen
  /\ attempt[d].status \in RunTerminal => a = attempt[d]
  /\ \/ run.target = "none" /\ ~Settled(run)
     \/ a.owner = attempt[d].owner /\ (a.status = "expired" => attempt[d].status = "expired")

BindsAttempt(d) ==
  /\ run.status = "queued" /\ pc[d] = "admitted"
  /\ run' = [run EXCEPT !.status = "running"]
  /\ attempt' = [attempt EXCEPT ![d] = StartedAttempt]

RowMove ==
  \/ WritesRun
  \/ \E d \in Delivery : BindsAttempt(d) \/ \E a \in Attempt : WritesAttempt(d, a)

RowTypes == run \in Run /\ attempt \in [Delivery -> Attempt \cup {NoAttempt}]

LEMMA RunOfInv == ASSUME TypeOK, RowsAgree PROVE RunFits(run)
  BY DEF TypeOK, RowsAgree, RunFits

LEMMA AttemptOfInv ==
  ASSUME TypeOK, RowsAgree, NEW d \in Delivery PROVE AttemptFits(run, attempt[d])
  BY DEF RowsAgree, AttemptFits

LEMMA StayingMoves == ASSUME NEW r, RunFits(r) PROVE RunMoves(r, r)
  BY DEF RunFits, RunMoves, Run, Settled, RunTerminal, RunOpen, Targets

LEMMA UntouchedRows ==
  ASSUME TypeOK, RowsAgree, run' = run, attempt' = attempt PROVE RowMove
  <1>1. RunFits(run) /\ RunMoves(run, run)
    BY RunOfInv, StayingMoves
  <1> QED BY <1>1 DEF RowMove, WritesRun

(* A first attempt has ordinal one *)
LEMMA FirstAttempt ==
  ASSUME TypeOK, RowsAgree, run.status = "queued"
  PROVE /\ StartedAttempt \in Attempt
        /\ StartedAttempt.status = "running" /\ StartedAttempt.owner = "queue_worker"
  <1>1. {d \in Delivery : Exists(d)} = {}
    BY DEF RowsAgree, AnyAttempt
  <1>2. Cardinality({d \in Delivery : Exists(d)}) = 0
    BY <1>1, FS_EmptySet
  <1> QED BY <1>2 DEF StartedAttempt, Attempt, AttemptStatus, AttemptOpen

(* What a move keeps: the agreement of the rows ... *)
LEMMA MoveKeepsRows ==
  ASSUME TypeOK, ExecutedAtMostOnce, RowsAgree, RowMove
  PROVE RowTypes' /\ ExecutedAtMostOnce' /\ RowsAgree'
  <1>1. CASE WritesRun
    <2>1. RowTypes' /\ ExecutedAtMostOnce'
      BY <1>1 DEF WritesRun, RowTypes, TypeOK, RunFits, ExecutedAtMostOnce, Exists
    <2>2. RowsAgree'
      BY <1>1, AttemptOfInv DEF WritesRun, RowsAgree, AnyAttempt, Exists, RunFits, RunMoves, Settled, Run,
         RunTerminal, RunOpen, AttemptOpen
    <2> QED BY <2>1, <2>2
  <1>2. ASSUME NEW d \in Delivery, BindsAttempt(d) PROVE RowTypes' /\ ExecutedAtMostOnce' /\ RowsAgree'
    <2>1. /\ StartedAttempt \in Attempt
          /\ StartedAttempt.status = "running" /\ StartedAttempt.owner = "queue_worker"
      BY <1>2, FirstAttempt DEF BindsAttempt
    <2>2. \A e \in Delivery : attempt[e].status = "none"
      BY <1>2 DEF BindsAttempt, RowsAgree, AnyAttempt, Exists
    <2>3. RowTypes'
      BY <1>2, <2>1 DEF BindsAttempt, RowTypes, TypeOK, Run, RunOpen
    <2>4. \A e \in Delivery : attempt'[e].status = IF e = d THEN "running" ELSE "none"
      BY <1>2, <2>1, <2>2 DEF BindsAttempt, TypeOK
    <2>5. run'.status = "running"
      BY <1>2 DEF BindsAttempt, TypeOK, Run
    <2>6. ExecutedAtMostOnce'
      BY <2>4 DEF ExecutedAtMostOnce, Exists
    <2>7. RowsAgree'
      BY <2>4, <2>5 DEF RowsAgree, AnyAttempt, Exists, Settled, RunTerminal, AttemptOpen
    <2> QED BY <2>3, <2>6, <2>7
  <1>3. ASSUME NEW d \in Delivery, NEW a \in Attempt, WritesAttempt(d, a)
        PROVE RowTypes' /\ ExecutedAtMostOnce' /\ RowsAgree'
    <2>1. RowTypes'
      BY <1>3 DEF WritesAttempt, RowTypes, TypeOK, RunFits
    <2>2. /\ attempt'[d] = a
          /\ \A e \in Delivery : e # d => attempt'[e] = attempt[e] /\ attempt'[e].status = "none"
      BY <1>3 DEF WritesAttempt, TypeOK, ExecutedAtMostOnce, Exists
    <2>3. ExecutedAtMostOnce'
      BY <2>2 DEF ExecutedAtMostOnce, Exists
    <2>4. AttemptFits(run', a) /\ RunFits(run') /\ run'.status # "queued"
          /\ (run'.status = "running" => a.status \in AttemptOpen)
      BY <1>3 DEF WritesAttempt
    <2>5. RowsAgree'
      BY <2>2, <2>4 DEF RowsAgree, AttemptFits, RunFits, Settled, RunTerminal, AttemptOpen
    <2> QED BY <2>1, <2>3, <2>5
  <1> QED BY <1>1, <1>2, <1>3 DEF RowMove

(* ... the first intent, and every settled row ... *)
LEMMA MoveKeepsIntent ==
  ASSUME TypeOK, RowsAgree, RowMove
  PROVE RunMoves(run, run')
        /\ \A d \in Delivery : attempt[d].status \in RunTerminal => attempt'[d] = attempt[d]
  <1>1. CASE WritesRun
    BY <1>1 DEF WritesRun
  <1>2. ASSUME NEW d \in Delivery, BindsAttempt(d)
        PROVE RunMoves(run, run')
              /\ \A e \in Delivery : attempt[e].status \in RunTerminal => attempt'[e] = attempt[e]
    <2>1. \A e \in Delivery : attempt[e].status = "none"
      BY <1>2 DEF BindsAttempt, RowsAgree, AnyAttempt, Exists
    <2>2. run'.status = "running" /\ run'.target = run.target /\ ~Settled(run)
      BY <1>2 DEF BindsAttempt, TypeOK, Run, Settled, RunTerminal
    <2> QED BY <2>1, <2>2 DEF RunMoves, RunTerminal, RunOpen
  <1>3. ASSUME NEW d \in Delivery, NEW a \in Attempt, WritesAttempt(d, a)
        PROVE RunMoves(run, run')
              /\ \A e \in Delivery : attempt[e].status \in RunTerminal => attempt'[e] = attempt[e]
    BY <1>3 DEF WritesAttempt, TypeOK
  <1> QED BY <1>1, <1>2, <1>3 DEF RowMove

(* ... and what the processes remember of them *)
LEMMA MoveKeepsMemory ==
  ASSUME TypeOK, RowsAgree, RowMove
  PROVE /\ \A d \in Delivery : Exists(d) => Exists(d)'
        /\ Settled(run) => Settled(run')
        /\ run.target = "failed" => Settled(run') \/ run'.target = "failed"
        /\ run.target \in {"failed", "cancelled"} =>
             Settled(run') \/ run'.target \in {"failed", "cancelled"}
        /\ Settled(run) \/ run.target # "none" =>
             \A d \in Delivery :
               /\ Exists(d) => attempt'[d].owner = attempt[d].owner
               /\ attempt'[d].status = "expired" => attempt[d].status = "expired"
  <1>1. RunMoves(run, run')
    BY MoveKeepsIntent
  <1>2. /\ Settled(run) => Settled(run')
        /\ run.target = "failed" => Settled(run') \/ run'.target = "failed"
        /\ run.target \in {"failed", "cancelled"} =>
             Settled(run') \/ run'.target \in {"failed", "cancelled"}
    BY <1>1 DEF RunMoves, Settled, RunTerminal
  <1>3. CASE WritesRun
    BY <1>2, <1>3 DEF WritesRun, Exists
  <1>4. ASSUME NEW d \in Delivery, BindsAttempt(d)
        PROVE \A e \in Delivery : /\ ~Exists(e)
                                  /\ attempt'[e].status # "expired"
    <2>1. \A e \in Delivery : attempt[e].status = "none"
      BY <1>4 DEF BindsAttempt, RowsAgree, AnyAttempt, Exists
    <2>2. StartedAttempt.status = "running"
      BY <1>4, FirstAttempt DEF BindsAttempt
    <2> QED BY <1>4, <2>1, <2>2 DEF BindsAttempt, TypeOK, Exists
  <1>5. ASSUME NEW d \in Delivery, NEW a \in Attempt, WritesAttempt(d, a)
        PROVE /\ \A e \in Delivery : Exists(e) => Exists(e)'
              /\ Settled(run) \/ run.target # "none" =>
                   \A e \in Delivery :
                     /\ Exists(e) => attempt'[e].owner = attempt[e].owner
                     /\ attempt'[e].status = "expired" => attempt[e].status = "expired"
    BY <1>5 DEF WritesAttempt, TypeOK, Exists, Attempt, AttemptStatus, AttemptOpen, RunTerminal
  <1> QED BY <1>2, <1>3, <1>4, <1>5 DEF RowMove

-----------------------------------------------------------------------------
(* What the operators on the rows return                                   *)

LEMMA FailRunEffect ==
  ASSUME NEW r, RunFits(r)
  PROVE /\ RunFits(FailRun(r)) /\ RunMoves(r, FailRun(r))
        /\ \/ FailRun(r) = r
           \/ /\ ~Settled(r) /\ r.target \in {"none", "failed"}
              /\ FailRun(r).status = "failed"
  BY DEF FailRun, StageRun, ProgressRun, RunFits, RunMoves, Run, Settled, RunTerminal, RunOpen, Targets

LEMMA CancelRunEffect ==
  ASSUME NEW r, RunFits(r)
  PROVE /\ RunFits(CancelRun(r)) /\ RunMoves(r, CancelRun(r))
        /\ \/ CancelRun(r) = r /\ (Settled(r) \/ r.target = "failed")
           \/ /\ ~Settled(r) /\ r.target # "failed"
              /\ CancelRun(r).status = "cancelled"
  BY DEF CancelRun, StageRun, ProgressRun, RunFits, RunMoves, Run, Settled, RunTerminal, RunOpen, Targets

(* finish_run_terminalization of a staged outcome settles the run as that *)
LEMMA ProgressEffect ==
  ASSUME NEW r, RunFits(r), Settled(r) \/ r.target \in {"failed", "cancelled"}
  PROVE /\ RunFits(ProgressRun(r)) /\ RunMoves(r, ProgressRun(r))
        /\ Settled(ProgressRun(r))
        /\ Settled(r) => ProgressRun(r) = r
  BY DEF ProgressRun, RunFits, RunMoves, Run, Settled, RunTerminal, RunOpen, Targets

(* A status, an owner and a new generation written into an attempt *)
Written(a, s, o, n) == [a EXCEPT !.status = s, !.owner = o, !.gen = @ + n]

LEMMA AttemptWritten ==
  ASSUME NEW a \in Attempt, NEW s \in AttemptStatus, NEW o \in {"queue_worker", "reconciler"},
         NEW n \in Nat \ {0}
  PROVE /\ Written(a, s, o, n) \in Attempt
        /\ Written(a, s, o, n).status = s
        /\ Written(a, s, o, n).owner = o
  <1>1. PICK m \in Nat \ {0} : m = a.gen + n
    <2>1. a.gen \in Nat \ {0}
      BY DEF Attempt
    <2>2. a.gen + n \in Nat \ {0}
      BY <2>1
    <2> QED BY <2>2
  <1>2. [a EXCEPT !.status = s, !.owner = o, !.gen = m] \in Attempt
    BY DEF Attempt
  <1>3. Written(a, s, o, n) \in Attempt
    BY <1>1, <1>2 DEF Written
  <1>4. Written(a, s, o, n).status = s /\ Written(a, s, o, n).owner = o
    BY DEF Written, Attempt
  <1> QED BY <1>3, <1>4

LEMMA TransitionEffect ==
  ASSUME NEW a \in Attempt, NEW s \in AttemptStatus, NEW o \in {"queue_worker", "reconciler"},
         o = a.owner
  PROVE /\ Transition(a, s, o) \in Attempt
        /\ Transition(a, s, o).status = s
        /\ Transition(a, s, o).owner = o
        /\ a.status = s => Transition(a, s, o) = a
  <1>1. Transition(a, s, o) = IF a.status = s THEN a ELSE Written(a, s, o, 1)
    BY DEF Transition, Written
  <1> QED BY <1>1, AttemptWritten

LEMMA TerminalizeEffect ==
  ASSUME NEW a \in Attempt, NEW s \in RunTerminal
  PROVE /\ Terminalize(a, s) \in Attempt
        /\ Terminalize(a, s).status = s
        /\ Terminalize(a, s).owner = a.owner
        /\ a.status = s => Terminalize(a, s) = a
  <1>1. a.status # "none"
    BY DEF Attempt, AttemptStatus, AttemptOpen, RunTerminal
  <1>2. Terminalize(a, s) = Transition(a, s, a.owner)
    BY <1>1 DEF Terminalize
  <1>3. s \in AttemptStatus /\ a.owner \in {"queue_worker", "reconciler"}
    BY DEF AttemptStatus, Attempt
  <1> QED BY <1>2, <1>3, TransitionEffect

LEMMA RequestCancelEffect ==
  ASSUME NEW a \in Attempt
  PROVE /\ RequestCancel(a) \in Attempt
        /\ RequestCancel(a).owner = a.owner
        /\ \/ RequestCancel(a) = a
           \/ a.status \in AttemptOpen /\ RequestCancel(a).status = "cancel_requested"
  <1>1. "cancel_requested" \in AttemptStatus /\ a.owner \in {"queue_worker", "reconciler"}
    BY DEF AttemptStatus, AttemptOpen, Attempt
  <1>2. /\ Transition(a, "cancel_requested", a.owner) \in Attempt
        /\ Transition(a, "cancel_requested", a.owner).status = "cancel_requested"
        /\ Transition(a, "cancel_requested", a.owner).owner = a.owner
    BY <1>1, TransitionEffect
  <1> QED BY <1>2 DEF RequestCancel, AttemptOpen

LEMMA PrepareStaleEffect ==
  ASSUME NEW a \in Attempt, NEW s \in {"failed", "cancelled"}
  PROVE /\ PrepareStale(a, s) \in Attempt
        /\ \/ PrepareStale(a, s) = a
           \/ /\ PrepareStale(a, s).owner = "reconciler"
              /\ PrepareStale(a, s).status = IF s = "failed" THEN "expired" ELSE "cancel_requested"
        /\ s = "failed" => PrepareStale(a, s).status = "expired"
  <1>1. {"expired", "cancel_requested"} \subseteq AttemptStatus
    BY DEF AttemptStatus, AttemptOpen
  <1> DEFINE n == CASE a.status = "created" -> 3 [] a.status = "queued" -> 2 [] OTHER -> 1
  <1>2. n \in Nat \ {0}
    OBVIOUS
  <1>3. CASE s = "failed"
    <2>1. PrepareStale(a, s) = IF a.status # "expired" THEN Written(a, "expired", "reconciler", n) ELSE a
      BY <1>3 DEF PrepareStale, Written
    <2> HIDE DEF n
    <2> QED BY <1>1, <1>2, <1>3, <2>1, AttemptWritten
  <1>4. CASE s = "cancelled"
    <2>1. PrepareStale(a, s) \in {a, Written(a, "cancel_requested", "reconciler", 1)}
      BY <1>4 DEF PrepareStale, Written
    <2> QED BY <1>1, <1>4, <2>1, AttemptWritten
  <1> QED BY <1>3, <1>4

(* get_latest_run_attempt finds the one attempt there is *)
LEMMA LatestIsTheOne ==
  ASSUME TypeOK, ExecutedAtMostOnce, AnyAttempt
  PROVE Latest \in Delivery /\ Exists(Latest)
  <1>1. PICK d \in Delivery : Exists(d)
    BY DEF AnyAttempt
  <1>2. \A e \in Delivery : attempt[e].ordinal <= attempt[d].ordinal
    <2>1. attempt[d] \in Attempt
      BY <1>1 DEF TypeOK, Exists, NoAttempt
    <2>2. \A e \in Delivery : e # d => attempt[e] = NoAttempt
      BY <1>1 DEF ExecutedAtMostOnce, TypeOK, Exists, Attempt, AttemptStatus, AttemptOpen, RunTerminal
    <2> QED BY <2>1, <2>2 DEF Attempt, NoAttempt
  <1> QED BY <1>1, <1>2 DEF Latest

LEMMA Stored ==
  ASSUME TypeOK, NEW d \in Delivery, Exists(d)
  PROVE attempt[d] \in Attempt
  BY DEF TypeOK, Exists, NoAttempt

(* A run that is not settled has no settled attempt *)
LEMMA OpenRunOpenAttempts ==
  ASSUME TypeOK, RowsAgree, ~Settled(run), NEW d \in Delivery, Exists(d)
  PROVE attempt[d].status \in AttemptOpen
  <1>1. attempt[d] \in Attempt
    BY Stored
  <1> QED BY <1>1 DEF RowsAgree, Settled, Attempt, AttemptStatus

-----------------------------------------------------------------------------
(* Each action makes a move                                                *)

LEMMA EarlySettlement ==
  ASSUME TypeOK, RowsAgree, ~AnyAttempt, attempt' = attempt,
         run' = run \/ run' = FailRun(run) \/ run' = CancelRun(run)
  PROVE RowMove
  <1>1. RunFits(run)
    BY RunOfInv
  <1>2. RunFits(run') /\ RunMoves(run, run')
    BY <1>1, FailRunEffect, CancelRunEffect, StayingMoves
  <1>3. run'.status \in {"queued", "running"} => run'.status = run.status
    BY <1>1, FailRunEffect, CancelRunEffect
  <1>4. \A d \in Delivery : attempt[d].status # "expired"
    BY DEF AnyAttempt, Exists
  <1> QED BY <1>2, <1>3, <1>4 DEF RowMove, WritesRun

LEMMA SettlesAttempt ==
  ASSUME TypeOK, RowsAgree, NEW d \in Delivery, Exists(d),
         RunFits(run'), RunMoves(run, run'), Settled(run'),
         attempt' = [attempt EXCEPT ![d] = Terminalize(attempt[d], run'.status)]
  PROVE RowMove
  <1> DEFINE a == Terminalize(attempt[d], run'.status)
  <1>1. attempt[d] \in Attempt
    BY Stored
  <1>2. run'.status \in RunTerminal
    BY DEF Settled
  <1>3. a \in Attempt /\ a.status = run'.status /\ a.owner = attempt[d].owner
    BY <1>1, <1>2, TerminalizeEffect
  <1>4. attempt[d].status \in RunTerminal => a = attempt[d]
    <2>1. CASE Settled(run)
      <3>1. run' = run
        BY <2>1 DEF RunMoves
      <3> QED BY <1>1, <1>2, <3>1, TerminalizeEffect DEF RowsAgree
    <2>2. CASE ~Settled(run)
      BY <2>2, OpenRunOpenAttempts DEF AttemptOpen, RunTerminal
    <2> QED BY <2>1, <2>2
  <1> HIDE DEF a
  <1>5. attempt' = [attempt EXCEPT ![d] = a]
    BY DEF a
  <1>6. WritesAttempt(d, a)
    BY <1>2, <1>3, <1>4, <1>5 DEF WritesAttempt, AttemptFits, RunTerminal
  <1> QED BY <1>3, <1>6 DEF RowMove

LEMMA FailWritesMoves ==
  ASSUME TypeOK, RowsAgree, NEW d \in Delivery, Exists(d),
         FailOutcome(d) = "written", FailWrites(d)
  PROVE /\ RowMove
        /\ attempt[d].owner = "reconciler" => UNCHANGED <<run, attempt>>
  <1>1. RunFits(run)
    BY RunOfInv
  <1>2. CASE Settled(run)
    <2>1. run' = run
      BY <1>1, <1>2, FailRunEffect DEF FailWrites
    <2>2. attempt' = attempt
      BY <1>2 DEF FailWrites, WriteAttempt, TypeOK
    <2> QED BY <2>1, <2>2, UntouchedRows
  <1>3. CASE ~Settled(run)
    <2>1. Authority(d) /\ FailRun(run).status = "failed"
      BY <1>3 DEF FailOutcome
    <2>2. /\ run' = FailRun(run) /\ run'.status = "failed"
          /\ attempt' = [attempt EXCEPT ![d] = Terminalize(attempt[d], run'.status)]
      BY <1>3, <2>1 DEF FailWrites, WriteAttempt
    <2>3. RunFits(run') /\ RunMoves(run, run') /\ Settled(run')
      BY <1>1, <2>2, FailRunEffect DEF Settled, RunTerminal
    <2>4. RowMove
      BY <1>3, <2>2, <2>3, SettlesAttempt
    <2> QED BY <2>1, <2>4 DEF Authority
  <1> QED BY <1>2, <1>3

LEMMA CancelWritesMoves ==
  ASSUME TypeOK, RowsAgree, NEW d \in Delivery, Exists(d),
         CancelOutcome(d) # "conflict", CancelWrites(d)
  PROVE /\ RowMove
        /\ attempt[d].owner = "reconciler" => UNCHANGED <<run, attempt>>
  <1>1. RunFits(run)
    BY RunOfInv
  <1>2. CASE Settled(run)
    <2>1. run' = run
      BY <1>1, <1>2, CancelRunEffect DEF CancelWrites
    <2>2. attempt' = attempt
      BY <1>2 DEF CancelWrites, WriteAttempt, TypeOK
    <2> QED BY <2>1, <2>2, UntouchedRows
  <1>3. CASE ~Settled(run)
    <2>1. Authority(d)
      BY <1>3 DEF CancelOutcome
    <2> DEFINE a == RequestCancel(attempt[d])
               b == IF run'.status = "cancelled" THEN Terminalize(a, "cancelled") ELSE a
    <2>2. run' = CancelRun(run) /\ attempt' = [attempt EXCEPT ![d] = b]
      BY <1>3 DEF CancelWrites, WriteAttempt
    <2>3. RunFits(run') /\ RunMoves(run, run')
      BY <1>1, <2>2, CancelRunEffect
    <2>4. \/ run' = run /\ run.status # "cancelled"
          \/ run'.status = "cancelled"
      BY <1>1, <1>3, <2>2, CancelRunEffect DEF Settled, RunTerminal
    <2>5. attempt[d] \in Attempt /\ attempt[d].status \in AttemptOpen
      BY <1>3, Stored, OpenRunOpenAttempts
    <2>6. a \in Attempt /\ a.owner = attempt[d].owner
          /\ (a = attempt[d] \/ a.status = "cancel_requested")
      BY <2>5, RequestCancelEffect
    <2>7. AttemptFits(run, attempt[d])
      BY AttemptOfInv
    <2>8. run.status # "queued"
      BY DEF RowsAgree, AnyAttempt
    <2>9. CASE run'.status = "cancelled"
      <3>1. b \in Attempt /\ b.status = "cancelled" /\ b.owner = attempt[d].owner
        <4> HIDE DEF a
        <4> QED BY <2>6, <2>9, TerminalizeEffect DEF RunTerminal
      <3> HIDE DEF b
      <3>2. WritesAttempt(d, b)
        BY <2>2, <2>3, <2>5, <2>9, <3>1
           DEF WritesAttempt, AttemptFits, RunTerminal, AttemptOpen
      <3> QED BY <2>1, <3>1, <3>2 DEF RowMove, Authority
    <2>10. CASE run' = run /\ run.status # "cancelled"
      <3>1. b = a
        BY <2>10
      <3> HIDE DEF a, b
      <3>2. WritesAttempt(d, b)
        BY <2>2, <2>3, <2>5, <2>6, <2>7, <2>8, <2>10, <3>1
           DEF WritesAttempt, AttemptFits, RunTerminal, AttemptOpen
      <3> QED BY <2>1, <2>6, <3>1, <3>2 DEF RowMove, Authority
    <2> QED BY <2>4, <2>9, <2>10
  <1> QED BY <1>2, <1>3

(* finish_run_terminalization, when the caller names the expired attempt *)
LEMMA FinishWritesMoves ==
  ASSUME TypeOK, RowsAgree, NEW d \in Delivery \cup {0}, FinishWrites(d),
         Settled(run) \/ run.target \in {"failed", "cancelled"},
         \A e \in Delivery : attempt[e].status = "expired" => d = e
  PROVE RowMove
  <1>1. RunFits(run)
    BY RunOfInv
  <1>2. /\ run' = ProgressRun(run)
        /\ RunFits(run') /\ RunMoves(run, run') /\ Settled(run')
        /\ Settled(run) => run' = run
    BY <1>1, ProgressEffect DEF FinishWrites
  <1>3. attempt' = IF d # 0 THEN [attempt EXCEPT ![d] = Terminalize(attempt[d], run'.status)]
                   ELSE attempt
    BY <1>2 DEF FinishWrites
  <1>4. 0 \notin Delivery
    BY DEF Delivery
  <1>5. CASE d \in Delivery /\ Exists(d)
    <2>1. attempt' = [attempt EXCEPT ![d] = Terminalize(attempt[d], run'.status)]
      BY <1>3, <1>4, <1>5
    <2> QED BY <1>2, <1>5, <2>1, SettlesAttempt
  <1>6. CASE ~(d \in Delivery /\ Exists(d))
    <2>1. attempt' = attempt
      BY <1>3, <1>6 DEF TypeOK, Exists, Terminalize
    <2>2. \A e \in Delivery : attempt[e].status # "expired"
      BY <1>6 DEF Exists
    <2>3. run'.status \notin {"queued", "running"}
      BY <1>2 DEF Settled, RunTerminal
    <2> QED BY <1>2, <2>1, <2>2, <2>3 DEF RowMove, WritesRun
  <1> QED BY <1>5, <1>6

LEMMA CommitSuccessMoves ==
  ASSUME TypeOK, RowsAgree, NEW d \in Delivery, Exists(d), CommitSuccess(d)
  PROVE RowMove /\ attempt[d].owner = "queue_worker"
  <1>1. MayComplete(run) /\ Authority(d)
    BY DEF CommitSuccess, SuccessOutcome
  <1>2. RunFits(run)
    BY RunOfInv
  <1>3. run' = [run EXCEPT !.status = "succeeded"]
    BY DEF CommitSuccess
  <1>4. RunFits(run') /\ run'.status = "succeeded"
    BY <1>1, <1>2, <1>3 DEF RunFits, MayComplete, Run, Settled, RunTerminal
  <1>5. RunMoves(run, run') /\ Settled(run')
    BY <1>1, <1>4 DEF RunMoves, MayComplete, Settled, RunTerminal
  <1>6. attempt' = [attempt EXCEPT ![d] = Terminalize(attempt[d], run'.status)]
    BY <1>4 DEF CommitSuccess, WriteAttempt
  <1> QED BY <1>1, <1>4, <1>5, <1>6, SettlesAttempt DEF Authority

LEMMA TerminalizeEscapedMoves ==
  ASSUME TypeOK, RowsAgree, NEW d \in Delivery, TerminalizeEscaped(d),
         ~Settled(run) /\ Authority(d) /\ Exists(d)
  PROVE /\ RowMove
        /\ attempt[d].owner = "queue_worker" /\ attempt'[d].owner = "queue_worker"
        /\ Settled(run') \/ run'.target = "failed"
  <1> DEFINE cancelled == run.cancel \/ run.target \in {"cancel_requested", "cancelled"}
             a == IF cancelled THEN RequestCancel(attempt[d]) ELSE attempt[d]
  <1>1. /\ run' = IF cancelled THEN CancelRun(run) ELSE FailRun(run)
        /\ attempt' = [attempt EXCEPT ![d] = a]
    BY DEF TerminalizeEscaped, WriteAttempt
  <1>2. RunFits(run)
    BY RunOfInv
  <1>3. RunFits(run') /\ RunMoves(run, run')
    BY <1>1, <1>2, FailRunEffect, CancelRunEffect
  <1>4. \/ run' = run /\ run.target = "failed"
        \/ Settled(run')
    <2>1. CASE cancelled
      BY <1>1, <1>2, <2>1, CancelRunEffect DEF Settled, RunTerminal
    <2>2. CASE ~cancelled
      <3>1. run.target \in {"none", "failed"}
        BY <1>2, <2>2 DEF RunFits, Run, Targets
      <3>2. FailRun(run).status = "failed"
        BY <1>2, <3>1 DEF FailRun, StageRun, ProgressRun, RunFits, Run, Settled, RunTerminal
      <3> QED BY <1>1, <2>2, <3>2 DEF Settled, RunTerminal
    <2> QED BY <2>1, <2>2
  <1>5. attempt[d] \in Attempt /\ attempt[d].status \in AttemptOpen
        /\ attempt[d].owner = "queue_worker"
    BY Stored DEF Authority
  <1>6. /\ a \in Attempt /\ a.owner = "queue_worker" /\ a.status \in AttemptOpen
        /\ a.status # "expired"
    <2>1. attempt[d].status # "expired"
      BY <1>5 DEF RowsAgree
    <2> QED BY <1>5, <2>1, RequestCancelEffect DEF AttemptOpen
  <1>7. run.status # "queued"
    BY DEF RowsAgree, AnyAttempt
  <1> HIDE DEF a
  <1>8. WritesAttempt(d, a)
    BY <1>1, <1>3, <1>4, <1>5, <1>6, <1>7
       DEF WritesAttempt, AttemptFits, Settled, RunTerminal, AttemptOpen
  <1>9. attempt'[d] = a
    BY <1>1 DEF TypeOK
  <1> QED BY <1>4, <1>5, <1>6, <1>8, <1>9 DEF RowMove

(* A step of the worker of delivery d makes a move, and none once a         *)
(* reconciler owns its attempt                                             *)
LEMMA WorkerMoves ==
  ASSUME LifecycleInv, NEW d \in Delivery,
         WorkerStep(d) \/ WorkerTrouble(d) \/ ExecutorEvent(d)
  PROVE /\ RowMove
        /\ attempt[d].owner = "reconciler" => UNCHANGED <<run, attempt>>
  <1> USE DEF LifecycleInv
  <1>1. pc[d] \in Bound => Exists(d)
    BY DEF StepsAgree
  <1>2. ASSUME UNCHANGED <<run, attempt>>
        PROVE /\ RowMove
              /\ attempt[d].owner = "reconciler" => UNCHANGED <<run, attempt>>
    BY <1>2, UntouchedRows
  <1>3. run.status = "queued" => ~AnyAttempt /\ attempt[d].owner = "queue_worker"
    BY DEF RowsAgree, AnyAttempt, Exists, TypeOK, Attempt, NoAttempt, AttemptStatus, AttemptOpen, RunTerminal
  <1>4. CASE AdmitDenied(d) \/ Admit(d) \/ BindFails(d)
    <2>1. /\ run.status = "queued" /\ attempt' = attempt
          /\ run' = run \/ run' = FailRun(run) \/ run' = CancelRun(run)
      BY <1>4 DEF AdmitDenied, Admit, BindFails, BindReady
    <2> QED BY <1>3, <2>1, EarlySettlement
  <1>5. CASE Bind(d)
    BY <1>3, <1>5 DEF Bind, BindReady, WriteAttempt, RowMove, BindsAttempt
  <1>6. CASE CommitSuccess(d)
    <2>1. Exists(d)
      BY <1>1, <1>6 DEF CommitSuccess, Bound
    <2> QED BY <1>6, <2>1, CommitSuccessMoves
  <1>7. CASE ClassifyBlocked(d)
    <2>1. Exists(d)
      BY <1>1, <1>7 DEF ClassifyBlocked, Bound
    <2>2. \/ UNCHANGED <<run, attempt>>
          \/ CancelOutcome(d) # "conflict" /\ CancelWrites(d)
      BY <1>7 DEF ClassifyBlocked, rows
    <2> QED BY <1>2, <2>1, <2>2, CancelWritesMoves
  <1>8. CASE CommitFailure(d) \/ ExecutorRaised(d)
    <2>1. Exists(d)
      BY <1>1, <1>8 DEF CommitFailure, ExecutorRaised, Bound
    <2>2. \/ UNCHANGED <<run, attempt>>
          \/ FailOutcome(d) = "written" /\ FailWrites(d)
      BY <1>8 DEF CommitFailure, ExecutorRaised, Unsettled, rows
    <2> QED BY <1>2, <2>1, <2>2, FailWritesMoves
  <1>9. CASE CancelObserved(d)
    <2>1. Exists(d)
      BY <1>1, <1>9 DEF CancelObserved, Bound
    <2>2. \/ UNCHANGED <<run, attempt>>
          \/ CancelOutcome(d) # "conflict" /\ CancelWrites(d)
      BY <1>9 DEF CancelObserved, Unsettled, rows
    <2> QED BY <1>2, <2>1, <2>2, CancelWritesMoves
  <1>10. CASE TerminalizeEscaped(d)
    <2>1. \/ UNCHANGED <<run, attempt>>
          \/ ~Settled(run) /\ Authority(d) /\ Exists(d)
      BY <1>10 DEF TerminalizeEscaped, rows
    <2> QED BY <1>2, <1>10, <2>1, TerminalizeEscapedMoves
  <1>11. CASE FinishEscaped(d)
    <2>1. /\ attempt[d].owner = "queue_worker" /\ Exists(d)
          /\ Settled(run) \/ run.target = "failed"
      BY <1>11 DEF FinishEscaped, StepsAgree, Bound
    <2>2. UNCHANGED <<run, attempt>> \/ FinishWrites(d)
      BY <1>11 DEF FinishEscaped
    <2>3. \A e \in Delivery : attempt[e].status = "expired" => d = e
      BY <2>1 DEF ExecutedAtMostOnce, Exists
    <2> QED BY <1>2, <2>1, <2>2, <2>3, FinishWritesMoves
  <1>12. CASE \/ RejectPayload(d) \/ AdmitSkips(d) \/ BindStale(d) \/ SuccessRefused(d)
              \/ Cleanup(d) \/ VerifyLease(d) \/ Settle(d) \/ WorkerTrouble(d) \/ ExecutorEvent(d)
    BY <1>2, <1>12 DEF RejectPayload, AdmitSkips, BindStale, SuccessRefused, Cleanup, VerifyLease,
       Settle, WorkerTrouble, Raise, OwnershipLost, Crash, ExecutorEvent, rows
  <1> QED BY <1>4, <1>5, <1>6, <1>7, <1>8, <1>9, <1>10, <1>11, <1>12 DEF WorkerStep

(* What the cancel request writes into an open run *)
LEMMA CancelRequestRow ==
  ASSUME NEW r, RunFits(r), ~Settled(r), NEW t \in {"cancelled", "cancel_requested"}
  PROVE LET s == StageRun([r EXCEPT !.cancel = TRUE], t) IN
        /\ s \in Run /\ s.status = r.status
        /\ s.target = IF r.target = "none" \/ (r.target = "cancel_requested" /\ t = "cancelled")
                      THEN t ELSE r.target
  BY DEF StageRun, RunFits, Run, Settled, RunTerminal, RunOpen, Targets

LEMMA CancelRequestMoves ==
  ASSUME LifecycleInv, CancelRequest
  PROVE RowMove
  <1> USE DEF LifecycleInv
  <1>1. RunFits(run) /\ ~Settled(run)
    BY RunOfInv DEF CancelRequest
  <1>2. run.status \in {"queued", "running"}
    BY <1>1 DEF RunFits, Run, Settled, RunOpen
  <1>3. CASE run.status = "queued"
    <2> DEFINE s == StageRun([run EXCEPT !.cancel = TRUE], "cancelled")
    <2>1. ~AnyAttempt
      BY <1>3 DEF RowsAgree
    <2>2. run' = ProgressRun(s) /\ attempt' = attempt
      BY <1>3, <2>1 DEF CancelRequest
    <2>3. /\ s \in Run /\ s.status = run.status
          /\ s.target = IF run.target = "none" \/ run.target = "cancel_requested"
                        THEN "cancelled" ELSE run.target
      BY <1>1, CancelRequestRow
    <2>4. s.target \in {"failed", "cancelled"} /\ RunFits(s) /\ ~Settled(s)
      <3> HIDE DEF s
      <3> QED BY <1>1, <2>3 DEF RunFits, Run, Targets, Settled, RunTerminal
    <2>5. RunFits(run') /\ RunMoves(s, run') /\ Settled(run')
      <3> HIDE DEF s
      <3> QED BY <2>2, <2>4, ProgressEffect
    <2>6. RunMoves(run, run')
      <3> HIDE DEF s
      <3> QED BY <1>1, <2>3, <2>4, <2>5 DEF RunMoves, Settled, RunTerminal, RunOpen
    <2>7. run'.status \notin {"queued", "running"}
      BY <2>5 DEF Settled, RunTerminal
    <2>8. \A d \in Delivery : attempt[d].status # "expired"
      BY <2>1 DEF AnyAttempt, Exists
    <2> QED BY <2>2, <2>5, <2>6, <2>7, <2>8 DEF RowMove, WritesRun
  <1>4. CASE run.status = "running"
    <2> DEFINE s == StageRun([run EXCEPT !.cancel = TRUE], "cancel_requested")
               a == RequestCancel(attempt[Latest])
    <2>1. AnyAttempt
      BY <1>4 DEF RowsAgree, AnyAttempt, Exists, AttemptOpen
    <2>2. Latest \in Delivery /\ Exists(Latest)
      BY <2>1, LatestIsTheOne
    <2>3. run' = s /\ attempt' = [attempt EXCEPT ![Latest] = a] /\ attempt[Latest].status # "expired"
      BY <1>4, <2>1 DEF CancelRequest, MayRequestCancel
    <2>4. /\ s \in Run /\ s.status = "running"
          /\ s.target = IF run.target = "none" THEN "cancel_requested" ELSE run.target
      BY <1>1, <1>4, CancelRequestRow
    <2>5. attempt[Latest] \in Attempt /\ attempt[Latest].status \in AttemptOpen
      BY <1>1, <2>2, Stored, OpenRunOpenAttempts
    <2>6. /\ a \in Attempt /\ a.owner = attempt[Latest].owner
          /\ a = attempt[Latest] \/ a.status = "cancel_requested"
      BY <2>5, RequestCancelEffect
    <2> HIDE DEF s, a
    <2>7. RunFits(run') /\ RunMoves(run, run') /\ run'.status = "running"
      BY <1>1, <1>4, <2>3, <2>4 DEF RunFits, RunMoves, Settled, RunTerminal, RunOpen
    <2>8. WritesAttempt(Latest, a)
      BY <2>2, <2>3, <2>5, <2>6, <2>7 DEF WritesAttempt, AttemptFits, RunTerminal, AttemptOpen
    <2> QED BY <2>2, <2>6, <2>8 DEF RowMove
  <1> QED BY <1>2, <1>3, <1>4

(* The staging transaction of a reconciler that does not raise *)
StagesRun(r) ==
  LET target == IF rec[r].cancelled THEN "cancelled" ELSE "failed" IN
  /\ StillStale(r)
  /\ run' = [run EXCEPT !.target = target]
  /\ attempt' = IF AnyAttempt
                THEN [attempt EXCEPT ![Latest] = PrepareStale(attempt[Latest], target)] ELSE attempt
  /\ rec' = [rec EXCEPT ![r] = [rec[r] EXCEPT !.step = "staged", !.at = IF AnyAttempt THEN Latest ELSE 0]]
  /\ UNCHANGED <<pc, msg>>

LEMMA StagesRunMoves ==
  ASSUME LifecycleInv, NEW r \in Reconcilers, StagesRun(r)
  PROVE /\ RowMove
        /\ run.target = "none" /\ ~Settled(run)
        /\ run'.target \in {"failed", "cancelled"}
  <1> USE DEF LifecycleInv
  <1> DEFINE target == IF rec[r].cancelled THEN "cancelled" ELSE "failed"
             a == PrepareStale(attempt[Latest], target)
  <1>1. target \in {"failed", "cancelled"}
    OBVIOUS
  <1>2. /\ run' = [run EXCEPT !.target = target]
        /\ attempt' = IF AnyAttempt THEN [attempt EXCEPT ![Latest] = a] ELSE attempt
    BY DEF StagesRun
  <1> HIDE DEF target
  <1>3. run.target = "none" /\ run.status \in RunOpen
    BY DEF StagesRun, StillStale, TypeOK
  <1>4. ~Settled(run)
    BY <1>3 DEF Settled, RunTerminal, RunOpen
  <1>5. RunFits(run)
    BY RunOfInv
  <1>6. run' \in Run /\ run'.status = run.status /\ run'.target = target
    BY <1>1, <1>2, <1>5 DEF RunFits, Run, Targets
  <1>7. RunFits(run') /\ RunMoves(run, run')
    BY <1>3, <1>4, <1>6 DEF RunFits, RunMoves, RunOpen, Settled, RunTerminal
  <1>8. \A d \in Delivery : attempt[d].status # "expired"
    BY <1>3 DEF RowsAgree
  <1>9. CASE AnyAttempt
    <2>1. Latest \in Delivery /\ Exists(Latest)
      BY <1>9, LatestIsTheOne
    <2>2. attempt[Latest] \in Attempt /\ attempt[Latest].status \in AttemptOpen
      BY <1>4, <2>1, Stored, OpenRunOpenAttempts
    <2>3. /\ a \in Attempt
          /\ \/ a = attempt[Latest]
             \/ a.owner = "reconciler"
                /\ a.status = IF target = "failed" THEN "expired" ELSE "cancel_requested"
          /\ target = "failed" => a.status = "expired"
      BY <1>1, <2>2, PrepareStaleEffect
    <2>4. run.status = "running"
      BY <1>3, <1>9 DEF RowsAgree, RunOpen
    <2> HIDE DEF a
    <2>5. attempt' = [attempt EXCEPT ![Latest] = a]
      BY <1>2, <1>9
    <2>6. a.status \in AttemptOpen /\ (a.status = "expired" => a.owner = "reconciler" /\ target = "failed")
      BY <1>8, <2>1, <2>2, <2>3 DEF AttemptOpen
    <2>7. WritesAttempt(Latest, a)
      BY <1>3, <1>4, <1>6, <1>7, <2>1, <2>2, <2>3, <2>4, <2>5, <2>6
         DEF WritesAttempt, AttemptFits, AttemptOpen, RunTerminal
    <2> QED BY <1>1, <1>3, <1>4, <1>6, <2>1, <2>3, <2>7 DEF RowMove
  <1>10. CASE ~AnyAttempt
    <2>1. WritesRun
      BY <1>2, <1>6, <1>7, <1>8, <1>10 DEF WritesRun
    <2> QED BY <1>1, <1>3, <1>4, <1>6, <2>1 DEF RowMove
  <1> QED BY <1>9, <1>10

LEMMA FinishStaleMoves ==
  ASSUME LifecycleInv, NEW r \in Reconcilers, FinishStale(r)
  PROVE RowMove
  <1> USE DEF LifecycleInv
  <1>1. UNCHANGED <<run, attempt>> \/ FinishWrites(rec[r].at)
    BY DEF FinishStale
  <1>2. /\ rec[r].at \in Delivery \cup {0}
        /\ Settled(run) \/ run.target \in {"failed", "cancelled"}
        /\ \A e \in Delivery : attempt[e].status = "expired" => rec[r].at = e
    BY DEF FinishStale, TypeOK, StepsAgree
  <1> QED BY <1>1, <1>2, UntouchedRows, FinishWritesMoves

-----------------------------------------------------------------------------
(* What the steps do to everything but the two rows                        *)

ProcessTypes ==
  /\ lease \in {"none", "active", "released"}
  /\ pc \in [Delivery -> WorkerSteps \cup {"idle", "done", "lost", "dead"}]
  /\ msg \in {"absent", "queued", "processing", "gone"}
  /\ holder \in 0 .. MaxDeliveries
  /\ fence \in Reconcilers \cup {Free}
  /\ rec \in [Reconcilers -> [step : {"idle", "listed", "fenced", "staged"},
                              expected : RunOpen, cancelled : BOOLEAN,
                              at : Delivery \cup {0}]]
  /\ quiet \in [Reconcilers -> BOOLEAN]

(* A step that stages nothing, starts no finish and returns no message to  *)
(* the state before the first enqueue                                      *)
Calm ==
  /\ \A d \in Delivery : pc'[d] \in Bound => pc[d] = pc'[d] \/ Exists(d)'
  /\ \A d \in Delivery : pc'[d] = "finishing" =>
       \/ pc[d] = "finishing"
       \/ attempt'[d].owner = "queue_worker" /\ (Settled(run') \/ run'.target = "failed")
  /\ \A r \in Reconcilers : rec'[r].step = "staged" => rec'[r] = rec[r]
  /\ msg' = "absent" => msg = "absent" /\ pc' = pc

LEMMA CalmKeepsSteps ==
  ASSUME LifecycleInv, RowMove, Calm
  PROVE StepsAgree'
  <1> USE DEF LifecycleInv
  <1>1. /\ \A d \in Delivery : Exists(d) => Exists(d)'
        /\ Settled(run) => Settled(run')
        /\ run.target = "failed" => Settled(run') \/ run'.target = "failed"
        /\ run.target \in {"failed", "cancelled"} =>
             Settled(run') \/ run'.target \in {"failed", "cancelled"}
        /\ Settled(run) \/ run.target # "none" =>
             \A d \in Delivery :
               /\ Exists(d) => attempt'[d].owner = attempt[d].owner
               /\ attempt'[d].status = "expired" => attempt[d].status = "expired"
    BY MoveKeepsMemory
  <1>2. \A d \in Delivery : pc'[d] \in Bound => Exists(d)'
    BY <1>1 DEF Calm, StepsAgree
  <1>3. ASSUME NEW d \in Delivery, pc'[d] = "finishing"
        PROVE /\ attempt'[d].owner = "queue_worker"
              /\ Settled(run') \/ run'.target = "failed"
    <2>1. CASE pc[d] = "finishing"
      BY <1>1, <2>1 DEF StepsAgree, Bound
    <2> QED BY <1>3, <2>1 DEF Calm
  <1>4. ASSUME NEW r \in Reconcilers, rec'[r].step = "staged"
        PROVE /\ Settled(run') \/ run'.target \in {"failed", "cancelled"}
              /\ \A d \in Delivery : attempt'[d].status = "expired" => rec'[r].at = d
    <2>1. rec'[r] = rec[r] /\ rec[r].step = "staged"
      BY <1>4 DEF Calm
    <2>2. Settled(run) \/ run.target \in {"failed", "cancelled"}
      BY <2>1 DEF StepsAgree
    <2> QED BY <1>1, <2>1, <2>2 DEF StepsAgree
  <1>5. ASSUME msg' = "absent"
        PROVE (~AnyAttempt)' /\ \A d \in Delivery : pc'[d] = "idle"
    <2>1. msg = "absent" /\ pc' = pc
      BY <1>5 DEF Calm
    <2>2. \A d \in Delivery : pc[d] = "idle" /\ ~Exists(d)
      BY <2>1 DEF StepsAgree, AnyAttempt
    <2>3. attempt' = attempt
      BY <2>2 DEF RowMove, WritesRun, BindsAttempt, WritesAttempt
    <2> QED BY <2>1, <2>2, <2>3 DEF AnyAttempt, Exists
  <1> QED BY <1>2, <1>3, <1>4, <1>5 DEF StepsAgree

AllSteps == WorkerSteps \cup {"idle", "done", "lost", "dead"}

(* The worker of delivery d goes on to another step *)
Advances(d, step) ==
  /\ pc[d] # "idle" /\ step \in AllSteps
  /\ pc' = [pc EXCEPT ![d] = step]
  /\ lease' \in {"none", "active", "released"}
  /\ msg' \in {msg, "gone"}
  /\ quiet' \in [Reconcilers -> BOOLEAN]
  /\ UNCHANGED <<holder, fence, rec>>

LEMMA AdvancingIsCalm ==
  ASSUME LifecycleInv, NEW d \in Delivery, NEW step \in AllSteps, Advances(d, step),
         step \in Bound => Exists(d)',
         step = "finishing" =>
           attempt'[d].owner = "queue_worker" /\ (Settled(run') \/ run'.target = "failed")
  PROVE ProcessTypes' /\ Calm
  <1> USE DEF LifecycleInv
  <1>1. ProcessTypes'
    BY DEF Advances, ProcessTypes, TypeOK, AllSteps
  <1>2. pc \in [Delivery -> AllSteps]
    BY DEF TypeOK, AllSteps
  <1>3. msg' # "absent"
    BY DEF Advances, StepsAgree
  <1>4. Calm
    BY <1>2, <1>3 DEF Advances, Calm
  <1> QED BY <1>1, <1>4

LEMMA Events ==
  ASSUME EventAppended PROVE quiet' \in [Reconcilers -> BOOLEAN]
  BY DEF EventAppended

LEMMA WorkerCalm ==
  ASSUME LifecycleInv, NEW d \in Delivery, WorkerStep(d) \/ WorkerTrouble(d)
  PROVE ProcessTypes' /\ Calm
  <1> USE DEF LifecycleInv
  <1> DEFINE Quietly == AllSteps \ Bound
  <1>1. RowMove
    BY WorkerMoves
  <1>2. Exists(d) => Exists(d)'
    BY <1>1, MoveKeepsMemory
  <1>3. pc[d] \in Bound => Exists(d)
    BY DEF StepsAgree
  <1>4. /\ lease \in {"none", "active", "released"} /\ quiet \in [Reconcilers -> BOOLEAN]
        /\ pc[d] \in AllSteps
    BY DEF TypeOK, AllSteps
  <1>5. ASSUME NEW step \in Quietly, Advances(d, step) PROVE ProcessTypes' /\ Calm
    <2>1. step \notin Bound /\ step # "finishing" /\ step \in AllSteps
      BY <1>5 DEF Bound
    <2> QED BY <1>5, <2>1, AdvancingIsCalm
  <1>6. {"settle", "admitted", "escaped", "lost", "done", "dead", "terminalizing", "leased"}
          \cup CleanupSteps \subseteq Quietly
    BY DEF AllSteps, WorkerSteps, CleanupSteps, Bound
  <1> HIDE DEF Quietly
  <1>7. CASE RejectPayload(d) \/ AdmitSkips(d) \/ AdmitDenied(d) \/ BindStale(d) \/ BindFails(d)
    <2>1. Advances(d, "settle")
      BY <1>4, <1>6, <1>7, Events DEF RejectPayload, AdmitSkips, AdmitDenied, BindStale, BindFails,
         Goto, Advances, Quietly, rows, queue, recovery
    <2> QED BY <1>5, <1>6, <2>1
  <1>8. CASE Admit(d)
    <2>1. quiet' \in [Reconcilers -> BOOLEAN]
      BY <1>8 DEF Admit
    <2>2. Advances(d, "settle") \/ Advances(d, "admitted")
      BY <1>4, <1>6, <1>8, <2>1 DEF Admit, Goto, Advances, Quietly, queue, recovery
    <2> QED BY <1>5, <1>6, <2>2
  <1>9. CASE Bind(d)
    <2>1. Advances(d, "executing")
      BY <1>9, Events DEF Bind, Goto, Advances, AllSteps, WorkerSteps, queue, recovery
    <2>2. StartedAttempt.status = "running"
      BY <1>9, FirstAttempt DEF Bind, BindReady
    <2>3. Exists(d)'
      BY <1>9, <2>2 DEF Bind, WriteAttempt, Exists, TypeOK
    <2> QED BY <2>1, <2>3, AdvancingIsCalm DEF AllSteps, WorkerSteps
  <1>10. CASE CommitSuccess(d)
    <2>1. Advances(d, "settle")
      BY <1>6, <1>10, Events DEF CommitSuccess, Goto, Advances, Quietly, queue, recovery
    <2> QED BY <1>5, <1>6, <2>1
  <1>11. CASE SuccessRefused(d)
    <2>1. pc[d] = "executing" /\ Exists(d)'
      BY <1>2, <1>3, <1>11 DEF SuccessRefused, Bound
    <2>2. Advances(d, "blocked") \/ Advances(d, "cleanup_escaped")
      BY <1>4, <1>11 DEF SuccessRefused, Goto, Advances, AllSteps, WorkerSteps, CleanupSteps,
         rows, queue, recovery
    <2>3. "blocked" \in AllSteps /\ "cleanup_escaped" \in Quietly
      BY <1>6 DEF AllSteps, WorkerSteps, CleanupSteps
    <2> QED BY <1>5, <2>1, <2>2, <2>3, AdvancingIsCalm
  <1>12. CASE ClassifyBlocked(d)
    <2>1. pc[d] # "idle" /\ lease' \in {"none", "active", "released"}
          /\ quiet' \in [Reconcilers -> BOOLEAN] /\ UNCHANGED <<msg, holder, fence, rec>>
      BY <1>4, <1>12, Events DEF ClassifyBlocked, rows, queue, recovery
    <2>2. \E step \in {"cleanup_settle", "cleanup_escaped", "settle"} : pc' = [pc EXCEPT ![d] = step]
      BY <1>12 DEF ClassifyBlocked, Goto
    <2> QED BY <1>5, <1>6, <2>1, <2>2 DEF Advances, Quietly, CleanupSteps
  <1>13. CASE CommitFailure(d) \/ ExecutorRaised(d) \/ CancelObserved(d)
    <2>1. pc[d] # "idle" /\ lease' \in {"none", "active", "released"}
          /\ quiet' \in [Reconcilers -> BOOLEAN] /\ UNCHANGED <<msg, holder, fence, rec>>
      BY <1>4, <1>13, Events DEF CommitFailure, ExecutorRaised, CancelObserved, Unsettled,
         rows, queue, recovery
    <2>2. \E step \in {"cleanup_settle", "cleanup_escaped", "settle"} : pc' = [pc EXCEPT ![d] = step]
      BY <1>13 DEF CommitFailure, ExecutorRaised, CancelObserved, Unsettled, Goto
    <2> QED BY <1>5, <1>6, <2>1, <2>2 DEF Advances, Quietly, CleanupSteps
  <1>14. CASE Cleanup(d)
    <2>1. pc[d] # "idle" /\ lease' \in {"none", "active", "released"}
          /\ UNCHANGED <<msg, holder, fence, rec>>
      BY <1>4, <1>14 DEF Cleanup, CleanupSteps, queue, recovery
    <2>2. quiet' \in [Reconcilers -> BOOLEAN]
      BY <1>14 DEF Cleanup
    <2>3. \E step \in {"escaped", "lost", "settle"} : pc' = [pc EXCEPT ![d] = step]
      BY <1>14 DEF Cleanup, Goto, CleanupSteps
    <2> QED BY <1>5, <1>6, <2>1, <2>2, <2>3 DEF Advances, Quietly
  <1>15. CASE VerifyLease(d) \/ Settle(d) \/ WorkerTrouble(d)
    <2>1. /\ pc[d] # "idle" /\ lease' = lease /\ quiet' = quiet
          /\ msg' \in {msg, "gone"} /\ UNCHANGED <<holder, fence, rec>>
      BY <1>15 DEF VerifyLease, Settle, WorkerTrouble, Raise, OwnershipLost, Crash,
         WorkerSteps, CleanupSteps, rows, queue, recovery
    <2>2. \E step \in {"escaped", "lost", "done", "dead", "terminalizing",
                        "cleanup_escaped", "cleanup_lost"} : pc' = [pc EXCEPT ![d] = step]
      BY <1>15 DEF VerifyLease, Settle, WorkerTrouble, Raise, OwnershipLost, Crash, Goto
    <2> QED BY <1>4, <1>5, <1>6, <2>1, <2>2 DEF Advances, Quietly, CleanupSteps
  <1>16. CASE TerminalizeEscaped(d)
    <2>1. pc[d] # "idle" /\ UNCHANGED <<lease, msg, holder, fence, rec>>
      BY <1>16 DEF TerminalizeEscaped, rows, queue, recovery
    <2>2. quiet' \in [Reconcilers -> BOOLEAN]
      BY <1>4, <1>16, Events DEF TerminalizeEscaped
    <2>3. CASE ~Settled(run) /\ Authority(d) /\ Exists(d)
      <3>1. \E step \in {"settle", "finishing"} : pc' = [pc EXCEPT ![d] = step]
        BY <1>16, <2>3 DEF TerminalizeEscaped, Goto
      <3>2. attempt'[d].owner = "queue_worker" /\ (Settled(run') \/ run'.target = "failed")
        BY <1>16, <2>3, TerminalizeEscapedMoves
      <3>3. Exists(d)'
        BY <1>2, <2>3
      <3>4. Advances(d, "settle") \/ Advances(d, "finishing")
        BY <1>4, <2>1, <2>2, <3>1 DEF Advances, AllSteps, WorkerSteps
      <3> QED BY <3>2, <3>3, <3>4, AdvancingIsCalm DEF AllSteps, WorkerSteps
    <2>4. CASE ~(~Settled(run) /\ Authority(d) /\ Exists(d))
      <3>1. \E step \in {"settle", "lost"} : pc' = [pc EXCEPT ![d] = step]
        BY <1>16, <2>4 DEF TerminalizeEscaped, Goto
      <3> QED BY <1>4, <1>5, <1>6, <2>1, <2>2, <3>1 DEF Advances, Quietly
    <2> QED BY <2>3, <2>4
  <1>17. CASE FinishEscaped(d)
    <2>1. quiet' \in [Reconcilers -> BOOLEAN]
      BY <1>4, <1>17, Events DEF FinishEscaped
    <2>2. Advances(d, "settle")
      BY <1>4, <1>6, <1>17, <2>1 DEF FinishEscaped, Goto, Advances, Quietly, queue, recovery
    <2> QED BY <1>5, <1>6, <2>2
  <1> QED BY <1>7, <1>8, <1>9, <1>10, <1>11, <1>12, <1>13, <1>14, <1>15, <1>16, <1>17 DEF WorkerStep

(* The queue and the clock write neither row, but for the enqueue the       *)
(* queue refuses, which fails a run no worker has seen                     *)
LEMMA QueueCalm ==
  ASSUME LifecycleInv, QueueStep
  PROVE RowMove /\ ProcessTypes' /\ Calm
  <1> USE DEF LifecycleInv
  <1>1. CASE Enqueue \/ EnqueueLost \/ Readmit \/ Reclaim \/ RemoveQueued
    <2>1. UNCHANGED <<run, attempt, lease, pc, holder, fence, rec, quiet>>
          /\ msg' \in {"queued", "gone"}
      BY <1>1 DEF Enqueue, EnqueueLost, Readmit, Reclaim, RemoveQueued, rows, recovery
    <2>2. ProcessTypes'
      BY <2>1 DEF ProcessTypes, TypeOK
    <2>3. Calm
      BY <2>1 DEF Calm
    <2> QED BY <2>1, <2>2, <2>3, UntouchedRows
  <1>2. CASE EnqueueRejected
    <2>1. /\ msg = "absent" /\ msg' = "gone"
          /\ UNCHANGED <<attempt, lease, pc, holder, fence, rec>>
          /\ run' = run \/ run' = FailRun(run)
      BY <1>2 DEF EnqueueRejected, recovery
    <2>2. quiet' \in [Reconcilers -> BOOLEAN]
      BY <1>2, Events DEF EnqueueRejected, TypeOK
    <2>3. RowMove
      BY <2>1, EarlySettlement DEF StepsAgree
    <2>4. ProcessTypes'
      BY <2>1, <2>2 DEF ProcessTypes, TypeOK
    <2>5. Calm
      BY <2>1, <2>3, MoveKeepsMemory DEF Calm
    <2> QED BY <2>3, <2>4, <2>5
  <1>3. CASE ExpireLease
    <2>1. UNCHANGED <<run, attempt, pc, msg, holder, fence, rec>> /\ lease' = "released"
      BY <1>3 DEF ExpireLease, queue, recovery
    <2>2. ProcessTypes'
      BY <1>3, <2>1, Events DEF ExpireLease, ProcessTypes, TypeOK
    <2>3. Calm
      BY <2>1 DEF Calm
    <2> QED BY <2>1, <2>2, <2>3, UntouchedRows
  <1>4. ASSUME NEW d \in Delivery, LeaseRun(d) PROVE RowMove /\ ProcessTypes' /\ Calm
    <2>1. /\ UNCHANGED <<run, attempt, lease, fence, rec, quiet>>
          /\ msg' = "processing" /\ holder' = d /\ pc' = [pc EXCEPT ![d] = "leased"]
      BY <1>4 DEF LeaseRun, Goto, rows, recovery
    <2>2. holder' \in 0 .. MaxDeliveries
      BY <2>1 DEF Delivery
    <2>3. ProcessTypes'
      BY <2>1, <2>2 DEF ProcessTypes, TypeOK, WorkerSteps
    <2>4. Calm
      BY <2>1 DEF Calm, TypeOK, Bound
    <2> QED BY <2>1, <2>3, <2>4, UntouchedRows
  <1> QED BY <1>1, <1>2, <1>3, <1>4 DEF QueueStep

LEMMA ReconcilerCalm ==
  ASSUME LifecycleInv, NEW r \in Reconcilers, ReconcilerStep(r) \/ ReconcilerCrash(r),
         ~(StageStale(r) /\ StagesRun(r))
  PROVE RowMove /\ ProcessTypes' /\ Calm
  <1> USE DEF LifecycleInv
  <1> DEFINE Rec == [step : {"idle", "listed", "fenced", "staged"}, expected : RunOpen,
                     cancelled : BOOLEAN, at : Delivery \cup {0}]
  <1>1. NotReconciling \in Rec /\ NotReconciling.step # "staged"
    BY DEF NotReconciling, RunOpen
  <1>2. ASSUME NEW m \in Rec, m.step # "staged", rec' = [rec EXCEPT ![r] = m],
               fence' \in Reconcilers \cup {Free}, quiet' \in [Reconcilers -> BOOLEAN],
               UNCHANGED <<lease, pc, msg, holder>>, RowMove
        PROVE RowMove /\ ProcessTypes' /\ Calm
    <2>1. ProcessTypes'
      BY <1>2 DEF ProcessTypes, TypeOK
    <2>2. Calm
      BY <1>2, MoveKeepsMemory DEF Calm, TypeOK
    <2> QED BY <1>2, <2>1, <2>2
  <1>3. CASE ListStale(r)
    <2> DEFINE m == [step |-> "listed", expected |-> run.status, cancelled |-> run.cancel, at |-> 0]
    <2>1. run.status \in RunOpen /\ run.cancel \in BOOLEAN
      BY <1>3 DEF ListStale, TypeOK, Run, Settled
    <2>2. m \in Rec /\ m.step # "staged"
      BY <2>1
    <2>3. /\ rec' = [rec EXCEPT ![r] = m] /\ quiet' = [quiet EXCEPT ![r] = TRUE]
          /\ UNCHANGED <<run, attempt, lease, pc, msg, holder, fence>>
      BY <1>3 DEF ListStale, Reconciling, rows, queue
    <2> HIDE DEF m, Rec
    <2>4. fence' \in Reconcilers \cup {Free} /\ quiet' \in [Reconcilers -> BOOLEAN] /\ RowMove
      BY <2>3, UntouchedRows DEF TypeOK
    <2> QED BY <1>2, <2>2, <2>3, <2>4
  <1>4. CASE AcquireFence(r)
    <2> DEFINE m == [rec[r] EXCEPT !.step = "fenced"]
    <2>1. m \in Rec /\ m.step # "staged"
      BY DEF TypeOK
    <2>2. /\ rec' = [rec EXCEPT ![r] = m] /\ fence' = r
          /\ UNCHANGED <<run, attempt, lease, pc, msg, holder, quiet>>
      BY <1>4 DEF AcquireFence, Reconciling, rows, queue
    <2> HIDE DEF m, Rec
    <2>3. fence' \in Reconcilers \cup {Free} /\ quiet' \in [Reconcilers -> BOOLEAN] /\ RowMove
      BY <2>2, UntouchedRows DEF TypeOK
    <2> QED BY <1>2, <2>1, <2>2, <2>3
  <1>5. CASE RunOwned(r) \/ NoLongerStale(r) \/ FenceLost(r) \/ ReconcilerCrash(r)
    <2>1. /\ rec' = [rec EXCEPT ![r] = NotReconciling]
          /\ UNCHANGED <<run, attempt, lease, pc, msg, holder, quiet>>
          /\ fence' \in {fence, Free}
      BY <1>5 DEF RunOwned, NoLongerStale, FenceLost, ReconcilerCrash, Reconciling, rows, queue
    <2>2. fence' \in Reconcilers \cup {Free} /\ quiet' \in [Reconcilers -> BOOLEAN] /\ RowMove
      BY <2>1, UntouchedRows DEF TypeOK
    <2> HIDE DEF Rec
    <2> QED BY <1>1, <1>2, <2>1, <2>2
  <1>6. CASE StageStale(r)
    <2>1. /\ rec' = [rec EXCEPT ![r] = NotReconciling]
          /\ UNCHANGED <<run, attempt, lease, pc, msg, holder, fence, quiet>>
      BY <1>6 DEF StageStale, StagesRun, Reconciling, queue
    <2>2. fence' \in Reconcilers \cup {Free} /\ quiet' \in [Reconcilers -> BOOLEAN] /\ RowMove
      BY <2>1, UntouchedRows DEF TypeOK
    <2> HIDE DEF Rec
    <2> QED BY <1>1, <1>2, <2>1, <2>2
  <1>7. CASE FinishStale(r)
    <2>1. /\ rec' = [rec EXCEPT ![r] = NotReconciling]
          /\ UNCHANGED <<lease, pc, msg, holder>>
          /\ fence' \in {fence, Free}
      BY <1>7 DEF FinishStale, Reconciling, queue
    <2>2. fence' \in Reconcilers \cup {Free} /\ RowMove
      BY <1>7, <2>1, FinishStaleMoves DEF TypeOK
    <2>3. quiet' \in [Reconcilers -> BOOLEAN]
      BY <1>7, Events DEF FinishStale, TypeOK
    <2> HIDE DEF Rec
    <2> QED BY <1>1, <1>2, <2>1, <2>2, <2>3
  <1> QED BY <1>3, <1>4, <1>5, <1>6, <1>7 DEF ReconcilerStep

LEMMA StagingKeepsSteps ==
  ASSUME LifecycleInv, NEW r \in Reconcilers, StageStale(r), StagesRun(r)
  PROVE ProcessTypes' /\ StepsAgree'
  <1> USE DEF LifecycleInv
  <1> DEFINE at == IF AnyAttempt THEN Latest ELSE 0
             m == [rec[r] EXCEPT !.step = "staged", !.at = at]
  <1>1. RowMove /\ run.target = "none" /\ ~Settled(run) /\ run'.target \in {"failed", "cancelled"}
    BY StagesRunMoves
  <1>2. at \in Delivery \cup {0}
    BY LatestIsTheOne
  <1>3. rec' = [rec EXCEPT ![r] = m] /\ UNCHANGED <<pc, msg, lease, holder, fence>>
    BY DEF StageStale, StagesRun, queue
  <1>4. quiet' \in [Reconcilers -> BOOLEAN]
    BY Events DEF StageStale, TypeOK
  <1>5. /\ m \in [step : {"idle", "listed", "fenced", "staged"}, expected : RunOpen,
                  cancelled : BOOLEAN, at : Delivery \cup {0}]
        /\ m.at = at
    <2> HIDE DEF at
    <2> QED BY <1>2 DEF TypeOK
  <1> HIDE DEF m
  <1>6. ProcessTypes'
    BY <1>3, <1>4, <1>5 DEF ProcessTypes, TypeOK
  <1>7. \A d \in Delivery : attempt'[d].status = "expired" => at = d
    <2>1. \A d \in Delivery : attempt[d].status # "expired"
      BY <1>1 DEF RowsAgree
    <2>2. CASE AnyAttempt
      <3>1. Latest \in Delivery
        BY <2>2, LatestIsTheOne
      <3>2. \A d \in Delivery : d # Latest => attempt'[d] = attempt[d]
        BY <2>2, <3>1 DEF StagesRun, TypeOK
      <3> QED BY <2>1, <2>2, <3>2
    <2>3. CASE ~AnyAttempt
      BY <2>1, <2>3 DEF StagesRun
    <2> QED BY <2>2, <2>3
  <1>8. \A s \in Reconcilers : rec'[s].step = "staged" =>
          /\ Settled(run') \/ run'.target \in {"failed", "cancelled"}
          /\ \A d \in Delivery : attempt'[d].status = "expired" => rec'[s].at = d
    <2>1. \A s \in Reconcilers : s # r => rec'[s] = rec[s] /\ rec[s].step # "staged"
      BY <1>1, <1>3 DEF TypeOK, StepsAgree
    <2>2. rec'[r] = m
      BY <1>3 DEF TypeOK
    <2> HIDE DEF at
    <2> QED BY <1>1, <1>5, <1>7, <2>1, <2>2
  <1>9. \A d \in Delivery : /\ pc'[d] \in Bound => Exists(d)'
                            /\ pc'[d] # "finishing"
    BY <1>1, <1>3, MoveKeepsMemory DEF StepsAgree
  <1>10. msg' = "absent" => (~AnyAttempt)' /\ \A d \in Delivery : pc'[d] = "idle"
    <2>1. ~AnyAttempt => attempt' = attempt
      BY DEF StagesRun
    <2> QED BY <1>3, <2>1 DEF StepsAgree, AnyAttempt, Exists
  <1> QED BY <1>6, <1>8, <1>9, <1>10 DEF StepsAgree

-----------------------------------------------------------------------------
(* The theorems                                                            *)

LEMMA LifecycleInit ==
  ASSUME MaxDeliveries \in Nat, Init
  PROVE LifecycleInv
  <1>1. TypeOK
    BY DEF Init, TypeOK, Run, RunOpen, Targets, NotReconciling
  <1>2. ExecutedAtMostOnce /\ RowsAgree /\ StepsAgree
    BY DEF Init, ExecutedAtMostOnce, RowsAgree, StepsAgree, Exists, AnyAttempt, NoAttempt,
       NotReconciling, Settled, RunTerminal, Bound
  <1> QED BY <1>1, <1>2 DEF LifecycleInv

LEMMA LifecycleStep ==
  ASSUME LifecycleInv, Next
  PROVE RowMove /\ LifecycleInv'
  <1> USE DEF LifecycleInv
  <1>1. RowMove /\ ProcessTypes' /\ StepsAgree'
    <2>1. ASSUME NEW d \in Delivery, WorkerStep(d) \/ WorkerTrouble(d)
          PROVE RowMove /\ ProcessTypes' /\ StepsAgree'
      BY <2>1, WorkerMoves, WorkerCalm, CalmKeepsSteps
    <2>2. ASSUME NEW d \in Delivery, ExecutorEvent(d)
          PROVE RowMove /\ ProcessTypes' /\ StepsAgree'
      <3>1. UNCHANGED <<run, attempt, lease, pc, msg, holder, fence, rec>>
        BY <2>2 DEF ExecutorEvent, rows, queue, recovery
      <3>2. quiet' \in [Reconcilers -> BOOLEAN]
        BY <2>2, Events DEF ExecutorEvent
      <3>3. RowMove /\ Calm /\ ProcessTypes'
        BY <3>1, <3>2, UntouchedRows DEF Calm, ProcessTypes, TypeOK
      <3> QED BY <3>3, CalmKeepsSteps
    <2>3. CASE QueueStep
      BY <2>3, QueueCalm, CalmKeepsSteps
    <2>4. CASE CancelRequest
      <3>1. UNCHANGED <<lease, pc, msg, holder, fence, rec>>
        BY <2>4 DEF CancelRequest, queue, recovery
      <3>2. quiet' \in [Reconcilers -> BOOLEAN]
        BY <2>4, Events DEF CancelRequest, TypeOK
      <3>3. RowMove /\ Calm /\ ProcessTypes'
        BY <2>4, <3>1, <3>2, CancelRequestMoves DEF Calm, ProcessTypes, TypeOK
      <3> QED BY <3>3, CalmKeepsSteps
    <2>5. ASSUME NEW r \in Reconcilers, ReconcilerStep(r) \/ ReconcilerCrash(r)
          PROVE RowMove /\ ProcessTypes' /\ StepsAgree'
      <3>1. CASE StageStale(r) /\ StagesRun(r)
        BY <3>1, StagesRunMoves, StagingKeepsSteps
      <3>2. CASE ~(StageStale(r) /\ StagesRun(r))
        BY <2>5, <3>2, ReconcilerCalm, CalmKeepsSteps
      <3> QED BY <3>1, <3>2
    <2>6. CASE FenceExpires
      <3>1. UNCHANGED <<run, attempt, lease, pc, msg, holder, rec, quiet>> /\ fence' = Free
        BY <2>6 DEF FenceExpires, rows, queue
      <3>2. RowMove /\ Calm /\ ProcessTypes'
        BY <3>1, UntouchedRows DEF Calm, ProcessTypes, TypeOK
      <3> QED BY <3>2, CalmKeepsSteps
    <2> QED BY <2>1, <2>2, <2>3, <2>4, <2>5, <2>6 DEF Next
  <1>2. RowTypes' /\ ExecutedAtMostOnce' /\ RowsAgree'
    BY <1>1, MoveKeepsRows
  <1>3. TypeOK'
    BY <1>1, <1>2 DEF TypeOK, RowTypes, ProcessTypes
  <1> QED BY <1>1, <1>2, <1>3

LEMMA LifecycleStutter ==
  ASSUME LifecycleInv, UNCHANGED vars
  PROVE LifecycleInv'
  BY DEF LifecycleInv, TypeOK, ExecutedAtMostOnce, RowsAgree, StepsAgree, Exists, AnyAttempt,
     Settled, vars

(* The inductive invariant: what the two rows say of each other, and what  *)
(* the workers, the queue and the maintenance loops may rely on when they  *)
(* come back to them (process_run_payload, reconcile_stale_runs_for_worker).*)
THEOREM LifecycleInvariance ==
  ASSUME MaxDeliveries \in Nat
  PROVE Spec => []LifecycleInv
  <1>1. Init => LifecycleInv
    BY LifecycleInit
  <1>2. LifecycleInv /\ [Next]_vars => LifecycleInv'
    BY LifecycleStep, LifecycleStutter
  <1> QED BY <1>1, <1>2, PTL DEF Spec

(* A run is executed at most once, however often its message is delivered  *)
(* and whatever crashes: only WorkerDispatchBinding.bind creates an        *)
(* attempt, and it takes the run out of 'queued' for good.                 *)
THEOREM ExecutesAtMostOnce ==
  ASSUME MaxDeliveries \in Nat
  PROVE Spec => []ExecutedAtMostOnce
  <1>1. LifecycleInv => ExecutedAtMostOnce
    BY DEF LifecycleInv
  <1> QED BY <1>1, LifecycleInvariance, PTL

(* The run row and its attempt agree after every transaction: a settled    *)
(* attempt has its run's status, a running run has an open attempt, an     *)
(* expired attempt is a reconciler's, and a success never overtook a       *)
(* cancel request (complete_run, terminalize_run_attempt).                 *)
THEOREM RowsAlwaysAgree ==
  ASSUME MaxDeliveries \in Nat
  PROVE Spec => []RowsAgree
  <1>1. LifecycleInv => RowsAgree
    BY DEF LifecycleInv
  <1> QED BY <1>1, LifecycleInvariance, PTL

(* The first terminalization target wins and nothing settled is written    *)
(* again, by a late worker, a repeated cancel or a second reconciler       *)
(* (stage_run_terminalization, finish_run_terminalization).                *)
THEOREM FirstIntentWins ==
  ASSUME MaxDeliveries \in Nat
  PROVE Spec => [][KeepsFirstIntent]_vars
  <1>1. LifecycleInv /\ [Next]_vars => [KeepsFirstIntent]_vars
    <2>1. ASSUME LifecycleInv, Next PROVE KeepsFirstIntent
      <3>1. RowMove
        BY <2>1, LifecycleStep
      <3>2. RunMoves(run, run')
            /\ \A d \in Delivery : attempt[d].status \in RunTerminal => attempt'[d] = attempt[d]
        BY <2>1, <3>1, MoveKeepsIntent DEF LifecycleInv
      <3> QED BY <3>2 DEF RunMoves, KeepsFirstIntent
    <2> QED BY <2>1
  <1> QED BY <1>1, LifecycleInvariance, PTL DEF Spec

(* Attempt fencing: once a reconciler owns an attempt, the worker that      *)
(* started it writes neither row again (assert_worker_run_attempt_current). *)
THEOREM TakenOverStaysInert ==
  ASSUME MaxDeliveries \in Nat
  PROVE Spec => [][TakenOverIsInert]_vars
  <1>1. LifecycleInv /\ [Next]_vars => [TakenOverIsInert]_vars
    <2>1. ASSUME LifecycleInv, Next, NEW d \in Delivery, attempt[d].owner = "reconciler", pc'[d] # pc[d]
          PROVE UNCHANGED <<run, attempt>>
      <3>1. ASSUME NEW e \in Delivery, WorkerStep(e) \/ WorkerTrouble(e) \/ ExecutorEvent(e)
            PROVE UNCHANGED <<run, attempt>>
        <4>1. CASE e = d
          BY <2>1, <3>1, <4>1, WorkerMoves
        <4>2. CASE e # d
          <5>1. \E step : pc' = [pc EXCEPT ![e] = step] \/ pc' = pc
            BY <3>1 DEF WorkerStep, WorkerTrouble, ExecutorEvent, RejectPayload, AdmitSkips,
               AdmitDenied, Admit, BindStale, BindFails, Bind, CommitSuccess, SuccessRefused,
               ClassifyBlocked, CommitFailure, ExecutorRaised, CancelObserved, Unsettled, Cleanup,
               VerifyLease, TerminalizeEscaped, FinishEscaped, Settle, Raise, OwnershipLost, Crash, Goto
          <5> QED BY <2>1, <4>2, <5>1 DEF LifecycleInv, TypeOK
        <4> QED BY <4>1, <4>2
      <3>2. CASE QueueStep
        <4>1. pc' = pc \/ UNCHANGED <<run, attempt>>
          BY <3>2 DEF QueueStep, Enqueue, EnqueueLost, EnqueueRejected, LeaseRun, Readmit, Reclaim,
             RemoveQueued, ExpireLease, rows
        <4> QED BY <2>1, <4>1
      <3>3. CASE CancelRequest \/ FenceExpires
        BY <2>1, <3>3 DEF CancelRequest, FenceExpires
      <3>4. ASSUME NEW r \in Reconcilers, ReconcilerStep(r) \/ ReconcilerCrash(r)
            PROVE UNCHANGED <<run, attempt>>
        BY <2>1, <3>4 DEF ReconcilerStep, ReconcilerCrash, ListStale, AcquireFence, RunOwned,
           StageStale, NoLongerStale, FinishStale, FenceLost
      <3> QED BY <2>1, <3>1, <3>2, <3>3, <3>4 DEF Next
    <2>2. ASSUME LifecycleInv, Next PROVE TakenOverIsInert
      BY <2>1, <2>2 DEF TakenOverIsInert
    <2> QED BY <2>2
  <1> QED BY <1>1, LifecycleInvariance, PTL DEF Spec
=============================================================================
