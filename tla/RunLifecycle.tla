---------------------------- MODULE RunLifecycle ----------------------------
(***************************************************************************)
(* The durable life of ONE run: its row in `runs`, the `run_attempts` rows *)
(* of its deliveries, and the processes that race to settle it:            *)
(*   - the API request that enqueues it and the cancel request             *)
(*     (app/routes/runs.py, app/runs/application/cancellation.py);         *)
(*   - one worker per delivery of its queue message                        *)
(*     (app/worker_main.py run_once, app/worker.py process_run_payload);   *)
(*   - the stale-run maintenance of every worker process                   *)
(*     (app/worker_main.py reconcile_stale_runs_for_worker).               *)
(*                                                                         *)
(* A PostgreSQL transaction that locks the run row is one action; a        *)
(* transaction that raises rolls back and leaves run and attempt alone.    *)
(* Everything between two transactions is an interleaving point: every     *)
(* process may stop there, and every other process may run.                *)
(*                                                                         *)
(* The queue is used at the level RunQueue proves: a message is held by    *)
(* one delivery at a time, a fenced run has no message, and a delivery     *)
(* whose lease expired is requeued or dead-lettered.  The executors        *)
(* modelled are those that run inside the worker, which hold a placeholder *)
(* sandbox lease row; the detached sandbox executors settle through        *)
(* receipts instead.                                                       *)
(***************************************************************************)
EXTENDS Naturals, FiniteSets

CONSTANTS MaxDeliveries,    \* a bound on the leases of the run's message
          Reconcilers,      \* maintenance loops, one per worker process
          Free,             \* no reconciler holds the run's fence
          CancelAllowed,    \* a user or an administrator may ask for cancellation
          RecoveryFails     \* a maintenance loop may die, or lose its fence, between two steps

Delivery == 1 .. MaxDeliveries

VARIABLES run,        \* the row of `runs`
          attempt,    \* the row of `run_attempts` a delivery created, if any
          lease,      \* the placeholder sandbox lease row
          pc,         \* where the worker of a delivery stands
          msg,        \* where the queue message is
          holder,     \* the delivery that leased it last, 0 before the first
          fence,      \* the reconciler that holds the run's fence
          rec,        \* what a maintenance loop remembers between transactions
          quiet       \* no run event since that loop listed the run

vars == <<run, attempt, lease, pc, msg, holder, fence, rec, quiet>>
rows == <<run, attempt, lease>>
queue == <<msg, holder>>
recovery == <<fence, rec>>

-----------------------------------------------------------------------------
(* The row of `runs` and the row of `run_attempts`.                        *)

RunTerminal == {"succeeded", "failed", "cancelled"}
RunOpen == {"queued", "running"}
Targets == {"none", "cancel_requested", "failed", "cancelled"}
AttemptOpen == {"created", "queued", "claimed", "running", "cancel_requested", "expired"}
AttemptStatus == AttemptOpen \cup RunTerminal

Run == [status : RunOpen \cup RunTerminal, cancel : BOOLEAN, target : Targets]

NoAttempt == [status |-> "none", owner |-> "queue_worker", gen |-> 0, ordinal |-> 0]
Attempt == [status : AttemptStatus, owner : {"queue_worker", "reconciler"},
            gen : Nat \ {0}, ordinal : Nat \ {0}]

Exists(d) == attempt[d].status # "none"

(* get_latest_run_attempt: the attempt with the highest ordinal *)
Latest == CHOOSE d \in Delivery :
            /\ Exists(d)
            /\ \A e \in Delivery : attempt[e].ordinal <= attempt[d].ordinal
AnyAttempt == \E d \in Delivery : Exists(d)

LegalTransitions ==
  [created          |-> {"queued", "cancelled"},
   queued           |-> {"claimed", "cancelled"},
   claimed          |-> {"running", "cancel_requested", "failed", "expired"},
   running          |-> {"cancel_requested", "succeeded", "failed", "expired"},
   cancel_requested |-> {"cancelled"},
   expired          |-> {"failed", "cancelled"},
   succeeded        |-> {},
   failed           |-> {},
   cancelled        |-> {}]

ProjectedRunStatus(s) ==
  CASE s \in {"created", "queued"} -> "queued"
    [] s \in {"claimed", "running", "cancel_requested", "expired"} -> "running"
    [] OTHER -> s

(* The join of transition_run_attempt with the run row *)
RunAdmits(r, s) ==
  \/ ProjectedRunStatus(s) = "queued" /\ r.status = "queued"
  \/ ProjectedRunStatus(s) = "running" /\ r.status \in RunOpen
  \/ s \in RunTerminal /\ r.status \in RunOpen \cup {s}

(* transition_run_attempt either moves the attempt and its owner generation *)
(* or raises; a request for the status it already has changes nothing.     *)
MayTransition(r, a, s) ==
  a.status = s \/ (s \in LegalTransitions[a.status] /\ RunAdmits(r, s))
Transition(a, s, owner) ==
  IF a.status = s THEN a
  ELSE [a EXCEPT !.status = s, !.owner = owner, !.gen = @ + 1]

(* request_run_attempt_cancel without a takeover; an expired attempt raises *)
MayRequestCancel(a) == a.status # "expired"
RequestCancel(a) ==
  IF a.status \in {"claimed", "running"}
    THEN Transition(a, "cancel_requested", a.owner) ELSE a

(* terminalize_run_attempt; a delivery that created no attempt has nothing to mirror *)
MayTerminalize(r, a, s) == a.status = "none" \/ MayTransition(r, a, s)
Terminalize(a, s) == IF a.status = "none" THEN a ELSE Transition(a, s, a.owner)

(* prepare_stale_run_attempt_reconciliation: the reconciler takes the attempt *)
MayPrepareStale(a, s) ==
  a.status \notin RunTerminal /\ (s = "failed" => a.status # "cancel_requested")
PrepareStale(a, s) ==
  CASE s = "cancelled" /\ a.status \in {"claimed", "running", "cancel_requested"} ->
         IF a.status = "cancel_requested" /\ a.owner = "reconciler" THEN a
         ELSE [a EXCEPT !.status = "cancel_requested", !.owner = "reconciler", !.gen = @ + 1]
    [] s = "failed" /\ a.status # "expired" ->
         [a EXCEPT !.status = "expired", !.owner = "reconciler",
                   !.gen = @ + (CASE a.status = "created" -> 3
                                  [] a.status = "queued" -> 2
                                  [] OTHER -> 1)]
    [] OTHER -> a

-----------------------------------------------------------------------------
(* Terminalization of the run row: stage a target, then finalize it.       *)

Settled(r) == r.status \in RunTerminal

StageAnyTarget(r, t) == IF Settled(r) THEN r ELSE [r EXCEPT !.target = t]
StageRun(r, t) ==
  IF Settled(r) THEN r
  ELSE [r EXCEPT !.target = IF @ = "none" \/ (@ = "cancel_requested" /\ t = "cancelled")
                            THEN t ELSE @]

ProgressRun(r) ==
  CASE Settled(r) -> r
    [] ~Settled(r) /\ r.target = "cancel_requested" -> [r EXCEPT !.target = "none"]
    [] ~Settled(r) /\ r.target \in {"failed", "cancelled"} ->
         [r EXCEPT !.status = r.target, !.target = "none"]
    [] OTHER -> r

(* fail_run and cancel_run stop after staging when another intent came first *)
FailRun(r) ==
  LET s == StageRun(r, "failed") IN IF s.target = "failed" THEN ProgressRun(s) ELSE s
CancelRun(r) ==
  LET s == StageRun(r, "cancelled") IN IF s.target = "cancelled" THEN ProgressRun(s) ELSE s

MayComplete(r) == ~Settled(r) /\ ~r.cancel /\ r.target = "none"

-----------------------------------------------------------------------------
(* The worker of one delivery.  pc holds its next step:                    *)
(*   leased         about to run the dispatch admission transaction        *)
(*   admitted       admitted; context is prepared, then the attempt bound  *)
(*   executing      the executor runs; the attempt is bound                *)
(*   blocked        a success commit was refused; about to classify why    *)
(*   cleanup_*      the finally block of process_run_payload releases the  *)
(*                  placeholder lease, then the suffix's step follows      *)
(*   escaped        an exception left process_run_payload                  *)
(*   terminalizing  it verified its queue lease, about to settle the run   *)
(*   finishing      the run is staged, about to finalize it                *)
(*   settle         about to ack or dead-letter the message                *)
(*   idle, done, lost, dead: not leased yet, settled its message, gave it  *)
(*                  up, crashed                                            *)
(***************************************************************************)

CleanupSteps == {"cleanup_settle", "cleanup_escaped", "cleanup_lost"}
WorkerSteps == {"leased", "admitted", "executing", "blocked", "escaped",
                "terminalizing", "finishing", "settle"} \cup CleanupSteps

Goto(d, step) == pc' = [pc EXCEPT ![d] = step]
WriteAttempt(d, a) == attempt' = [attempt EXCEPT ![d] = a]
EventAppended == quiet' = [r \in Reconcilers |-> FALSE]

Holds(d) == msg = "processing" /\ holder = d

(* assert_worker_run_attempt_current: no attempt yet, or still the worker's and open *)
Authority(d) ==
  \/ ~Exists(d)
  \/ attempt[d].owner = "queue_worker" /\ attempt[d].status \in AttemptOpen

(* WorkerAttemptLifecycle.fail and .cancel: "written" commits, "refused"   *)
(* is a False result, "conflict" is an exception.                          *)
FailOutcomeUnchecked(d) ==
  CASE Settled(run) -> IF run.status = "failed" THEN "written" ELSE "refused"
    [] ~Settled(run) /\ ~Authority(d) -> "conflict"
    [] OTHER -> "written"
FailOutcome(d) ==
  CASE Settled(run) -> IF run.status = "failed" THEN "written" ELSE "refused"
    [] ~Settled(run) /\ ~Authority(d) -> "conflict"
    [] OTHER -> LET r == FailRun(run) IN
                IF r.status # "failed" THEN "refused"
                ELSE IF MayTerminalize(r, attempt[d], "failed") THEN "written" ELSE "conflict"
FailWrites(d) ==
  /\ run' = FailRun(run)
  /\ WriteAttempt(d, IF Settled(run) THEN attempt[d] ELSE Terminalize(attempt[d], "failed"))

CancelOutcome(d) ==
  CASE Settled(run) -> IF run.status = "cancelled" THEN "written" ELSE "refused"
    [] ~Settled(run) /\ ~Authority(d) -> "conflict"
    [] OTHER -> LET r == CancelRun(run) IN
                IF r.status # "cancelled" THEN "refused"
                ELSE IF MayTerminalize(r, RequestCancel(attempt[d]), "cancelled")
                     THEN "written" ELSE "conflict"
CancelWrites(d) ==
  LET r == CancelRun(run)
      a == RequestCancel(attempt[d])
  IN /\ run' = r
     /\ WriteAttempt(d, IF Settled(run) THEN attempt[d]
                        ELSE IF r.status = "cancelled" THEN Terminalize(a, "cancelled") ELSE a)

(* process_run_payload cannot read the envelope: dead letter, run untouched *)
RejectPayload(d) ==
  /\ pc[d] = "leased"
  /\ Goto(d, "settle")
  /\ UNCHANGED <<rows, queue, recovery, quiet>>

(* WorkerDispatchAdmission.admit *)
AdmitSkips(d) ==
  /\ pc[d] = "leased"
  /\ run.status # "queued"
  /\ Goto(d, "settle")
  /\ EventAppended
  /\ UNCHANGED <<rows, queue, recovery>>

AdmitDenied(d) ==
  /\ pc[d] = "leased"
  /\ run.status = "queued"
  /\ run' = FailRun(run)
  /\ Goto(d, "settle")
  /\ EventAppended
  /\ UNCHANGED <<attempt, lease, queue, recovery>>

Admit(d) ==
  /\ pc[d] = "leased"
  /\ run.status = "queued"
  /\ run' = IF run.cancel THEN CancelRun(run) ELSE run
  /\ Goto(d, IF run.cancel THEN "settle" ELSE "admitted")
  /\ quiet' = [r \in Reconcilers |-> quiet[r] /\ ~run.cancel]
  /\ UNCHANGED <<attempt, lease, queue, recovery>>

(* WorkerDispatchBinding.bind: the dispatch fence, then the attempt        *)
BindReopens == ~run.cancel
BindReady == run.status = "queued" /\ ~run.cancel
StartedFromZero ==
  [status |-> "running", owner |-> "queue_worker", gen |-> 4,
   ordinal |-> Cardinality({d \in Delivery : Exists(d)})]

StartedAttempt ==
  [status |-> "running", owner |-> "queue_worker", gen |-> 4,
   ordinal |-> 1 + Cardinality({d \in Delivery : Exists(d)})]

BindStale(d) ==
  /\ pc[d] = "admitted"
  /\ ~BindReady
  /\ Goto(d, "settle")
  /\ UNCHANGED <<rows, queue, recovery, quiet>>

BindFails(d) ==
  /\ pc[d] = "admitted"
  /\ BindReady
  /\ run' = FailRun(run)
  /\ Goto(d, "settle")
  /\ EventAppended
  /\ UNCHANGED <<attempt, lease, queue, recovery>>

Bind(d) ==
  /\ pc[d] = "admitted"
  /\ BindReady
  /\ WriteAttempt(d, StartedAttempt)
  /\ run' = [run EXCEPT !.status = "running"]
  /\ lease' = "active"
  /\ Goto(d, "executing")
  /\ EventAppended
  /\ UNCHANGED <<queue, recovery>>

(* The executor reports progress *)
ExecutorEvent(d) ==
  /\ pc[d] = "executing"
  /\ EventAppended
  /\ UNCHANGED <<rows, pc, queue, recovery>>

(* WorkerResultCommitService.commit of a succeeded result: the row lock,   *)
(* then complete_run and the attempt in one transaction                    *)
SuccessOutcome(d) ==
  CASE Settled(run) -> "refused"
    [] ~Settled(run) /\ ~Authority(d) -> "conflict"
    [] OTHER -> IF ~MayComplete(run) THEN "refused"
                ELSE IF MayTerminalize(run, attempt[d], "succeeded") THEN "written"
                ELSE "conflict"

CommitSuccess(d) ==
  /\ pc[d] = "executing"
  /\ SuccessOutcome(d) = "written"
  /\ run' = [run EXCEPT !.status = "succeeded"]
  /\ WriteAttempt(d, Terminalize(attempt[d], "succeeded"))
  /\ lease' = "released"
  /\ Goto(d, "settle")
  /\ EventAppended
  /\ UNCHANGED <<queue, recovery>>

(* The success was refused and rolled back, or its authority check raised  *)
SuccessRefused(d) ==
  /\ pc[d] = "executing"
  /\ SuccessOutcome(d) # "written"
  /\ Goto(d, IF SuccessOutcome(d) = "refused" THEN "blocked" ELSE "cleanup_escaped")
  /\ UNCHANGED <<rows, queue, recovery, quiet>>

(* classify_success_commit_block and the cancellation that follows it; a   *)
(* refused cancellation is committed as far as it went                     *)
BlockedByCancel == ~Settled(run) /\ (run.cancel \/ run.target \in {"cancel_requested", "cancelled"})

ClassifyBlocked(d) ==
  /\ pc[d] = "blocked"
  /\ \/ /\ ~BlockedByCancel
        /\ Goto(d, "cleanup_settle")
        /\ UNCHANGED <<rows, quiet>>
     \/ /\ BlockedByCancel
        /\ CancelOutcome(d) = "conflict"
        /\ Goto(d, "cleanup_escaped")
        /\ UNCHANGED <<rows, quiet>>
     \/ /\ BlockedByCancel
        /\ CancelOutcome(d) # "conflict"
        /\ CancelWrites(d)
        /\ lease' = IF CancelOutcome(d) = "written" THEN "released" ELSE lease
        /\ Goto(d, IF CancelOutcome(d) = "written" THEN "settle" ELSE "cleanup_settle")
        /\ EventAppended
  /\ UNCHANGED <<queue, recovery>>

(* What follows a settlement transaction that did not commit *)
Unsettled(d, outcome) ==
  /\ Goto(d, IF outcome = "refused" THEN "cleanup_settle" ELSE "cleanup_escaped")
  /\ UNCHANGED <<rows, quiet>>

(* WorkerResultCommitService.commit of a failed result *)
CommitFailure(d) ==
  /\ pc[d] = "executing"
  /\ LET outcome == IF Settled(run) THEN "refused" ELSE FailOutcome(d) IN
     \/ /\ outcome = "written"
        /\ FailWrites(d)
        /\ lease' = "released"
        /\ Goto(d, "settle")
        /\ EventAppended
     \/ outcome # "written" /\ Unsettled(d, outcome)
  /\ UNCHANGED <<queue, recovery>>

(* WorkerExecutionTerminalService.fail_or_cancel of a raising executor, no cancel asked *)
ExecutorRaised(d) ==
  /\ pc[d] = "executing"
  /\ ~run.cancel
  /\ LET outcome == FailOutcome(d) IN
     \/ /\ outcome = "written"
        /\ FailWrites(d)
        /\ lease' = "released"
        /\ Goto(d, "settle")
        /\ EventAppended
     \/ outcome # "written" /\ Unsettled(d, outcome)
  /\ UNCHANGED <<queue, recovery>>

(* The executor stopped because it saw the cancel request, or raised after *)
(* it: WorkerExecutionTerminalService.cancel                               *)
CancelObserved(d) ==
  /\ pc[d] = "executing"
  /\ run.cancel
  /\ LET outcome == CancelOutcome(d) IN
     \/ /\ outcome = "written"
        /\ CancelWrites(d)
        /\ lease' = "released"
        /\ Goto(d, "settle")
        /\ EventAppended
     \/ outcome # "written" /\ Unsettled(d, outcome)
  /\ UNCHANGED <<queue, recovery>>

(* cleanup_runtime_sandbox_lease_after_interruption; best effort *)
Cleanup(d) ==
  /\ pc[d] \in CleanupSteps
  /\ lease' \in {lease, "released"}
  /\ Goto(d, CASE pc[d] = "cleanup_settle" -> "settle"
               [] pc[d] = "cleanup_escaped" -> "escaped"
               [] pc[d] = "cleanup_lost" -> "lost")
  /\ quiet' = [r \in Reconcilers |-> quiet[r] /\ lease' = lease]
  /\ UNCHANGED <<run, attempt, queue, recovery>>

(* An exception leaves process_run_payload *)
Raise(d) ==
  /\ pc[d] \in {"leased", "admitted", "executing", "blocked"}
  /\ Goto(d, IF pc[d] \in {"executing", "blocked"} THEN "cleanup_escaped" ELSE "escaped")
  /\ UNCHANGED <<rows, queue, recovery, quiet>>

(* _terminalize_escaped_process_exception: the queue lease is verified ... *)
VerifyLease(d) ==
  /\ pc[d] = "escaped"
  /\ Goto(d, IF Holds(d) THEN "terminalizing" ELSE "lost")
  /\ UNCHANGED <<rows, queue, recovery, quiet>>

(* ... and then the run is settled in one transaction, the attempt only    *)
(* moved to cancel_requested                                               *)
TerminalizeEscaped(d) ==
  /\ pc[d] = "terminalizing"
  /\ \/ /\ Settled(run) \/ ~Authority(d) \/ ~Exists(d)
        /\ Goto(d, IF Settled(run) \/ ~Authority(d) THEN "settle" ELSE "lost")
        /\ UNCHANGED <<rows, quiet>>
     \/ /\ ~Settled(run) /\ Authority(d) /\ Exists(d)
        /\ LET cancelled == run.cancel \/ run.target \in {"cancel_requested", "cancelled"}
               r == IF cancelled THEN CancelRun(run) ELSE FailRun(run)
           IN /\ run' = r
              /\ WriteAttempt(d, IF cancelled THEN RequestCancel(attempt[d]) ELSE attempt[d])
              /\ Goto(d, IF Settled(r) THEN "settle" ELSE "finishing")
        /\ EventAppended
        /\ UNCHANGED lease
  /\ UNCHANGED <<queue, recovery>>

(* finish_run_terminalization, for the attempt its caller named (0: none)  *)
FinishRaises(d) ==
  LET r == ProgressRun(run) IN
  d # 0 /\ Settled(r) /\ ~MayTerminalize(r, attempt[d], r.status)
FinishWrites(d) ==
  LET r == ProgressRun(run) IN
  /\ run' = r
  /\ attempt' = IF d # 0 /\ Settled(r)
                THEN [attempt EXCEPT ![d] = Terminalize(@, r.status)] ELSE attempt

FinishEscaped(d) ==
  /\ pc[d] = "finishing"
  /\ IF FinishRaises(d) THEN UNCHANGED <<run, attempt, quiet>>
     ELSE FinishWrites(d) /\ EventAppended
  /\ Goto(d, "settle")
  /\ UNCHANGED <<lease, queue, recovery>>

(* ack_run or fail_leased_run: removes the message if the lease is still d's *)
Settle(d) ==
  /\ pc[d] = "settle"
  /\ msg' = IF Holds(d) THEN "gone" ELSE msg
  /\ Goto(d, IF Holds(d) THEN "done" ELSE "lost")
  /\ UNCHANGED <<rows, holder, recovery, quiet>>

(* The heartbeat task gave up: the queue refused the heartbeat, the attempt *)
(* row refused it (cancelled, expired or taken over), or either raised.     *)
OwnershipLost(d) ==
  /\ pc[d] \in WorkerSteps \ CleanupSteps
  /\ Goto(d, IF pc[d] \in {"executing", "blocked"} THEN "cleanup_lost" ELSE "lost")
  /\ UNCHANGED <<rows, queue, recovery, quiet>>

Crash(d) ==
  /\ pc[d] \in WorkerSteps
  /\ Goto(d, "dead")
  /\ UNCHANGED <<rows, queue, recovery, quiet>>

-----------------------------------------------------------------------------
(* The queue message (the queue itself is RunQueue).                       *)

(* The run was created queued; the API enqueues it after its commit        *)
Enqueue ==
  /\ msg = "absent"
  /\ fence = Free
  /\ msg' = "queued"
  /\ UNCHANGED <<rows, pc, holder, recovery, quiet>>

(* The API stopped before Redis took the message: accepted_pending_enqueue *)
EnqueueLost ==
  /\ msg = "absent"
  /\ msg' = "gone"
  /\ UNCHANGED <<rows, pc, holder, recovery, quiet>>

(* Redis refused it (fenced, or over a limit): the API fails the run, or   *)
(* raises when another process has settled it                              *)
EnqueueRejected ==
  /\ msg = "absent"
  /\ msg' = "gone"
  /\ IF FailRun(run).status # run.status
       THEN run' = FailRun(run) /\ EventAppended
       ELSE UNCHANGED <<run, quiet>>
  /\ UNCHANGED <<attempt, lease, pc, holder, recovery>>

LeaseRun(d) ==
  /\ msg = "queued"
  /\ fence = Free
  /\ d = holder + 1
  /\ msg' = "processing"
  /\ holder' = d
  /\ Goto(d, "leased")
  /\ UNCHANGED <<rows, recovery, quiet>>

(* A client repeats its request, whose run was queued when it was looked   *)
(* up: the message is admitted again if it is nowhere in the queue         *)
Readmit ==
  /\ msg = "gone"
  /\ fence = Free
  /\ holder < MaxDeliveries
  /\ msg' = "queued"
  /\ UNCHANGED <<rows, pc, holder, recovery, quiet>>

(* reclaim_expired_leases: the holder's heartbeats stopped long enough     *)
(* ago; the message is requeued, or dead-lettered when its budget is spent *)
Reclaim ==
  /\ msg = "processing"
  /\ fence = Free
  /\ msg' \in {"gone"} \cup (IF holder < MaxDeliveries THEN {"queued"} ELSE {})
  /\ UNCHANGED <<rows, pc, holder, recovery, quiet>>

(* remove_queued_run after a queued run was cancelled *)
RemoveQueued ==
  /\ msg = "queued"
  /\ run.status = "cancelled"
  /\ msg' = "gone"
  /\ UNCHANGED <<rows, pc, holder, recovery, quiet>>

(* cleanup_expired_sandbox_leases: the TTL of the lease passed *)
ExpireLease ==
  /\ lease = "active"
  /\ lease' = "released"
  /\ EventAppended
  /\ UNCHANGED <<run, attempt, pc, queue, recovery>>

-----------------------------------------------------------------------------
(* The cancel request of a user or an administrator: one transaction       *)
CancelRequest ==
  /\ CancelAllowed
  /\ ~Settled(run)
  /\ LET queued == run.status = "queued"
         r == StageRun([run EXCEPT !.cancel = TRUE],
                       IF queued THEN "cancelled" ELSE "cancel_requested")
     IN /\ AnyAttempt /\ ~queued => MayRequestCancel(attempt[Latest])
        /\ attempt' = IF AnyAttempt /\ ~queued
                      THEN [attempt EXCEPT ![Latest] = RequestCancel(@)] ELSE attempt
        /\ run' = IF queued /\ ~AnyAttempt THEN ProgressRun(r) ELSE r
        /\ IF run.cancel /\ ~Settled(run') THEN UNCHANGED quiet ELSE EventAppended
  /\ UNCHANGED <<lease, pc, queue, recovery>>

-----------------------------------------------------------------------------
(* reconcile_stale_runs_for_worker, one candidate.  rec[r].at is the       *)
(* attempt the staging transaction took over, 0 when the run had none.     *)

NotReconciling == [step |-> "idle", expected |-> "queued", cancelled |-> FALSE, at |-> 0]
Reconciling(r, record) == rec' = [rec EXCEPT ![r] = record]

(* list_stale_run_reconciliation_candidates *)
ListStale(r) ==
  /\ rec[r].step = "idle"
  /\ ~Settled(run)
  /\ lease # "active"
  /\ Reconciling(r, [step |-> "listed", expected |-> run.status,
                     cancelled |-> run.cancel, at |-> 0])
  /\ quiet' = [quiet EXCEPT ![r] = TRUE]
  /\ UNCHANGED <<rows, pc, queue, fence>>

(* acquire_run_reconciliation_fence: no message of the run, no other fence *)
AcquireFence(r) ==
  /\ rec[r].step = "listed"
  /\ msg \in {"absent", "gone"}
  /\ fence = Free
  /\ fence' = r
  /\ Reconciling(r, [rec[r] EXCEPT !.step = "fenced"])
  /\ UNCHANGED <<rows, pc, queue, quiet>>

RunOwned(r) ==
  /\ rec[r].step = "listed"
  /\ msg \in {"queued", "processing"} \/ fence # Free
  /\ Reconciling(r, NotReconciling)
  /\ UNCHANGED <<rows, pc, queue, fence, quiet>>

(* The compare-and-set of stage_stale_run_reconciliation *)
StaleRunningOnly(r) ==
  /\ run.status = "running" /\ rec[r].expected = "running"
  /\ run.target = "none"
  /\ run.cancel = rec[r].cancelled
  /\ lease # "active"
  /\ rec[r].cancelled \/ quiet[r]
StillStale(r) ==
  /\ run.status = rec[r].expected
  /\ run.target = "none"
  /\ run.cancel = rec[r].cancelled
  /\ lease # "active"
  /\ rec[r].cancelled \/ quiet[r]

StageStale(r) ==
  LET target == IF rec[r].cancelled THEN "cancelled" ELSE "failed"
      raises == AnyAttempt /\ ~MayPrepareStale(attempt[Latest], target)
  IN /\ rec[r].step = "fenced"
     /\ fence = r
     /\ StillStale(r)
     /\ IF raises
        THEN /\ Reconciling(r, NotReconciling)
             /\ UNCHANGED <<run, attempt, quiet>>
        ELSE /\ run' = [run EXCEPT !.target = target]
             /\ attempt' = IF AnyAttempt
                           THEN [attempt EXCEPT ![Latest] = PrepareStale(@, target)] ELSE attempt
             /\ Reconciling(r, [rec[r] EXCEPT !.step = "staged",
                                              !.at = IF AnyAttempt THEN Latest ELSE 0])
             /\ EventAppended
     /\ UNCHANGED <<lease, pc, queue, fence>>

NoLongerStale(r) ==
  /\ rec[r].step = "fenced"
  /\ fence = r
  /\ ~StillStale(r)
  /\ fence' = Free
  /\ Reconciling(r, NotReconciling)
  /\ UNCHANGED <<rows, pc, queue, quiet>>

(* finish_run_terminalization under the fence; the fence is kept, to       *)
(* expire by itself, when the run is not settled                           *)
FinishStale(r) ==
  /\ rec[r].step = "staged"
  /\ fence = r
  /\ IF FinishRaises(rec[r].at) THEN UNCHANGED <<run, attempt, quiet>>
     ELSE FinishWrites(rec[r].at) /\ EventAppended
  /\ fence' = IF Settled(run') THEN Free ELSE fence
  /\ Reconciling(r, NotReconciling)
  /\ UNCHANGED <<lease, pc, queue>>

(* The fence guard found its fence gone *)
FenceLost(r) ==
  /\ rec[r].step \in {"fenced", "staged"}
  /\ fence # r
  /\ Reconciling(r, NotReconciling)
  /\ UNCHANGED <<rows, pc, queue, fence, quiet>>

(* The TTL of the fence passed; a live guard renews it well before *)
FenceExpires ==
  /\ fence # Free
  /\ RecoveryFails \/ rec[fence].step = "idle"
  /\ fence' = Free
  /\ UNCHANGED <<rows, pc, queue, rec, quiet>>

ReconcilerCrash(r) ==
  /\ RecoveryFails
  /\ rec[r].step # "idle"
  /\ Reconciling(r, NotReconciling)
  /\ UNCHANGED <<rows, pc, queue, fence, quiet>>

-----------------------------------------------------------------------------

Init ==
  /\ run = [status |-> "queued", cancel |-> FALSE, target |-> "none"]
  /\ attempt = [d \in Delivery |-> NoAttempt]
  /\ lease = "none"
  /\ pc = [d \in Delivery |-> "idle"]
  /\ msg = "absent"
  /\ holder = 0
  /\ fence = Free
  /\ rec = [r \in Reconcilers |-> NotReconciling]
  /\ quiet = [r \in Reconcilers |-> FALSE]

WorkerStep(d) ==
  \/ RejectPayload(d) \/ AdmitSkips(d) \/ AdmitDenied(d) \/ Admit(d)
  \/ BindStale(d) \/ BindFails(d) \/ Bind(d)
  \/ CommitSuccess(d) \/ SuccessRefused(d) \/ ClassifyBlocked(d)
  \/ CommitFailure(d) \/ ExecutorRaised(d) \/ CancelObserved(d)
  \/ Cleanup(d) \/ VerifyLease(d) \/ TerminalizeEscaped(d) \/ FinishEscaped(d) \/ Settle(d)

WorkerTrouble(d) == Raise(d) \/ OwnershipLost(d) \/ Crash(d)

QueueStep ==
  \/ Enqueue \/ EnqueueLost \/ EnqueueRejected \/ Readmit \/ Reclaim \/ RemoveQueued \/ ExpireLease
  \/ \E d \in Delivery : LeaseRun(d)

ReconcilerStep(r) ==
  \/ ListStale(r) \/ AcquireFence(r) \/ RunOwned(r)
  \/ StageStale(r) \/ NoLongerStale(r) \/ FinishStale(r) \/ FenceLost(r)

Next ==
  \/ \E d \in Delivery : WorkerStep(d) \/ WorkerTrouble(d) \/ ExecutorEvent(d)
  \/ QueueStep
  \/ CancelRequest
  \/ \E r \in Reconcilers : ReconcilerStep(r) \/ ReconcilerCrash(r)
  \/ FenceExpires

Spec == Init /\ [][Next]_vars

(* Fairness.  A live worker keeps working, and one that stopped loses its  *)
(* lease to the reclaim pass; the maintenance loop of each process runs    *)
(* for ever; time passes, so leases and abandoned fences expire.  Nothing  *)
(* is assumed of crashes, exceptions, cancel requests or progress events.  *)
ReclaimAbandoned ==
  msg = "processing" /\ pc[holder] \notin WorkerSteps /\ Reclaim

Fairness ==
  /\ WF_vars(Enqueue \/ EnqueueLost \/ EnqueueRejected)
  /\ WF_vars(\E d \in Delivery : LeaseRun(d))
  /\ WF_vars(ReclaimAbandoned)
  /\ WF_vars(ExpireLease)
  /\ WF_vars(FenceExpires)
  /\ \A d \in Delivery : WF_vars(WorkerStep(d))
  /\ \A r \in Reconcilers : WF_vars(ReconcilerStep(r))

FairSpec == Spec /\ Fairness

-----------------------------------------------------------------------------
(* The type invariant: each row and each process is in a state the code    *)
(* writes, and a stored attempt has a positive generation and ordinal.     *)
TypeOK ==
  /\ run \in Run
  /\ attempt \in [Delivery -> Attempt \cup {NoAttempt}]
  /\ lease \in {"none", "active", "released"}
  /\ pc \in [Delivery -> WorkerSteps \cup {"idle", "done", "lost", "dead"}]
  /\ msg \in {"absent", "queued", "processing", "gone"}
  /\ holder \in 0 .. MaxDeliveries
  /\ fence \in Reconcilers \cup {Free}
  /\ rec \in [Reconcilers -> [step : {"idle", "listed", "fenced", "staged"},
                              expected : RunOpen, cancelled : BOOLEAN,
                              at : Delivery \cup {0}]]
  /\ quiet \in [Reconcilers -> BOOLEAN]

(* However often the message is redelivered, and however long a worker     *)
(* that lost its lease keeps going, at most one delivery ever binds an     *)
(* attempt and executes: the dispatch fence of WorkerDispatchBinding.bind  *)
(* takes the run out of 'queued' for good.                                 *)
ExecutedAtMostOnce ==
  \A d, e \in Delivery : Exists(d) /\ Exists(e) => d = e

(* complete_run never lets a success overtake a cancel request or another  *)
(* staged outcome, and a settled run keeps no staged target.  The attempt   *)
(* mirrors it: a settled attempt has the status of its run whoever settled  *)
(* the two, a queued run has no attempt yet, a running one has an open      *)
(* attempt somebody can settle, and one a reconciler expired stays with it. *)
RowsAgree ==
  /\ run.status = "succeeded" => ~run.cancel
  /\ Settled(run) => run.target = "none"
  /\ run.status = "queued" => ~AnyAttempt
  /\ run.status = "running" => \E d \in Delivery : attempt[d].status \in AttemptOpen
  /\ \A d \in Delivery :
       /\ attempt[d].status \in RunTerminal => attempt[d].status = run.status
       /\ attempt[d].status = "expired" =>
            /\ attempt[d].owner = "reconciler"
            /\ run.status = "running" /\ run.target = "failed"

(* The first terminalization target wins: a staged failure or cancellation *)
(* stays staged until the run settles as exactly that, a cancel request    *)
(* can only end in a cancellation (stage_run_terminalization), and no late *)
(* worker, retried request or reconciler touches a settled run or attempt. *)
KeepsFirstIntent ==
  /\ run.target \in {"failed", "cancelled"} =>
       \/ run'.target = run.target /\ run'.status \in RunOpen
       \/ run'.status = run.target
  /\ run.target = "cancel_requested" =>
       \/ run'.target \in {"cancel_requested", "cancelled"} /\ run'.status \in RunOpen
       \/ run'.status = "cancelled"
  /\ Settled(run) => run' = run
  /\ \A d \in Delivery : attempt[d].status \in RunTerminal => attempt'[d] = attempt[d]

(* Attempt fencing: once a reconciler owns the attempt, no further step of *)
(* the worker that started it changes the run or any attempt.              *)
TakenOverIsInert ==
  \A d \in Delivery :
    attempt[d].owner = "reconciler" /\ pc'[d] # pc[d] => UNCHANGED <<run, attempt>>

(* Without cancellation and with a maintenance loop that survives, every   *)
(* run settles, whatever crashes, exceptions, lost messages and expired    *)
(* leases its deliveries meet.                                             *)
RunSettles == <>Settled(run)

(* docs/exec-plans/execution-chain-state-inventory.md: a cancel request is *)
(* first written as cancel_requested and then advanced to cancelled by the *)
(* executor or by stale-run maintenance, and whatever stops in the middle  *)
(* has a background path; so a run with a terminalization target settles.  *)
IntentConverges == run.target # "none" ~> Settled(run)

=============================================================================
