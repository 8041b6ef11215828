---------------------------- MODULE SandboxLease ----------------------------
(***************************************************************************)
(* The sandbox lease of one run attempt: its row in sandbox_leases, the    *)
(* container and executor task behind it, the queue worker that creates    *)
(* and dispatches it, the executor that reports its result, and the        *)
(* background workers that probe the executor, reconcile its terminal      *)
(* receipt with the run, and clean the container up.                       *)
(*                                                                         *)
(* A statement of app/platform/postgres/sandbox_leases.py is one atomic    *)
(* update of the row.  The provider calls between two statements (collect  *)
(* a workspace, stop a container) are steps of their own.  A claim token   *)
(* is a fresh uuid; a worker holds one claim at a time, so the worker's    *)
(* name stands for its current token.                                      *)
(***************************************************************************)
EXTENDS Integers

CONSTANTS
  Workers,         \* processes that probe, reconcile and clean up
  None,            \* no receipt, no claim token
  ProbeLimit,      \* _EXECUTOR_PROBE_FAILURE_LIMIT
  CancelAllowed,   \* may a cancel be requested?
  PermanentErrors  \* may a receipt turn out to be unusable?

VARIABLES
  run,    \* [status, cancel]: the run row; cancel also stands for its staged target
  lease,  \* the row of sandbox_leases
  box,    \* the container: "none", "up", "stopped"
  task,   \* the executor's task: "absent", "running" or its result
  owner,  \* program counter of the queue worker's SandboxRuntime.submit
  wk,     \* [pc, view, seen] per background worker
  sweep,  \* the cancel route's cleanup: "idle", "listed" or "stopped"
  overran \* history: a claim went stale while its holder was still at work

vars == <<run, lease, box, task, owner, wk, sweep, overran>>

Results  == {"completed", "failed", "cancelled"}
Receipts == Results \cup {"lost"}
Terminal == {"succeeded", "failed", "cancelled"}
Settled  == run.status \in Terminal

(* lease_payload_json.terminal_reconciliation: nothing, the workspace      *)
(* snapshot, or the checkpoint with the stop/save continuation.            *)
NoStage == [kind |-> "none", result |-> "none", saved |-> FALSE]
Stages  == [kind : {"none", "snapshot", "checkpoint"},
            result : Results \cup {"none"}, saved : BOOLEAN]
Snapshot(res)     == [kind |-> "snapshot", result |-> res, saved |-> FALSE]
Checkpointed(st, s) == [st EXCEPT !.kind = "checkpoint", !.saved = s]

Init ==
  /\ run = [status |-> "running", cancel |-> FALSE]
  /\ lease = [status |-> "none", context |-> FALSE, receipt |-> None,
              recon |-> "waiting_terminal", token |-> None, aged |-> FALSE,
              stage |-> NoStage, probes |-> 0]
  /\ box = "none"
  /\ task = "absent"
  /\ owner = "create"
  /\ wk = [w \in Workers |-> [pc |-> "idle", view |-> NoStage, seen |-> "none"]]
  /\ sweep = "idle"
  /\ overran = FALSE

-----------------------------------------------------------------------------
(* Statements on the row                                                    *)

(* release_sandbox_lease, release_stopped_sandbox_leases: only a row whose *)
(* receipt is absent or reconciled leaves the active state                 *)
Releasable(l) == l.receipt = None \/ l.recon = "finalized"
Released(l) == IF l.status = "active" /\ Releasable(l)
               THEN [l EXCEPT !.status = "released"] ELSE l

(* record_sandbox_executor_accepted *)
Accepted(l) == [l EXCEPT !.context = TRUE,
                         !.recon = IF l.receipt # None /\ @ = "waiting_terminal"
                                   THEN "pending" ELSE @]

(* record_sandbox_executor_terminal, without a token or under a probe claim *)
MayRecord(l, token) ==
  /\ l.status = "active"
  /\ l.receipt = None
  /\ token # None => l.recon = "claimed" /\ l.token = token
Recorded(l, res) ==
  [l EXCEPT !.receipt = res,
            !.recon = IF l.context THEN "pending" ELSE "waiting_terminal"]

(* has_sandbox_executor_reconciliation_claim *)
Live(l)    == l.status \in {"active", "released"}
Holds(l, w) == Live(l) /\ l.recon = "claimed" /\ l.token = w
Claimed(l, w) == [l EXCEPT !.recon = "claimed", !.token = w, !.aged = FALSE]
Unclaimed(l, recon) == [l EXCEPT !.recon = recon, !.token = None, !.aged = FALSE]

(* retry_sandbox_executor_reconciliation *)
Retried(l, w) == IF Holds(l, w) THEN Unclaimed(l, "retry") ELSE l

(* release_sandbox_executor_probe_claim *)
ProbeReleased(l, w) ==
  IF l.status = "active" /\ l.receipt = None /\ Holds(l, w)
  THEN Unclaimed(l, "waiting_terminal") ELSE l

(* finalize_stopped_executor_checkpoint: the exact checkpoint, the current claim *)
MayFinalize(l, w, st) == Holds(l, w) /\ l.stage = st /\ l.receipt # None
Finalized(l) == [Unclaimed(l, "finalized") EXCEPT !.status = "released"]

(* quarantine_sandbox_executor_reconciliation *)
Quarantined(l, w) ==
  IF Holds(l, w) THEN [Unclaimed(l, "failed") EXCEPT !.status = "quarantined"] ELSE l

(* has_failed_sandbox_executor_reconciliation_cleanup_claim *)
OwnsCleanup(l, w) == Live(l) /\ l.recon \in {"failed", "cleanup_pending"} /\ l.token = w

(* What a failing or cancelled execution makes of the run *)
Abandoned(r) == [r EXCEPT !.status = IF r.status \in Terminal THEN @
                                     ELSE IF r.cancel THEN "cancelled" ELSE "failed"]

-----------------------------------------------------------------------------
(* The queue worker: SandboxRuntime.submit and the worker's failure path   *)

OwnerGoes(to) == owner' = to

(* create_and_record_lease: the container, then its row *)
StartContainer ==
  /\ owner = "create"
  /\ box' = "up"
  /\ OwnerGoes("record")
  /\ UNCHANGED <<run, lease, task, wk, sweep, overran>>

RecordLease ==
  /\ owner = "record"
  /\ lease' = [lease EXCEPT !.status = "active"]
  /\ OwnerGoes("accept")
  /\ UNCHANGED <<run, box, task, wk, sweep, overran>>

(* The insert failed or its outcome is unknown: stop the container and write *)
(* the release fence; either may fail and leave its part behind.             *)
RecordLeaseFails ==
  /\ owner = "record"
  /\ \/ box' = "stopped" /\ lease' = [lease EXCEPT !.status = "released"]
     \/ /\ box' \in {box, "stopped"}
        /\ lease' \in {lease, [lease EXCEPT !.status = "active"]}
  /\ OwnerGoes("fail")
  /\ UNCHANGED <<run, task, wk, sweep, overran>>

(* Observation responsibility is committed before the network call; a     *)
(* staging or validation failure, or a row no longer active, aborts.       *)
Accept ==
  /\ owner = "accept"
  /\ lease.status = "active"
  /\ lease' = Accepted(lease)
  /\ OwnerGoes("send")
  /\ UNCHANGED <<run, box, task, wk, sweep, overran>>

RejectBeforeDispatch ==
  /\ owner = "accept"
  /\ OwnerGoes("abort")
  /\ UNCHANGED <<run, lease, box, task, wk, sweep, overran>>

(* _call_execute_task: delivered or not, answered or not *)
Send ==
  /\ owner = "send"
  /\ \/ box = "up" /\ task' = "running" /\ owner' \in {"reply", "recover"}
     \/ UNCHANGED task /\ OwnerGoes("recover")
  /\ UNCHANGED <<run, lease, box, wk, sweep, overran>>

(* The executor accepted: record it again with the dispatch timings *)
ReplyAccepted ==
  /\ owner = "reply"
  /\ IF lease.status = "active"
     THEN lease' = Accepted(lease) /\ OwnerGoes("done")
     ELSE UNCHANGED lease /\ OwnerGoes("recover")
  /\ UNCHANGED <<run, box, task, wk, sweep, overran>>

(* stop_owned_runtime before dispatch: stop, then settle the run and       *)
(* release the row in one transaction; a failed stop only fails the run.   *)
AbortDispatch ==
  /\ owner = "abort"
  /\ box' = "stopped"
  /\ run' = Abandoned(run)
  /\ lease' = Released(lease)
  /\ OwnerGoes("done")
  /\ UNCHANGED <<task, wk, sweep, overran>>

\* Mutant: the row is released although the stop failed.
AbortReleasesAnyway ==
  /\ owner = "abort"
  /\ lease' = Released(lease)
  /\ OwnerGoes("fail")
  /\ UNCHANGED <<run, box, task, wk, sweep, overran>>
AbortStopFails ==
  /\ owner = "abort"
  /\ OwnerGoes("fail")
  /\ UNCHANGED <<run, lease, box, task, wk, sweep, overran>>

(* client.cancel: the task ends cancelled, or is still running when asked  *)
CancelTask ==
  task' \in IF box = "up" /\ task = "running" THEN {"running", "cancelled"} ELSE {task}

(* get_sandbox_executor_terminal_handoff *)
HandedOff(l) ==
  /\ l.receipt # None /\ l.context
  /\ \/ l.status = "active" /\ l.recon \in {"pending", "claimed", "retry", "failed"}
     \/ l.status = "released" /\ l.recon = "finalized"

(* stop_owned_runtime after dispatch: cancel the task and persist what it  *)
(* answers, or find the receipt somebody else persisted; else fail the run. *)
RecoverDispatch ==
  /\ owner = "recover"
  /\ CancelTask
  /\ \/ /\ box = "up" /\ task' \in Results
        /\ lease.status = "active" /\ lease.receipt \in {None, task'}
        /\ lease' = IF MayRecord(lease, None) THEN Recorded(lease, task') ELSE lease
        /\ OwnerGoes("done")
     \/ /\ OwnerGoes(IF HandedOff(lease) THEN "done" ELSE "fail")
        /\ UNCHANGED lease
  /\ UNCHANGED <<run, box, wk, sweep, overran>>

(* completion.fail: the run ends, the lease stays for the maintenance loops *)
FailRun ==
  /\ owner = "fail"
  /\ run' = Abandoned(run)
  /\ OwnerGoes("done")
  /\ UNCHANGED <<lease, box, task, wk, sweep, overran>>

OwnerCrash ==
  /\ owner # "done"
  /\ OwnerGoes("done")
  /\ UNCHANGED <<run, lease, box, task, wk, sweep, overran>>

-----------------------------------------------------------------------------
(* The executor and its container                                           *)

FinishTask ==
  /\ task = "running" /\ box = "up"
  /\ task' \in {"completed", "failed"}
  /\ UNCHANGED <<run, lease, box, owner, wk, sweep, overran>>

(* record_executor_callback with a terminal status: refused for a settled  *)
(* run; a second, different receipt is a conflict.                         *)
TerminalCallback ==
  /\ task \in Results /\ box = "up"
  /\ ~Settled
  /\ MayRecord(lease, None)
  /\ lease' = Recorded(lease, task)
  /\ UNCHANGED <<run, box, task, owner, wk, sweep, overran>>

ContainerDies ==
  /\ box = "up"
  /\ box' = "stopped"
  /\ UNCHANGED <<run, lease, task, owner, wk, sweep, overran>>

(* forward_requested_executor_cancellations_once *)
ForwardCancel ==
  /\ run.cancel
  /\ lease.status = "active" /\ lease.receipt = None /\ lease.context
  /\ lease.recon \in {"waiting_terminal", "claimed"}
  /\ task = "running" /\ box = "up"
  /\ task' = "cancelled"
  /\ UNCHANGED <<run, lease, box, owner, wk, sweep, overran>>

-----------------------------------------------------------------------------
(* Requests and maintenance outside the claims                              *)

CancelRequest ==
  /\ CancelAllowed
  /\ ~Settled /\ ~run.cancel
  /\ run' = [run EXCEPT !.cancel = TRUE]
  /\ UNCHANGED <<lease, box, task, owner, wk, sweep, overran>>

(* Stop and release under the row lock: cleanup_expired_sandbox_runtime_leases *)
(* and the owner's release route.  The stop may succeed and the transaction fail. *)
LockedRelease ==
  /\ lease.status = "active" /\ Releasable(lease)
  /\ box' = "stopped"
  /\ lease' \in {lease, Released(lease)}
  /\ UNCHANGED <<run, task, owner, wk, sweep, overran>>

(* A repeated cancel of a cancelled run lists its active leases, and        *)
(* cleanup_cancelled_run_leases stops the container and releases the row,   *)
(* each in its own step: the listed row may be old by then.                 *)
CancelLists ==
  /\ sweep = "idle"
  /\ run.status = "cancelled"
  /\ lease.status = "active" /\ Releasable(lease)
  /\ sweep' = "listed"
  /\ UNCHANGED <<run, lease, box, task, owner, wk, overran>>

CancelStops ==
  /\ sweep = "listed"
  /\ \/ box' = "stopped" /\ sweep' = "stopped"
     \/ box' \in {box, "stopped"} /\ sweep' = "idle"
  /\ UNCHANGED <<run, lease, task, owner, wk, overran>>

CancelReleases ==
  /\ sweep = "stopped"
  /\ lease' = Released(lease)
  /\ sweep' = "idle"
  /\ UNCHANGED <<run, box, task, owner, wk, overran>>

(* The stale-run sweep, which sees the lease only through its guard: no    *)
(* active lease, no unreconciled receipt, and no staged target             *)
\* Mutant: looks for a released lease instead of no active one.
StaleSweepJoinsLease ==
  /\ owner = "done"
  /\ ~Settled /\ ~run.cancel
  /\ lease.status = "released" /\ Releasable(lease)
  /\ run' = Abandoned(run)
  /\ UNCHANGED <<lease, box, task, owner, wk, sweep, overran>>
StaleSweep ==
  /\ owner = "done"
  /\ ~Settled /\ ~run.cancel
  /\ lease.status # "active" /\ Releasable(lease)
  /\ run' = Abandoned(run)
  /\ UNCHANGED <<lease, box, task, owner, wk, sweep, overran>>

-----------------------------------------------------------------------------
(* Background workers                                                       *)

WorkerGoes(w, to) == wk' = [wk EXCEPT ![w].pc = to]
Idle == [pc |-> "idle", view |-> NoStage, seen |-> "none"]
Stop(w) == wk' = [wk EXCEPT ![w] = Idle]
Others == <<box, task, owner, sweep, overran>>

(* A claim is stale 300 seconds after it was taken, a probe claim after 45. *)
(* The work under a reconciliation claim is cut off after 240.              *)
\* Mutant: work under a claim is not cut off before the claim is stale.
WithinNoDeadline(l, w) == FALSE
WithinDeadline(l, w) == l.recon = "claimed" /\ l.receipt # None /\ wk[w].pc # "idle"
ClaimAges ==
  /\ lease.token # None /\ ~lease.aged
  /\ lease' = [lease EXCEPT !.aged = TRUE]
  /\ overran' = (overran \/ WithinDeadline(lease, lease.token))
  /\ UNCHANGED <<run, box, task, owner, wk, sweep>>

(* claim_sandbox_executor_suspects: the heartbeat went stale, or the claim did *)
ClaimSuspect(w) ==
  /\ wk[w].pc = "idle"
  /\ lease.status = "active" /\ lease.receipt = None /\ lease.context
  /\ lease.recon = "waiting_terminal" \/ (lease.recon = "claimed" /\ lease.aged)
  /\ lease' = [Claimed(lease, w) EXCEPT
                 !.probes = IF @ < ProbeLimit THEN @ + 1 ELSE @]
  /\ WorkerGoes(w, "probe")
  /\ UNCHANGED <<run, Others>>

(* probe_suspect_executor_tasks_once: forward a requested cancel, then ask  *)
(* for the status.  A container that is gone is proof the executor is lost. *)
Probe(w) ==
  /\ wk[w].pc = "probe"
  /\ IF run.cancel THEN CancelTask ELSE UNCHANGED task
  /\ IF box = "up" /\ task' \notin Results
     THEN lease' = ProbeReleased(lease, w) /\ Stop(w)
     ELSE /\ wk' = [wk EXCEPT ![w].pc = "persist",
                              ![w].seen = IF box = "up" THEN task' ELSE "lost"]
          /\ UNCHANGED lease
  /\ UNCHANGED <<run, box, owner, sweep, overran>>

(* The probe failed without proving the executor absent *)
ProbeFails(w) ==
  /\ wk[w].pc = "probe"
  /\ IF lease.probes >= ProbeLimit
     THEN wk' = [wk EXCEPT ![w].pc = "persist", ![w].seen = "lost"] /\ UNCHANGED lease
     ELSE lease' = ProbeReleased(lease, w) /\ Stop(w)
  /\ UNCHANGED <<run, Others>>

(* _persist_probe_terminal *)
PersistProbe(w) ==
  /\ wk[w].pc = "persist"
  /\ lease' = IF MayRecord(lease, w) THEN Recorded(lease, wk[w].seen) ELSE lease
  /\ Stop(w)
  /\ UNCHANGED <<run, Others>>

(* claim_sandbox_executor_reconciliations *)
Claimable(l) ==
  /\ Live(l) /\ l.receipt # None /\ l.context
  /\ l.recon \in {"pending", "retry"} \/ (l.recon = "claimed" /\ l.aged)
ClaimReceipt(w) ==
  /\ wk[w].pc = "idle"
  /\ Claimable(lease)
  /\ lease' = Claimed(lease, w)
  /\ wk' = [wk EXCEPT ![w] = [Idle EXCEPT !.pc = "check", !.view = lease.stage]]
  /\ UNCHANGED <<run, Others>>

(* The claim and the run, then where the saved stage lets the work resume *)
CheckRun(w) ==
  /\ wk[w].pc = "check"
  /\ LET kind == wk[w].view.kind IN
     CASE ~Holds(lease, w) -> Stop(w)
       [] Holds(lease, w) /\ Settled ->
            WorkerGoes(w, IF kind = "checkpoint" THEN "finalize" ELSE "mark")
       [] OTHER -> WorkerGoes(w, CASE kind = "none" -> "collect"
                                   [] kind = "snapshot" -> "confirm"
                                   [] kind = "checkpoint" -> "settle")
  /\ UNCHANGED <<run, lease, Others>>

(* The run was settled elsewhere: only the checkpointed lease is left *)
FinalizeSettled(w) ==
  /\ wk[w].pc = "finalize"
  /\ lease' = IF MayFinalize(lease, w, wk[w].view) THEN Finalized(lease) ELSE lease
  /\ Stop(w)
  /\ UNCHANGED <<run, Others>>

(* collect_workspace.  A failed collection turns a completed result into a *)
(* failed one and preserves the other results.                              *)
ResultOf(receipt) == IF receipt = "lost" THEN "failed" ELSE receipt
Collected(receipt, ok) ==
  IF ~ok /\ receipt = "completed" THEN "failed" ELSE ResultOf(receipt)
Collect(w) ==
  /\ wk[w].pc = "collect"
  /\ \E ok \in BOOLEAN :
       wk' = [wk EXCEPT ![w].pc = "record", ![w].seen = Collected(lease.receipt, ok)]
  /\ UNCHANGED <<run, lease, Others>>

(* record_sandbox_reconciliation_stage *)
MayStage(l, w) == Holds(l, w)
RecordStage(w, stage, to) ==
  IF MayStage(lease, w)
  THEN /\ lease' = [lease EXCEPT !.stage = stage]
       /\ wk' = [wk EXCEPT ![w] = [Idle EXCEPT !.pc = to, !.view = stage]]
  ELSE Stop(w) /\ UNCHANGED lease
RecordSnapshot(w) ==
  /\ wk[w].pc = "record"
  /\ RecordStage(w, Snapshot(wk[w].seen), "confirm")
  /\ UNCHANGED <<run, Others>>

(* The claim is read once more before the container is stopped *)
ConfirmClaim(w) ==
  /\ wk[w].pc \in {"confirm", "fail"}
  /\ IF Holds(lease, w)
     THEN WorkerGoes(w, IF wk[w].pc = "confirm" THEN "stop" ELSE "failstop")
     ELSE Stop(w)
  /\ UNCHANGED <<run, lease, Others>>

StopContainer(w) ==
  /\ wk[w].pc \in {"stop", "failstop", "cleanstop"}
  /\ box' = "stopped"
  /\ WorkerGoes(w, CASE wk[w].pc = "stop" -> "checkpoint"
                     [] wk[w].pc = "failstop" -> "failsettle"
                     [] wk[w].pc = "cleanstop" -> "cleaned")
  /\ UNCHANGED <<run, lease, task, owner, sweep, overran>>

(* The save after the stop may fail; the checkpoint records which *)
RecordCheckpoint(w) ==
  /\ wk[w].pc = "checkpoint"
  /\ \E saved \in BOOLEAN : RecordStage(w, Checkpointed(wk[w].view, saved), "settle")
  /\ UNCHANGED <<run, Others>>

(* WorkerResultCommitService._commit on a reconciled result: the run status *)
(* it writes, and the failed result it refuses to write.                    *)
\* Mutant: whatever did not fail succeeded.
CommitNotFailed(st, r) ==
  IF r.cancel THEN "cancelled" ELSE IF st.result # "failed" THEN "succeeded" ELSE "failed"
CommitStatus(st, r) ==
  IF r.cancel THEN "cancelled" ELSE IF st.result = "completed" THEN "succeeded" ELSE "failed"
CommitRefused(st, r) == st.result = "failed" /\ r.cancel /\ ~st.saved

(* reconcile_executor_terminal_result: the run and its lease settle in one *)
(* transaction; a result that settles nothing goes back to retry.          *)
SettleRun(w) ==
  /\ wk[w].pc = "settle"
  /\ LET st == wk[w].view IN
     IF Settled \/ (CommitRefused(st, run) /\ Holds(lease, w))
     THEN lease' = Retried(lease, w) /\ UNCHANGED run
     ELSE IF MayFinalize(lease, w, st)
     THEN /\ run' = [run EXCEPT !.status = CommitStatus(st, run)]
          /\ lease' = Finalized(lease)
     ELSE UNCHANGED <<run, lease>>
  /\ Stop(w)
  /\ UNCHANGED Others

(* A permanent error: a checkpoint is quarantined, otherwise the container *)
(* is stopped, the run failed and the lease left to the cleanup loop.      *)
PermanentError(w) ==
  /\ PermanentErrors
  /\ wk[w].pc \in {"collect", "confirm", "settle"}
  /\ IF wk[w].view.kind = "checkpoint"
     THEN lease' = Quarantined(lease, w) /\ Stop(w)
     ELSE WorkerGoes(w, "fail") /\ UNCHANGED lease
  /\ UNCHANGED <<run, Others>>

(* A receipt without authority (ReconciliationAuthorityError), found when   *)
(* its context is read or when the run is locked, is quarantined as it is.  *)
Unauthorised(w) ==
  /\ PermanentErrors
  /\ \/ wk[w].pc = "check" /\ ~(Settled /\ wk[w].view.kind = "checkpoint")
     \/ wk[w].pc = "settle"
  /\ lease' = Quarantined(lease, w)
  /\ Stop(w)
  /\ UNCHANGED <<run, Others>>

(* _terminalize_reconciliation_failure *)
SettleFailure(w) ==
  /\ wk[w].pc = "failsettle"
  /\ IF Holds(lease, w)
     THEN run' = Abandoned(run) /\ WorkerGoes(w, "mark")
     ELSE UNCHANGED run /\ Stop(w)
  /\ UNCHANGED <<lease, Others>>

(* mark_sandbox_executor_reconciliation_cleanup_pending *)
MarkForCleanup(w) ==
  /\ wk[w].pc = "mark"
  /\ lease' = IF Holds(lease, w) THEN Unclaimed(lease, "cleanup_pending") ELSE lease
  /\ Stop(w)
  /\ UNCHANGED <<run, Others>>

(* claim_failed_sandbox_executor_reconciliation_cleanups *)
ClaimCleanup(w) ==
  /\ wk[w].pc = "idle"
  /\ Live(lease) /\ lease.receipt # None
  /\ lease.recon \in {"failed", "cleanup_pending"}
  /\ lease.token = None \/ lease.aged
  /\ lease' = [lease EXCEPT !.token = w, !.aged = FALSE]
  /\ WorkerGoes(w, "clean")
  /\ UNCHANGED <<run, Others>>

ConfirmCleanup(w) ==
  /\ wk[w].pc = "clean"
  /\ IF OwnsCleanup(lease, w) THEN WorkerGoes(w, "cleanstop") ELSE Stop(w)
  /\ UNCHANGED <<run, lease, Others>>

FinishCleanup(w) ==
  /\ wk[w].pc = "cleaned"
  /\ lease' = IF OwnsCleanup(lease, w) THEN Finalized(lease) ELSE lease
  /\ Stop(w)
  /\ UNCHANGED <<run, Others>>

(* A stop that failed or timed out (the container may be gone all the      *)
(* same), a timeout or an exception elsewhere: the claim goes back.        *)
StopFails(w) ==
  /\ wk[w].pc \in {"stop", "failstop", "cleanstop"}
  /\ box' \in {box, "stopped"}
  /\ lease' = IF OwnsCleanup(lease, w) THEN Unclaimed(lease, lease.recon)
                                       ELSE Retried(lease, w)
  /\ Stop(w)
  /\ UNCHANGED <<run, task, owner, sweep, overran>>

Interrupted(w) ==
  /\ wk[w].pc \in {"check", "finalize", "collect", "record", "confirm", "checkpoint",
                   "settle", "fail", "failsettle", "mark"}
  /\ lease' = Retried(lease, w)
  /\ Stop(w)
  /\ UNCHANGED <<run, Others>>

(* The process dies; its claim stays on the row until it is stale *)
WorkerCrash(w) ==
  /\ wk[w].pc # "idle"
  /\ Stop(w)
  /\ UNCHANGED <<run, lease, Others>>

-----------------------------------------------------------------------------
OwnerStep ==
  \/ StartContainer \/ RecordLease \/ RecordLeaseFails \/ Accept \/ RejectBeforeDispatch
  \/ Send \/ ReplyAccepted \/ AbortDispatch \/ AbortStopFails \/ RecoverDispatch \/ FailRun

Advance(w) ==
  \/ Probe(w) \/ PersistProbe(w) \/ CheckRun(w) \/ FinalizeSettled(w) \/ Collect(w)
  \/ RecordSnapshot(w) \/ ConfirmClaim(w) \/ StopContainer(w) \/ RecordCheckpoint(w)
  \/ SettleRun(w) \/ SettleFailure(w) \/ MarkForCleanup(w) \/ ConfirmCleanup(w)
  \/ FinishCleanup(w)

Next ==
  \/ OwnerStep \/ OwnerCrash
  \/ FinishTask \/ TerminalCallback \/ ContainerDies \/ ForwardCancel
  \/ CancelRequest \/ LockedRelease \/ CancelLists \/ CancelStops \/ CancelReleases \/ StaleSweep
  \/ ClaimAges
  \/ \E w \in Workers :
       \/ ClaimSuspect(w) \/ ClaimReceipt(w) \/ ClaimCleanup(w) \/ Advance(w)
       \/ ProbeFails(w) \/ PermanentError(w) \/ Unauthorised(w) \/ StopFails(w) \/ Interrupted(w)
       \/ WorkerCrash(w)

Spec == Init /\ [][Next]_vars

(* The steps of a pass under a claim, by their place in it *)
PassStep(w, k) ==
  CASE k = 1 -> ClaimReceipt(w) \/ ClaimCleanup(w)
    [] k = 2 -> CheckRun(w) \/ ConfirmCleanup(w)
    [] k = 3 -> Collect(w) \/ ConfirmClaim(w) \/ SettleRun(w) \/ FinalizeSettled(w)
    [] k = 4 -> RecordSnapshot(w) \/ StopContainer(w)
    [] k = 5 -> RecordCheckpoint(w) \/ SettleFailure(w) \/ FinishCleanup(w)
    [] k = 6 -> MarkForCleanup(w)

(* A lease expires once its executor no longer renews it *)
ExpirySweep ==
  /\ LockedRelease
  /\ ~(task = "running" /\ box = "up")
  /\ lease'.status = "released"

(* The maintenance loops run for ever, and a pass that is interrupted is    *)
(* followed by another: no step of a pass is interrupted every time it is   *)
(* reached.  A task finishes, and the queue worker goes on unless it dies.  *)
Fairness ==
  /\ WF_vars(OwnerStep)
  /\ WF_vars(FinishTask)
  /\ WF_vars(ClaimAges)
  /\ WF_vars(StaleSweep)
  /\ WF_vars(ExpirySweep)
  /\ \A w \in Workers :
       /\ WF_vars(Advance(w))
       /\ \A k \in 1..6 : SF_vars(PassStep(w, k))

FairSpec == Spec /\ Fairness

-----------------------------------------------------------------------------
(* Every row, view and program counter has its type. *)
TypeOK ==
  /\ run \in [status : {"running"} \cup Terminal, cancel : BOOLEAN]
  /\ lease \in [status : {"none", "active", "released", "quarantined"},
                context : BOOLEAN, receipt : Receipts \cup {None},
                recon : {"waiting_terminal", "pending", "claimed", "retry",
                         "cleanup_pending", "finalized", "failed"},
                token : Workers \cup {None}, aged : BOOLEAN, stage : Stages,
                probes : 0..ProbeLimit]
  /\ box \in {"none", "up", "stopped"}
  /\ task \in {"absent", "running"} \cup Results
  /\ owner \in {"create", "record", "accept", "send", "reply", "recover", "abort",
                "fail", "done"}
  /\ wk \in [Workers -> [pc : {"idle", "probe", "persist", "check", "finalize",
                               "collect", "record", "confirm", "stop", "checkpoint",
                               "settle", "fail", "failstop", "failsettle", "mark",
                               "clean", "cleanstop", "cleaned"},
                         view : Stages, seen : Receipts \cup {"none"}]]
  /\ sweep \in {"idle", "listed", "stopped"}
  /\ overran \in BOOLEAN

(* A row that says "released" has no container running behind it and no     *)
(* unreconciled receipt on it, whichever path released it (expiry, owner    *)
(* release, cancel cleanup, abort of a dispatch, finalization, failed       *)
(* cleanup) and even if the receipt arrived after that path had listed the  *)
(* row and stopped its container.  A lease is finalized only once its run   *)
(* has ended: after that nobody would look at the run's receipt again.      *)
ReleaseIsSafe ==
  /\ lease.status = "released" =>
       box # "up" /\ (lease.receipt = None \/ lease.recon = "finalized")
  /\ lease.recon = "finalized" => Settled

(* A run succeeds only on a receipt of completion whose workspace was       *)
(* collected before the container was stopped and checkpointed after it.    *)
SuccessIsEvidenced ==
  run.status = "succeeded" =>
    /\ lease.receipt = "completed"
    /\ lease.stage.kind = "checkpoint" /\ lease.stage.result = "completed"
    /\ box = "stopped"
    /\ lease.status = "released" /\ lease.recon = "finalized"

(* While a reconciliation worker reads the workspace out of the container   *)
(* and has not persisted the snapshot, nobody stops that container.  This   *)
(* is what the work timeout (240 s) below the claim's staleness (300 s) is  *)
(* for: it holds as long as no claim went stale under a working holder.     *)
(* What was collected is kept in any case: a worker that lost its claim     *)
(* never replaces the result or the checkpoint its successor resumes from.  *)
KeepsCollection ==
  /\ ~overran /\ (\E w \in Workers : wk[w].pc \in {"collect", "record"})
       /\ box = "up" /\ box' # "up" => ContainerDies
  /\ lease.stage.kind # "none" => lease'.stage.result = lease.stage.result
  /\ lease.stage.kind = "checkpoint" => lease'.stage = lease.stage

(* Every receipt is reconciled with its run, or set aside for repair. *)
ReceiptResolved ==
  lease.receipt # None ~> lease.recon = "finalized" \/ lease.status = "quarantined"

(* Every lease is let go in the end, and every run ends unless its lease    *)
(* was quarantined, whichever of the queue worker, the executor and the     *)
(* background workers die on the way.                                       *)
RunAndLeaseEnd ==
  /\ lease.status = "active" ~> lease.status # "active"
  /\ <>(Settled \/ lease.status = "quarantined")

=============================================================================
