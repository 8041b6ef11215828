--------------------------- MODULE ProviderEpochs ---------------------------
(***************************************************************************)
(* How a conversation keeps the agent's own transcript from run to run:    *)
(* app/context/infrastructure (provider_epochs.py, provider_continuation.py*)
(* and unclaimed_provider_continuation.py) and the session store inside    *)
(* the sandbox (execution/infrastructure/harness/claude/session_store.py). *)
(*                                                                         *)
(* One conversation.  A run claims the lineage when it is admitted, gets   *)
(* an epoch of its own when it is dispatched (a copy of the last published *)
(* transcript up to a boundary), and its SDK mirrors batches into the      *)
(* epoch over HTTP while it works.  When the run ends, the transaction     *)
(* that ends it decides from the evidence of the stopped container whether *)
(* the epoch is published for the next run.  Epochs are named by their     *)
(* run, and a sequence number counts batches.  A cancelled run has the     *)
(* status "failed": nothing here tells the two apart.                      *)
(***************************************************************************)
EXTENDS Naturals, Sequences, FiniteSets

CONSTANTS MaxRuns,   \* bound: runs of the conversation
          MaxBatches \* bound: batches mirrored in all

VARIABLES run,     \* the run row, its attempt and its sandbox lease
          head,    \* the row of provider_session_heads
          epoch,   \* the epoch prepared for each run
          turn,    \* the turn receipt of each run
          box,     \* the container of each run and the SDK in it
          wire,    \* callback requests that may still be delivered
          receipt  \* what is known of how each execution ended

vars == <<run, head, epoch, turn, box, wire, receipt>>

Runs == 1 .. MaxRuns
None == 0

NoRun == [status |-> "none", cancel |-> FALSE, attempt |-> "none", gen |-> 0, lease |-> "none",
          cover |-> <<>>, source |-> None, upto |-> 0]
NoRecovery == [state |-> "none", final |-> 0, accepted |-> FALSE]
NoEpoch == [state |-> "none", writer |-> 0, log |-> <<>>, cover |-> <<>>, recovery |-> NoRecovery]
NoTurn == [state |-> "none", start |-> 0, final |-> 0]
NoBatch == [by |-> None, n |-> 0, main |-> FALSE]
NoBox == [at |-> "none", up |-> FALSE, next |-> 0, final |-> 0, acked |-> 0, main |-> FALSE,
          made |-> 0, pending |-> NoBatch, accepted |-> FALSE]
NoReceipt == [by |-> "none", status |-> "none", final |-> 0, accepted |-> FALSE, unknown |-> FALSE,
              mirror |-> FALSE, effect |-> FALSE, stopped |-> FALSE, saved |-> FALSE]

Init ==
  /\ run = [r \in Runs |-> NoRun]
  /\ head = [run |-> None, attempt |-> None, epoch |-> None, recovery |-> "none"]
  /\ epoch = [r \in Runs |-> NoEpoch]
  /\ turn = [r \in Runs |-> NoTurn]
  /\ box = [r \in Runs |-> NoBox]
  /\ wire = {}
  /\ receipt = [r \in Runs |-> NoReceipt]

Ended(r) == run[r].status \in {"succeeded", "failed"}
Dispatched(r) == run[r].attempt \in {"running", "cancel_requested"}

-----------------------------------------------------------------------------
(* Admission: claim_provider_lineage and read_provider_coverage, in the     *)
(* transaction that creates the run.                                        *)

(* The message of a run that provably never reached the SDK is not history *)
Unheard(q) ==
  /\ run[q].status = "failed"
  /\ \/ run[q].attempt = "none"
     \/ turn[q].state = "failed" /\ ~epoch[q].recovery.accepted /\ Len(epoch[q].log) + 1 = turn[q].start
     \/ epoch[q].state = "closed"

HasPriorMessages(r) == \E q \in Runs : q < r /\ run[q].status # "none" /\ ~Unheard(q)

(* _require_continuation_available *)
Available == head.recovery # "blocked"

(* The published epoch is at rest, or there is no history to continue *)
Continuable(r) ==
  /\ Available
  /\ IF head.epoch = None THEN ~HasPriorMessages(r)
     ELSE epoch[head.epoch].state = "ready" /\ epoch[head.epoch].writer = 0

Coverage == IF head.epoch = None THEN <<>> ELSE epoch[head.epoch].cover

Admit(r) ==
  /\ run[r].status = "none" /\ \A q \in Runs : q < r => run[q].status # "none"
  /\ head.run = None
  /\ Continuable(r)
  /\ head' = [head EXCEPT !.run = r]
  /\ run' = [run EXCEPT ![r].status = "queued", ![r].cover = Coverage]
  /\ UNCHANGED <<epoch, turn, box, wire, receipt>>

-----------------------------------------------------------------------------
(* release_provider_lineage, in every transaction that ends a run: a run    *)
(* that never started lets go; a started one needs proof that its writer    *)
(* has stopped, or that no writer ever claimed its epoch.                   *)

Unclaimed(e) == e.writer = 0 /\ e.state = "closed"

ReleaseProven(attempt, e) ==
  \/ attempt = "none"
  \/ e.writer # 0 /\ e.recovery.state # "none"
  \/ Unclaimed(e)

(* The run ends with its epoch as e and the head otherwise as h; what is    *)
(* never read again of its container and its receipt is forgotten           *)
EndsWith(r, status, e, h) ==
  LET proven == ReleaseProven(run[r].attempt, e) IN
  /\ run' = [run EXCEPT ![r].status = status,
                        ![r].attempt = IF @ = "none" THEN @ ELSE "ended",
                        ![r].gen = 0, ![r].lease = "none", ![r].cancel = FALSE]
  /\ epoch' = [epoch EXCEPT ![r] = IF proven THEN [e EXCEPT !.writer = 0] ELSE e]
  /\ head' = IF proven THEN [h EXCEPT !.run = None, !.attempt = None] ELSE h
  /\ receipt' = [receipt EXCEPT ![r] = NoReceipt]
  /\ box' = [box EXCEPT ![r] = IF ~proven THEN @ ELSE
               [NoBox EXCEPT !.at = "ended", !.up = box[r].up,
                             !.accepted = box[r].accepted, !.acked = box[r].acked]]

(* A queued run fails to be queued or is cancelled *)
EndUnstarted(r) ==
  /\ run[r].status = "queued"
  /\ EndsWith(r, "failed", epoch[r], head)
  /\ UNCHANGED <<turn, wire>>

(* Maintenance ends a run whose worker is lost, once no lease is active; it *)
(* has no evidence about the writer                                         *)
Abandon(r) ==
  /\ Dispatched(r) /\ run[r].lease \in {"none", "gone"}
  /\ EndsWith(r, "failed", epoch[r], head)
  /\ UNCHANGED <<turn, wire>>

-----------------------------------------------------------------------------
(* Dispatch: prepare_provider_epoch, in the transaction that binds the      *)
(* attempt.                                                                 *)

Boundary(e) == IF e.recovery.state = "none" THEN Len(e.log) ELSE e.recovery.final

(* A native resume starts with a copy of the published transcript *)
Restored(src, cover) ==
  [NoEpoch EXCEPT !.state = "ready", !.cover = cover,
                  !.log = SubSeq(epoch[src].log, 1, Boundary(epoch[src]))]

EmptyStart == [NoEpoch EXCEPT !.state = "bootstrapping"]

Dispatch(r) ==
  LET src == head.epoch IN
  /\ run[r].status = "queued" /\ head.run = r
  /\ Continuable(r)
  /\ run[r].cover = Coverage
  /\ run' = [run EXCEPT ![r].status = "running", ![r].attempt = "running", ![r].gen = 1,
                        ![r].source = src,
                        ![r].upto = IF src = None THEN 0 ELSE Boundary(epoch[src])]
  /\ epoch' = [epoch EXCEPT ![r] = IF src = None THEN EmptyStart ELSE Restored(src, run[r].cover)]
  /\ UNCHANGED <<head, turn, box, wire, receipt>>

(* SandboxRuntime creates the container, then sends it the task *)
CreateContainer(r) ==
  /\ run[r].attempt = "running" /\ box[r].at = "none"
  /\ box' = [box EXCEPT ![r].at = "created", ![r].up = TRUE]
  /\ run' = [run EXCEPT ![r].lease = "active"]
  /\ UNCHANGED <<head, epoch, turn, wire, receipt>>

SendTask(r) ==
  /\ Dispatched(r) /\ box[r].at = "created"
  /\ box' = [box EXCEPT ![r].at = "sent"]
  /\ UNCHANGED <<run, head, epoch, turn, wire, receipt>>

(* settle_unclaimed_continuation: the unused epoch is closed *)
Closed(e) == [e EXCEPT !.state = "closed"]

(* Before the task is sent the owner can prove that no writer exists, once  *)
(* the container it created is removed                                      *)
RemoveContainer(r) ==
  /\ Dispatched(r) /\ box[r].at = "created"
  /\ box' = [box EXCEPT ![r].at = "removed", ![r].up = FALSE]
  /\ UNCHANGED <<run, head, epoch, turn, wire, receipt>>

FailBeforeDispatch(r) ==
  /\ Dispatched(r) /\ box[r].at \in {"none", "removed"} /\ run[r].lease # "gone"
  /\ EndsWith(r, "failed", Closed(epoch[r]), head)
  /\ UNCHANGED <<turn, wire>>

-----------------------------------------------------------------------------
(* The callback: _locked_callback_epoch and callback_provider_epoch.        *)

MayCallWhileOpen(r, tail) ==
  /\ epoch[r].state \notin {"none", "dirty", "closed"}
  /\ turn[r].state # "committed"

(* The attempt still owns the epoch.  After a cancellation the writer that  *)
(* had already claimed it may go on appending until its lease expires.      *)
MayCall(r, tail) ==
  /\ head.run = r /\ head.attempt \in {None, r}
  /\ epoch[r].state \notin {"none", "dirty", "closed"}
  /\ run[r].status = "running" /\ run[r].lease = "active"
  /\ \/ run[r].attempt = "running" /\ epoch[r].writer \in {0, run[r].gen}
     \/ tail /\ run[r].attempt = "cancel_requested" /\ epoch[r].writer = run[r].gen - 1
        /\ head.attempt = r
  /\ turn[r].state \in {"none", "writing"}

(* The first call claims the epoch and opens the turn *)
Claims(r) ==
  /\ head' = [head EXCEPT !.attempt = r]
  /\ turn' = [turn EXCEPT ![r] = IF @ # NoTurn THEN @
                ELSE [state |-> "writing", start |-> Len(epoch[r].log) + 1, final |-> 0]]

Claimed(r) == [epoch[r] EXCEPT !.state = "active", !.writer = IF @ = 0 THEN run[r].gen ELSE @]

ServeLoad(r) ==
  /\ [run |-> r, batch |-> NoBatch, expected |-> 0] \in wire
  /\ MayCall(r, FALSE)
  /\ Claims(r)
  /\ epoch' = [epoch EXCEPT ![r] = Claimed(r)]
  /\ \/ /\ box[r].at = "loading"
        /\ box' = [box EXCEPT ![r].at = "loaded", ![r].next = Len(epoch[r].log) + 1]
     \/ UNCHANGED box
  /\ UNCHANGED <<run, wire, receipt>>

(* _matching_append_receipt: a batch at an earlier sequence must be the one *)
(* recorded there                                                           *)
Recorded(q) ==
  q.expected \in DOMAIN epoch[q.run].log /\ epoch[q.run].log[q.expected] = q.batch

ServeAppend(q) ==
  LET r == q.run IN
  /\ q \in wire /\ q.batch # NoBatch
  /\ MayCall(r, TRUE)
  /\ \/ /\ q.expected = Len(epoch[r].log) + 1
        /\ epoch' = [epoch EXCEPT ![r] = [Claimed(r) EXCEPT !.log = Append(@, q.batch)]]
     \/ /\ Recorded(q)
        /\ epoch' = [epoch EXCEPT ![r] = Claimed(r)]
  /\ Claims(r)
  /\ \/ /\ box[r].at = "prompted" /\ box[r].pending = q.batch
        /\ box' = [box EXCEPT ![r].pending = NoBatch, ![r].next = q.expected + 1,
                              ![r].final = q.expected, ![r].acked = q.batch.n,
                              ![r].main = @ \/ q.batch.main]
     \/ UNCHANGED box
  /\ UNCHANGED <<run, wire, receipt>>

-----------------------------------------------------------------------------
(* The SDK and its session store.                                           *)

(* The transcript is loaded before the CLI starts *)
Load(r) ==
  /\ box[r].at = "sent" /\ box[r].up
  /\ box' = [box EXCEPT ![r].at = "loading"]
  /\ wire' = wire \cup {[run |-> r, batch |-> NoBatch, expected |-> 0]}
  /\ UNCHANGED <<run, head, epoch, turn, receipt>>

Prompt(r) ==
  /\ box[r].at = "loaded" /\ box[r].up
  /\ box' = [box EXCEPT ![r].at = "prompted", ![r].accepted = TRUE]
  /\ UNCHANGED <<run, head, epoch, turn, wire, receipt>>

(* append: one batch at a time; it stays pending, under the same sequence   *)
(* number, until it is acknowledged                                         *)
Mirror(r, main) ==
  /\ box[r].at = "prompted" /\ box[r].up /\ box[r].pending = NoBatch
  /\ Cardinality({q \in wire : q.batch # NoBatch}) < MaxBatches
  /\ LET b == [by |-> r, n |-> box[r].made + 1, main |-> main] IN
     /\ box' = [box EXCEPT ![r].made = @ + 1, ![r].pending = b]
     /\ wire' = wire \cup {[run |-> r, batch |-> b, expected |-> box[r].next]}
  /\ UNCHANGED <<run, head, epoch, turn, receipt>>

Working(r) == box[r].at \in {"sent", "loading", "loaded", "prompted"} /\ box[r].up

(* assemble_run_result: what the SDK itself observed *)
Finish(r) ==
  /\ Working(r)
  /\ \E status \in {"succeeded", "failed"}, closed \in BOOLEAN, effect \in BOOLEAN :
       /\ status = "succeeded" => closed /\ box[r].accepted /\ box[r].pending = NoBatch
       /\ receipt' = [receipt EXCEPT ![r] =
            [by |-> "sdk", status |-> status, final |-> box[r].final,
             accepted |-> box[r].accepted, unknown |-> box[r].pending # NoBatch,
             mirror |-> closed /\ box[r].pending = NoBatch /\ box[r].main,
             effect |-> effect, stopped |-> FALSE, saved |-> FALSE]]
  /\ box' = [box EXCEPT ![r].at = "ended"]
  /\ UNCHANGED <<run, head, epoch, turn, wire>>

(* The executor is lost: a probe states so, without the SDK's observations *)
Die(r) ==
  /\ Working(r)
  /\ receipt' = [receipt EXCEPT ![r] = [NoReceipt EXCEPT !.by = "probe", !.status = "failed"]]
  /\ box' = [box EXCEPT ![r].at = "ended"]
  /\ UNCHANGED <<run, head, epoch, turn, wire>>

(* ContinuationSettlementPorts.prepare: the container is stopped, then its  *)
(* workspace is saved, or not                                               *)
StopAndSave(r) ==
  /\ receipt[r].by # "none" /\ ~receipt[r].stopped
  /\ box' = [box EXCEPT ![r].up = FALSE]
  /\ \E saved \in BOOLEAN : receipt' = [receipt EXCEPT ![r].stopped = TRUE, ![r].saved = saved]
  /\ UNCHANGED <<run, head, epoch, turn, wire>>

-----------------------------------------------------------------------------
(* Settlement, in the transaction that ends the run.                        *)

MainEntry(r, i) == epoch[r].log[i].by = r /\ epoch[r].log[i].main
HasCurrentMain(r) == \E i \in DOMAIN epoch[r].log : MainEntry(r, i)

(* _settle_stopped_continuation fills in what the SDK did not report, from  *)
(* the ledger of the stopped epoch                                          *)
Observed(r) ==
  LET k == receipt[r]
      untouched == epoch[r].writer = 0 /\ epoch[r].log = <<>>
      accepted == IF k.by = "sdk" THEN k.accepted ELSE ~untouched /\ HasCurrentMain(r)
      unknown == IF k.by = "sdk" THEN k.unknown ELSE ~untouched /\ ~HasCurrentMain(r)
      recorded == k.final = 0 /\ HasCurrentMain(r)
  IN [k EXCEPT !.accepted = accepted,
               !.unknown = unknown /\ ~recorded,
               !.mirror = @ /\ ~recorded,
               !.final = IF recorded THEN Len(epoch[r].log) ELSE @]

Inherited(r) == run[r].source # None /\ epoch[run[r].source].recovery.state = "recovery_candidate"

VerdictAckTrusted(r, k) ==
  IF ~k.saved \/ ~k.accepted THEN "blocked"
  ELSE IF ~k.mirror \/ k.effect \/ k.final # Len(epoch[r].log) THEN "recovery_candidate"
  ELSE "resumable"

(* settle_provider_continuation: what the next run may start from *)
Verdict(r, k) ==
  LET native == /\ k.final # 0 /\ k.accepted /\ ~k.unknown
                /\ \E i \in turn[r].start .. k.final : MainEntry(r, i)
  IN IF ~k.saved \/ ~native THEN "blocked"
     ELSE IF ~k.mirror \/ k.effect \/ Inherited(r) \/ k.final # Len(epoch[r].log)
       THEN "recovery_candidate"
     ELSE "resumable"

Untouched(r, k) == ~k.accepted /\ ~k.unknown /\ Len(epoch[r].log) + 1 = turn[r].start

(* The epoch and the head after a claimed epoch is settled *)
Settled(r, k) ==
  LET v == Verdict(r, k) IN
  [epoch[r] EXCEPT !.state = IF v = "blocked" THEN "dirty" ELSE "ready",
                   !.cover = IF v = "blocked" THEN @ ELSE Append(run[r].cover, r),
                   !.recovery = [state |-> v, final |-> k.final, accepted |-> k.accepted]]

Headed(r, k) ==
  LET v == Verdict(r, k) IN
  [head EXCEPT !.recovery = IF Untouched(r, k) THEN @ ELSE v,
               !.epoch = IF v = "blocked" THEN @ ELSE r]

HasWriter(r) == head.attempt = r /\ epoch[r].writer # 0

(* commit_provider_turn, for a succeeded run that was not cancelled; then   *)
(* the settlement.  A receipt that does not fit rolls everything back.      *)
CommitSuccess(r) ==
  LET k == Observed(r)
      final == IF receipt[r].final = 0 THEN Len(epoch[r].log) ELSE receipt[r].final
  IN
  /\ receipt[r].stopped /\ receipt[r].status = "succeeded"
  /\ run[r].attempt = "running" /\ ~run[r].cancel
  /\ HasWriter(r) /\ epoch[r].writer = run[r].gen
  /\ turn[r].state = "writing" /\ epoch[r].state = "active"
  /\ receipt[r].final = 0 => HasCurrentMain(r)
  /\ final = Len(epoch[r].log) /\ final >= turn[r].start
  /\ turn' = [turn EXCEPT ![r].state = "committed", ![r].final = final]
  /\ EndsWith(r, "succeeded", [Settled(r, k) EXCEPT !.cover = Append(run[r].cover, r)], Headed(r, k))
  /\ UNCHANGED wire

(* The run fails or is cancelled *)
CommitFailure(r) ==
  LET k == Observed(r) IN
  /\ receipt[r].stopped /\ receipt[r].status = "failed" /\ Dispatched(r)
  /\ \/ /\ HasWriter(r)
        /\ turn' = [turn EXCEPT ![r].state = IF Verdict(r, k) # "blocked" \/ Untouched(r, k)
                                               THEN "failed" ELSE @,
                                ![r].final = IF Verdict(r, k) # "blocked" THEN k.final ELSE @]
        /\ EndsWith(r, "failed", Settled(r, k), Headed(r, k))
     \/ /\ ~HasWriter(r)
        /\ ~k.accepted /\ ~k.unknown /\ ~k.effect
        /\ EndsWith(r, "failed", Closed(epoch[r]), head)
        /\ UNCHANGED turn
  /\ UNCHANGED wire

-----------------------------------------------------------------------------
(* The rest of the platform.                                                *)

RequestCancel(r) ==
  /\ run[r].attempt = "running" /\ ~run[r].cancel
  /\ run' = [run EXCEPT ![r].cancel = TRUE, ![r].attempt = "cancel_requested", ![r].gen = @ + 1]
  /\ UNCHANGED <<head, epoch, turn, box, wire, receipt>>

(* A lease expires; it is given up by a cleanup or quarantined *)
LeaseEnds(r) ==
  /\ \/ run[r].lease = "active" /\ run' = [run EXCEPT ![r].lease = "expired"]
     \/ run[r].lease \in {"active", "expired"} /\ run' = [run EXCEPT ![r].lease = "gone"]
  /\ UNCHANGED <<head, epoch, turn, box, wire, receipt>>

Next ==
  \/ \E r \in Runs :
       \/ Admit(r) \/ EndUnstarted(r) \/ Abandon(r) \/ Dispatch(r)
       \/ CreateContainer(r) \/ SendTask(r) \/ RemoveContainer(r) \/ FailBeforeDispatch(r)
       \/ ServeLoad(r) \/ Load(r) \/ Prompt(r) \/ (\E main \in BOOLEAN : Mirror(r, main))
       \/ Finish(r) \/ Die(r) \/ StopAndSave(r)
       \/ CommitSuccess(r) \/ CommitFailure(r) \/ RequestCancel(r) \/ LeaseEnds(r)
  \/ \E q \in wire : ServeAppend(q)

Spec == Init /\ [][Next]_vars

-----------------------------------------------------------------------------
(* Rows, epochs and containers are in states the code writes. *)
TypeOK ==
  /\ \A r \in Runs :
       /\ run[r].status \in {"none", "queued", "running", "succeeded", "failed"}
       /\ run[r].attempt \in {"none", "running", "cancel_requested", "ended"}
       /\ run[r].lease \in {"none", "active", "expired", "gone"} /\ run[r].gen \in 0 .. 3
       /\ epoch[r].state \in {"none", "bootstrapping", "ready", "active", "dirty", "closed"}
       /\ epoch[r].recovery.state \in {"none", "blocked", "recovery_candidate", "resumable"}
       /\ turn[r].state \in {"none", "writing", "committed", "failed"}
  /\ {head.run, head.attempt, head.epoch} \subseteq Runs \cup {None}

Batches(r, q) == SelectSeq(SubSeq(epoch[r].log, 1, run[r].upto), LAMBDA b : b.by = q)

(* A run continues exactly what the SDK has been told: its coverage names   *)
(* the earlier runs whose input the SDK accepted, in order, and no other;   *)
(* and the transcript it is given has every batch that was acknowledged to  *)
(* them, each once and in order.                                            *)
HistoryIsExact ==
  \A r \in Runs : run[r].status # "none" =>
    /\ run[r].cover = SelectSeq([q \in 1 .. r - 1 |-> q], LAMBDA q : box[q].accepted)
    /\ run[r].attempt # "none" =>
         \A q \in 1 .. r - 1 :
           LET given == Batches(r, q) IN
           /\ \A i \in DOMAIN given : given[i].n = i
           /\ Len(given) >= box[q].acked
           /\ given # <<>> => box[q].accepted

(* A run is admitted only when no container of an earlier run of the        *)
(* conversation can still write.                                            *)
WriterHasStopped ==
  \A r \in Runs : run[r].status # "none" => \A q \in 1 .. r - 1 : ~box[q].up

(* A published transcript, and one of a run that has ended, never changes.  *)
PublishedIsFrozen ==
  \A r \in Runs :
    epoch[r].recovery.state # "none" \/ Ended(r) =>
      epoch'[r].log = epoch[r].log /\ epoch'[r].cover = epoch[r].cover

KeepsPublished == [][PublishedIsFrozen]_vars
=============================================================================
