------------------------- MODULE ExecutorCallbacks -------------------------
(***************************************************************************)
(* The sandbox executor (executor_app.py): one task is claimed, runs, and  *)
(* reports to the platform by HTTP callbacks.  The runner's events pass a  *)
(* buffer whose worker merges neighbouring text deltas into one batch and  *)
(* sends one batch at a time, retrying it unchanged; other events wait for *)
(* their receipt.  Heartbeats go their own way.  When the runner is done   *)
(* the buffer is drained, the result is fixed, and the terminal callback   *)
(* is sent, unless a delivery is uncertain.  The task may be cancelled at  *)
(* any time.                                                               *)
(*                                                                         *)
(* An event is its number in Script, a batch the sequence of its events.   *)
(* A request or its answer may be lost, and a request its sender gave up   *)
(* may still arrive; the platform knows a batch by its identity and        *)
(* applies none after the terminal callback.                               *)
(***************************************************************************)
EXTENDS Naturals, Sequences

CONSTANTS Script,       \* kinds of the runner's events: "delta", "tool", "capability"
          QueueSize,    \* _MESSAGE_DELTA_QUEUE_SIZE
          MaxAttempts,  \* attempts of one batch
          MaxFaults     \* bound: failing calls

VARIABLES sup,      \* the supervisor: where the task is
          run,      \* the runner: where it is, its next and its last event, its verdict
          queue,    \* events waiting in the buffer
          batch,    \* the worker: the batch it fills or sends, and the attempt
          buf,      \* the buffer's flags: failed, closed
          gate,     \* runner_events_open, capability_callback_failed
          stream,   \* stream_delivery_failure
          uncertain,\* delivery_uncertain, and publishing closed with it
          result,   \* the task's result
          host,     \* what the platform applied, and the terminal it accepted
          wire,     \* requests their sender no longer waits for
          faults    \* failed calls

vars == <<sup, run, queue, batch, buf, gate, stream, uncertain, result, host, wire, faults>>

(* The closing phase event comes after the runner's last *)
Kind(i) == IF i = run.end THEN "tool" ELSE Script[i]
Idle    == [pc |-> "idle", of |-> <<>>, attempt |-> 0]

Init ==
  /\ sup = "idle"
  /\ run = [pc |-> "off", next |-> 1, end |-> Len(Script) + 1, ok |-> FALSE]
  /\ queue = <<>> /\ batch = Idle
  /\ buf = [failed |-> FALSE, closed |-> FALSE]
  /\ gate = [open |-> TRUE, capability |-> TRUE]
  /\ stream = "none" /\ uncertain = FALSE /\ result = "none"
  /\ host = [applied |-> <<>>, terminal |-> "none"]
  /\ wire = {} /\ faults = 0

Fault == faults < MaxFaults /\ faults' = faults + 1
buffer == <<queue, batch, buf>>
outside == <<result, host, wire>>

-----------------------------------------------------------------------------
(* The platform's side of a callback *)

Seen(b) == \E i \in DOMAIN host.applied : host.applied[i] = Head(b)

Applied(b) ==
  IF host.terminal # "none" \/ Seen(b) THEN host
  ELSE [host EXCEPT !.applied = @ \o b]

Lands(b) ==
  /\ b \in wire
  /\ host' = Applied(b) /\ wire' = wire \ {b}
  /\ UNCHANGED <<sup, run, buffer, gate, stream, uncertain, result, faults>>

-----------------------------------------------------------------------------
(* The task is claimed once and supervised *)

DispatchTask ==
  /\ sup = "idle" /\ sup' = "accepted"
  /\ UNCHANGED <<run, buffer, gate, stream, uncertain, outside, faults>>

Start ==
  /\ sup = "accepted" /\ sup' = "running"
  /\ run' = [run EXCEPT !.pc = "run"]
  /\ UNCHANGED <<buffer, gate, stream, uncertain, outside, faults>>

-----------------------------------------------------------------------------
(* The runner emits, one event at a time *)

Admits == gate.open /\ gate.capability /\ ~uncertain /\ ~buf.failed /\ ~buf.closed
Emits(s, k) == /\ sup = s /\ run.pc = "run" /\ run.next <= run.end
               /\ (Kind(run.next) = "delta") = (k = "delta")

(* A refused capability event closes the gate for good *)
Refuse(i) ==
  gate' = IF gate.open /\ Kind(i) = "capability"
          THEN [open |-> FALSE, capability |-> FALSE] ELSE gate

(* enqueue: local admission only *)
EmitDelta ==
  /\ Emits("running", "delta")
  /\ IF Admits THEN Len(queue) < QueueSize /\ queue' = Append(queue, run.next)
     ELSE UNCHANGED queue
  /\ run' = [run EXCEPT !.next = @ + 1]
  /\ UNCHANGED <<sup, batch, buf, gate, stream, uncertain, outside, faults>>

(* send: flush what is queued, then wait for the receipt *)
EmitBarrier ==
  /\ Emits("running", "tool") /\ run.next < run.end
  /\ IF Admits THEN run' = [run EXCEPT !.pc = "flush"] /\ UNCHANGED gate
     ELSE run' = [run EXCEPT !.next = @ + 1] /\ Refuse(run.next)
  /\ UNCHANGED <<sup, buffer, stream, uncertain, outside, faults>>

Joined == queue = <<>> /\ batch.pc = "idle"

Flushed ==
  /\ run.pc = "flush" /\ Joined
  /\ IF buf.failed
     THEN /\ run' = [run EXCEPT !.pc = "run", !.next = @ + 1]
          /\ Refuse(run.next) /\ UNCHANGED queue
     ELSE /\ run' = [run EXCEPT !.pc = "receipt"]
          /\ queue' = <<run.next>> /\ UNCHANGED gate
  /\ UNCHANGED <<sup, batch, buf, stream, uncertain, outside, faults>>

-----------------------------------------------------------------------------
(* The worker of the buffer *)

Take ==
  /\ batch.pc = "idle" /\ queue # <<>>
  /\ batch' = [pc |-> IF Kind(Head(queue)) = "delta" THEN "filling" ELSE "ready",
               of |-> <<Head(queue)>>, attempt |-> 0]
  /\ queue' = Tail(queue)
  /\ UNCHANGED <<sup, run, buf, gate, stream, uncertain, outside, faults>>

(* _merge_message_delta_callbacks: only the next delta joins *)
Merge ==
  /\ batch.pc = "filling" /\ queue # <<>> /\ Kind(Head(queue)) = "delta" /\ ~buf.failed
  /\ batch' = [batch EXCEPT !.of = Append(@, Head(queue))]
  /\ queue' = Tail(queue)
  /\ UNCHANGED <<sup, run, buf, gate, stream, uncertain, outside, faults>>

(* The flush interval is over, somebody flushes or closes, or an event of *)
(* another kind is next                                                   *)
Fills ==
  /\ batch.pc = "filling"
  /\ batch' = [batch EXCEPT !.pc = "ready"]
  /\ UNCHANGED <<sup, run, queue, buf, gate, stream, uncertain, outside, faults>>

Barrier == Kind(Head(batch.of)) # "delta" /\ run.pc = "receipt" /\ run.next = Head(batch.of)

(* The batch leaves the worker; whoever waits for its receipt goes on *)
Completes(accepted) ==
  /\ batch' = Idle
  /\ run' = IF Barrier THEN [run EXCEPT !.pc = "run", !.next = @ + 1] ELSE run

StoppedByUncertainty == uncertain

(* Nothing is sent any more *)
Stopped == buf.failed \/ uncertain \/ stream # "none"

Drop ==
  /\ batch.pc = "ready" /\ Stopped
  /\ buf' = [buf EXCEPT !.failed = TRUE]
  /\ Completes(FALSE)
  /\ IF Barrier THEN Refuse(Head(batch.of)) ELSE UNCHANGED gate
  /\ UNCHANGED <<sup, queue, stream, uncertain, outside, faults>>

Attempt ==
  /\ batch.pc = "ready" /\ ~Stopped
  /\ batch' = [batch EXCEPT !.pc = "sending", !.attempt = 1]
  /\ UNCHANGED <<sup, run, queue, buf, gate, stream, uncertain, outside, faults>>

(* The receipt names exactly this batch *)
Accepted ==
  /\ batch.pc = "sending"
  /\ host' = Applied(batch.of)
  /\ Completes(TRUE)
  /\ UNCHANGED <<sup, queue, buf, gate, stream, uncertain, result, wire, faults>>

(* The request, its answer, or the wait for it is lost: the same batch again *)
Loses ==
  \/ UNCHANGED <<host, wire>>
  \/ host' = Applied(batch.of) /\ UNCHANGED wire
  \/ wire' = wire \cup {batch.of} /\ UNCHANGED host

Retry ==
  /\ batch.pc = "sending" /\ batch.attempt < MaxAttempts
  /\ Fault /\ Loses
  /\ batch' = [batch EXCEPT !.attempt = @ + 1]
  /\ UNCHANGED <<sup, run, queue, buf, gate, stream, uncertain, result>>

(* seal_runner_events_after_delivery_failure *)
Sealed(code) ==
  /\ stream' = IF stream = "none" THEN code ELSE stream
  /\ uncertain' = (uncertain \/ code = "exhausted")

Fails(code) ==
  /\ Sealed(code)
  /\ buf' = [buf EXCEPT !.failed = TRUE]
  /\ gate' = [open |-> FALSE,
              capability |-> gate.capability /\ ~(Barrier /\ Kind(Head(batch.of)) = "capability")]
  /\ Completes(FALSE)
  /\ UNCHANGED <<sup, queue, result>>

Exhaust ==
  /\ batch.pc = "sending" /\ batch.attempt = MaxAttempts
  /\ Fault /\ Loses /\ Fails("exhausted")

Reject ==
  /\ batch.pc = "sending" /\ Fault
  /\ Fails("rejected")
  /\ UNCHANGED <<host, wire>>

(* send_supervisor_heartbeats: one attempt, and a failure stops the stream *)
HeartbeatFails ==
  /\ sup = "running" /\ Fault
  /\ \E code \in {"exhausted", "rejected"} : Sealed(code)
  /\ gate' = [gate EXCEPT !.open = FALSE]
  /\ UNCHANGED <<sup, run, buffer, outside>>

-----------------------------------------------------------------------------
(* The runner ends *)

Returned(ok) ==
  /\ sup' = "draining"
  /\ run' = [pc |-> "run", next |-> run.next, end |-> run.next, ok |-> ok]
  /\ UNCHANGED <<buffer, stream, uncertain, outside>>

RunnerCompletes ==
  /\ sup = "running" /\ run.pc = "run" /\ run.next = run.end
  /\ Returned(TRUE) /\ UNCHANGED <<gate, faults>>

RunnerFails ==
  /\ sup = "running" /\ run.pc = "run" /\ Fault
  /\ Returned(FALSE) /\ UNCHANGED gate

(* The deadline cancels it wherever it is and closes its gate first *)
RunnerTimesOut ==
  /\ sup = "running" /\ Fault
  /\ Returned(FALSE)
  /\ gate' = [open |-> FALSE,
              capability |-> gate.capability
                /\ ~(run.pc \in {"flush", "receipt"} /\ Kind(run.next) = "capability")]

(* The last phase event waits for its receipt like any other *)
FinalPhase ==
  /\ sup = "draining" /\ run.pc = "run" /\ run.next = run.end /\ gate.open
  /\ IF Admits THEN run' = [run EXCEPT !.pc = "flush"]
     ELSE run' = [run EXCEPT !.next = @ + 1]
  /\ UNCHANGED <<sup, buffer, gate, stream, uncertain, outside, faults>>

CloseBuffer ==
  /\ sup = "draining" /\ run.pc = "run" /\ (run.next > run.end \/ ~gate.open)
  /\ sup' = "closing"
  /\ gate' = [gate EXCEPT !.open = FALSE]
  /\ buf' = [buf EXCEPT !.closed = TRUE]
  /\ UNCHANGED <<run, queue, batch, stream, uncertain, outside, faults>>

VerdictOfRunner == IF run.ok THEN "completed" ELSE "failed"

(* capability and stream failures overrule the runner's verdict *)
Verdict == IF run.ok /\ gate.capability /\ stream = "none" THEN "completed" ELSE "failed"

Settles(r) == sup' = "settled" /\ result' = r /\ run' = [run EXCEPT !.pc = "off"]

Drained ==
  /\ sup = "closing" /\ Joined
  /\ Settles(Verdict)
  /\ UNCHANGED <<buffer, gate, stream, uncertain, host, wire, faults>>

-----------------------------------------------------------------------------
(* Cancellation *)

CancellableAnytime == {"running", "draining", "closing", "settled"}

(* Only a running task is interrupted *)
Cancellable == {"running", "draining", "closing"}

(* A second cancel changes nothing; a queued task cancels itself *)
CancelTask ==
  /\ \/ sup = "accepted" /\ Settles("cancelled") /\ UNCHANGED <<queue, buf>>
     \/ /\ sup \in Cancellable
        /\ sup' = "cancelling"
        /\ run' = [run EXCEPT !.pc = "off"]
        /\ buf' = [failed |-> TRUE, closed |-> TRUE]
        /\ queue' = <<>>
        /\ UNCHANGED result
  /\ UNCHANGED <<batch, gate, stream, uncertain, host, wire, faults>>

(* The batch in flight is awaited before the terminal callback, *)
Cancelled ==
  /\ sup = "cancelling" /\ Joined
  /\ Settles("cancelled")
  /\ UNCHANGED <<buffer, gate, stream, uncertain, host, wire, faults>>

CancelUndrained ==
  /\ sup = "cancelling"
  /\ batch' = Idle /\ wire' = IF batch.pc = "sending" THEN wire \cup {batch.of} ELSE wire
  /\ Settles("cancelled")
  /\ UNCHANGED <<queue, buf, gate, stream, uncertain, host, faults>>

(* or, like a heartbeat in flight, given up at the deadline: then nothing *)
(* more is said                                                           *)
CancelTimesOut ==
  /\ sup = "cancelling"
  /\ batch' = Idle /\ wire' = IF batch.pc = "sending" THEN wire \cup {batch.of} ELSE wire
  /\ uncertain' = TRUE /\ gate' = [gate EXCEPT !.open = FALSE]
  /\ Settles("cancelled")
  /\ UNCHANGED <<queue, buf, stream, host, faults>>

-----------------------------------------------------------------------------
(* The terminal callback *)

Terminal(s) == sup' = s /\ UNCHANGED <<run, buffer, gate, stream, uncertain, result, wire>>

StaysSilent ==
  /\ sup = "settled" /\ uncertain
  /\ Terminal("callback_failed") /\ UNCHANGED <<host, faults>>

TerminalApplied == host' = IF host.terminal = "none" THEN [host EXCEPT !.terminal = result] ELSE host

TerminalAccepted ==
  /\ sup = "settled" /\ ~uncertain
  /\ TerminalApplied /\ Terminal("done") /\ UNCHANGED faults

TerminalLost ==
  /\ sup = "settled" /\ ~uncertain /\ Fault
  /\ (TerminalApplied \/ UNCHANGED host)
  /\ Terminal("settled")

TerminalGivesUp ==
  /\ sup = "settled" /\ ~uncertain /\ faults > 0
  /\ Terminal("callback_failed") /\ UNCHANGED <<host, faults>>

-----------------------------------------------------------------------------
Next ==
  \/ DispatchTask \/ Start
  \/ EmitDelta \/ EmitBarrier \/ Flushed
  \/ Take \/ Merge \/ Fills \/ Drop \/ Attempt \/ Accepted \/ Retry \/ Exhaust \/ Reject
  \/ HeartbeatFails
  \/ RunnerCompletes \/ RunnerFails \/ RunnerTimesOut \/ FinalPhase \/ CloseBuffer \/ Drained
  \/ CancelTask \/ Cancelled \/ CancelTimesOut
  \/ StaysSilent \/ TerminalAccepted \/ TerminalLost \/ TerminalGivesUp
  \/ \E b \in wire : Lands(b)

Spec == Init /\ [][Next]_vars

-----------------------------------------------------------------------------
(* The queue respects its size and the batches are made of the script. *)
TypeOK ==
  /\ Len(queue) <= QueueSize
  /\ \A i \in DOMAIN queue : queue[i] \in 1..(Len(Script) + 1)
  /\ batch.attempt \in 0..MaxAttempts
  /\ result \in {"none", "completed", "failed", "cancelled"}

(* The platform applies the runner's events in their order, none twice and *)
(* none missing in between, whatever is merged, retried, lost or late; a   *)
(* task is reported completed only if the platform has every event; and    *)
(* while the terminal callback may be sent no batch is in flight that the  *)
(* platform could still be waiting for (_MessageDeltaCallbackBuffer,       *)
(* _deliver_nonterminal_callback, deliver_terminal_callback).              *)
EventsAreExact ==
  /\ \A i \in DOMAIN host.applied : host.applied[i] = i
  /\ result = "completed" => Len(host.applied) = run.end
  /\ sup = "settled" /\ ~uncertain =>
       /\ Joined
       /\ stream = "none" => \A b \in wire : Seen(b)

(* The result of the task is written once and is what the platform accepts  *)
(* as its terminal, whichever cancellation, deadline or delivery failure    *)
(* comes later (supervise_task).                                            *)
ResultStays ==
  /\ result # "none" => result' = result
  /\ host.terminal # "none" => host'.terminal = host.terminal
  /\ host'.terminal \in {"none", result'}
=============================================================================
