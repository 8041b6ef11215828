------------------------------- MODULE SdkTurn --------------------------------
(* app/executors/claude_agent_sdk_runner.py: the two tasks of one SDK run.    *)
(* run_claude_agent_sdk waits for result_ready and stops the run on a         *)
(* timeout, a cancellation or an unanswered question; consume_task connects   *)
(* the client, reads it to the end of its stream, publishes the end of the    *)
(* answer and settles.  Both meet the SDK's hooks and its mirror of the       *)
(* transcript into the SessionStore.                                          *)
EXTENDS Naturals

CONSTANTS MaxFaults

VARIABLES sdk,      \* [state, prompt, tasks]: the client
          mirror,   \* [buffer, call, acked, failed, error, lost]
          hook,     \* [run, sealed]: ClaudeInjectedCallbackTracker
          reader,   \* [pc, exc, kill]: consume_task
          seen,     \* [final, mirrorError, closed, dispatched, receiving]
          pending,  \* pending_result
          ready,    \* the future result_ready
          settled,  \* the future protocol_settled
          main,     \* [pc, cause]
          outcome,  \* what the caller gets
          public,   \* the public end of the answer was published
          faults

vars == <<sdk, mirror, hook, reader, seen, pending, ready, settled, main, outcome, public, faults>>

Errors == {"none", "sdk", "missing", "mirror", "session", "callback", "tooLarge", "exception",
           "cancelled", "timeout", "question"}
NoResult == [kind |-> "none", error |-> "none", mirror |-> FALSE, accepted |-> FALSE]

TypeOK ==
  /\ sdk \in [state : {"none", "open", "eof", "down"}, prompt : BOOLEAN, tasks : BOOLEAN]
  /\ mirror \in [buffer : BOOLEAN, call : BOOLEAN, acked : BOOLEAN,
                 failed : {"no", "retry", "gaveUp"}, error : BOOLEAN, lost : BOOLEAN]
  /\ hook \in [run : {"idle", "active", "cancelled"}, sealed : BOOLEAN]
  /\ reader \in [pc : {"opening", "connecting", "receiving", "joining", "ending", "publishing",
                       "finally", "lastFlush", "teardown", "done"},
                 exc : {"none", "error", "cancelled"}, kill : BOOLEAN]
  /\ seen \in [final : {"none", "ok", "error"}, mirrorError : BOOLEAN, closed : BOOLEAN,
               dispatched : BOOLEAN, receiving : BOOLEAN]
  /\ pending \in {"open"} \cup Errors
  /\ ready \in [kind : {"open", "cancelled", "question", "exception", "result"},
                error : Errors, mirror : BOOLEAN]
  /\ settled \in BOOLEAN /\ public \in BOOLEAN /\ faults \in 0..MaxFaults
  /\ main \in [pc : {"waiting", "interrupting", "sealing", "draining", "settling", "ended"},
               cause : {"none", "timeout", "cancel", "question"}]
  /\ outcome \in [kind : {"none", "result", "cancelled"}, error : Errors,
                  mirror : BOOLEAN, accepted : BOOLEAN]

Init ==
  /\ sdk = [state |-> "none", prompt |-> FALSE, tasks |-> FALSE]
  /\ mirror = [buffer |-> FALSE, call |-> FALSE, acked |-> FALSE, failed |-> "no",
               error |-> FALSE, lost |-> FALSE]
  /\ hook = [run |-> "idle", sealed |-> FALSE]
  /\ reader = [pc |-> "opening", exc |-> "none", kill |-> FALSE]
  /\ seen = [final |-> "none", mirrorError |-> FALSE, closed |-> FALSE, dispatched |-> FALSE,
             receiving |-> FALSE]
  /\ pending = "open" /\ ready = [kind |-> "open", error |-> "none", mirror |-> FALSE]
  /\ settled = FALSE /\ main = [pc |-> "waiting", cause |-> "none"]
  /\ outcome = NoResult /\ public = FALSE /\ faults = 0

Stopping == main.pc \notin {"waiting", "ended"}    \* stop_requested
Idle == hook.run = "idle"
Seal == [run |-> IF hook.sealed \/ Idle THEN hook.run ELSE "cancelled", sealed |-> TRUE]
Hit == faults < MaxFaults /\ faults' = faults + 1
Go(pc) == reader' = [reader EXCEPT !.pc = pc]

(* The store's own facts, whatever the stream did.                            *)
MirrorCompleteOfStore(s) == ~s.mirrorError /\ mirror.failed = "no" /\ mirror.acked

(* sdk_settlement.mirror_complete                                             *)
MirrorComplete(s) ==
  s.closed /\ ~s.mirrorError /\ mirror.failed = "no" /\ mirror.acked

-----------------------------------------------------------------------------
(* The SDK: it writes transcript entries and mirrors them in batches.         *)
Writes ==
  /\ sdk.state = "open" /\ seen.dispatched /\ ~mirror.buffer
  /\ mirror' = [mirror EXCEPT !.buffer = TRUE]
  /\ UNCHANGED <<sdk, hook, reader, seen, pending, ready, settled, main, outcome, public, faults>>

Flushes ==
  /\ mirror.buffer /\ ~mirror.call /\ sdk.state \in {"open"}
  /\ mirror' = [mirror EXCEPT !.buffer = FALSE, !.call = TRUE]
  /\ UNCHANGED <<sdk, hook, reader, seen, pending, ready, settled, main, outcome, public, faults>>

(* SessionStoreAppendTracker: a batch that failed is repeated as it was; its  *)
(* receipt clears that failure only.                                          *)
AppendReturns ==
  /\ mirror.call
  /\ \/ /\ mirror' = [mirror EXCEPT !.call = FALSE, !.acked = TRUE,
                                    !.failed = IF @ = "retry" THEN "no" ELSE @]
        /\ UNCHANGED faults
     \/ /\ Hit /\ mirror.failed # "gaveUp"
        /\ mirror' = [mirror EXCEPT !.failed = "retry"]
     \/ /\ Hit
        /\ mirror' = [mirror EXCEPT !.call = FALSE, !.failed = "gaveUp", !.error = TRUE, !.lost = TRUE]
  /\ UNCHANGED <<sdk, hook, reader, seen, pending, ready, settled, main, outcome, public>>

HookStarts ==
  /\ sdk.state = "open" /\ seen.dispatched /\ ~hook.sealed /\ Idle
  /\ hook' = [hook EXCEPT !.run = "active"]
  /\ UNCHANGED <<sdk, mirror, reader, seen, pending, ready, settled, main, outcome, public, faults>>

(* A hook ends; a question nobody answered in time ends the run.              *)
HookEnds(question) ==
  /\ ~Idle /\ hook' = [hook EXCEPT !.run = "idle"]
  /\ (question => hook.run = "active")
  /\ ready' = IF question /\ ready.kind = "open" THEN [ready EXCEPT !.kind = "question"] ELSE ready
  /\ UNCHANGED <<sdk, mirror, reader, seen, pending, settled, main, outcome, public, faults>>

-----------------------------------------------------------------------------
(* consume_with_cancellation_identity up to the prompt: the composed prompt   *)
(* may be too long, the factory may fail.                                     *)
Opens ==
  /\ reader.pc = "opening" /\ ~reader.kill
  /\ \/ /\ Go("connecting") /\ sdk' = [sdk EXCEPT !.state = "open"]
        /\ UNCHANGED <<ready, settled, hook, faults>>
     \/ /\ Hit /\ Go("done") /\ hook' = Seal /\ settled' = TRUE /\ UNCHANGED sdk
        /\ \/ ready' = IF ready.kind = "open"
                       THEN [kind |-> "result", error |-> "tooLarge", mirror |-> FALSE] ELSE ready
           \/ ready' = IF ready.kind = "open" THEN [ready EXCEPT !.kind = "exception"] ELSE ready
  /\ UNCHANGED <<mirror, seen, pending, main, outcome, public>>

(* observed_prompt: from here the input may have been accepted.               *)
TakesPrompt ==
  /\ reader.pc = "connecting" /\ ~sdk.prompt
  /\ sdk' = [sdk EXCEPT !.prompt = TRUE] /\ seen' = [seen EXCEPT !.dispatched = TRUE]
  /\ UNCHANGED <<mirror, hook, reader, pending, ready, settled, main, outcome, public, faults>>

Connects ==
  /\ reader.pc = "connecting" /\ ~reader.kill
  /\ \/ /\ sdk.prompt /\ Go("receiving") /\ seen' = [seen EXCEPT !.receiving = TRUE]
        /\ UNCHANGED faults
     \/ /\ Hit /\ reader' = [reader EXCEPT !.pc = "finally", !.exc = "error"] /\ UNCHANGED seen
  /\ UNCHANGED <<sdk, mirror, hook, pending, ready, settled, main, outcome, public>>

(* A Result while a background agent works is not the run's.                  *)
Counts(kind) == kind = "error" \/ ~sdk.tasks

(* _client_messages keeps the last Result and a mirror error to the end.      *)
Receives ==
  /\ reader.pc = "receiving" /\ sdk.state = "open" /\ ~reader.kill
  /\ \/ \E t \in BOOLEAN : /\ sdk' = [sdk EXCEPT !.tasks = t] /\ UNCHANGED seen
     \/ \E kind \in {"ok", "error"} :
          /\ Counts(kind) /\ seen' = [seen EXCEPT !.final = kind] /\ UNCHANGED sdk
     \/ mirror.error /\ seen' = [seen EXCEPT !.mirrorError = TRUE] /\ UNCHANGED sdk
  /\ UNCHANGED <<mirror, hook, reader, pending, ready, settled, main, outcome, public, faults>>

(* The stream ends after the reader's final flush, or it raises; an error     *)
(* after a stop or an error Result is drained to the same end.                *)
StreamEnds ==
  /\ reader.pc = "receiving" /\ sdk.state = "open" /\ ~reader.kill
  /\ \/ /\ ~mirror.buffer /\ ~mirror.call /\ (mirror.error => seen.mirrorError)
        /\ sdk' = [sdk EXCEPT !.state = "eof"] /\ seen' = [seen EXCEPT !.closed = TRUE]
        /\ Go("joining") /\ UNCHANGED faults
     \/ /\ Hit /\ ~Stopping /\ seen.final # "error"
        /\ reader' = [reader EXCEPT !.pc = "finally", !.exc = "error"]
        /\ UNCHANGED <<sdk, seen>>
  /\ UNCHANGED <<mirror, hook, pending, ready, settled, main, outcome, public>>

(* interaction_actor.close, seal_and_wait, wait_idle: then the Result is      *)
(* looked at.                                                                 *)
Joins ==
  /\ reader.pc = "joining" /\ ~reader.kill
  /\ hook' = Seal /\ hook'.run = "idle"
  /\ IF seen.mirrorError \/ seen.final # "ok"
     THEN /\ Go("publishing")
          /\ pending' = IF seen.mirrorError THEN "mirror"
                         ELSE IF seen.final = "none" THEN "missing" ELSE "sdk"
     ELSE Go("ending") /\ UNCHANGED pending
  /\ UNCHANGED <<sdk, mirror, seen, ready, settled, main, outcome, public, faults>>

(* The hooks that still run are cancelled first.                              *)
JoinSeals ==
  /\ reader.pc = "joining" /\ ~hook.sealed /\ ~Idle /\ hook' = Seal
  /\ UNCHANGED <<sdk, mirror, reader, seen, pending, ready, settled, main, outcome, public, faults>>

(* consume after the Result: the end of the answer is published unless the    *)
(* run is being stopped, and the acknowledgement may be refused.              *)
PublishesEnd ==
  /\ reader.pc = "ending" /\ ~reader.kill /\ Go("publishing")
  /\ \/ /\ public' = ~Stopping /\ pending' = "none" /\ UNCHANGED faults
     \/ /\ ~Stopping /\ Hit /\ pending' = "callback" /\ UNCHANGED public
  /\ UNCHANGED <<sdk, mirror, hook, seen, ready, settled, main, outcome>>

(* The error protocol_closed sees; a session that does not match is a fault.  *)
SessionError(odd) == odd \/ mirror.error \/ mirror.failed # "no" \/ ~mirror.acked

(* protocol_closed sets its result over whatever ended the run.               *)
ProtocolClosedAgain(error) ==
  ready' = [kind |-> "result", error |-> error, mirror |-> MirrorComplete(seen) /\ error # "session"]

(* protocol_closed: the run's result, unless it has ended otherwise.          *)
ProtocolClosed(error) ==
  ready' = IF ready.kind # "open" THEN ready
           ELSE [kind |-> "result", error |-> error,
                 mirror |-> MirrorComplete(seen) /\ ~mirror.error /\ error # "session"]

ClosesProtocol(odd) ==
  /\ reader.pc = "publishing" /\ Go("finally")
  /\ IF odd THEN Hit ELSE UNCHANGED faults
  /\ ProtocolClosed(IF pending \in {"none", "callback"} /\ SessionError(odd)
                    THEN "session" ELSE pending)
  /\ UNCHANGED <<sdk, mirror, hook, seen, pending, settled, main, outcome, public>>

-----------------------------------------------------------------------------
(* The finally block: hooks are sealed; without the end of the stream only a  *)
(* disconnect flushes what the SDK still holds.                               *)
Finally ==
  /\ reader.pc = "finally" /\ ~reader.kill
  /\ hook' = Seal
  /\ IF ~Idle THEN UNCHANGED <<reader, settled>>
     ELSE /\ Go(IF seen.closed THEN "teardown" ELSE "lastFlush")
          /\ settled' = (settled \/ seen.closed)
  /\ UNCHANGED <<sdk, mirror, seen, pending, ready, main, outcome, public, faults>>

Down(s) == [s EXCEPT !.state = "down"]

(* What the SDK has not handed over when it goes is lost.                     *)
Cut(m) == [m EXCEPT !.lost = @ \/ m.buffer \/ m.call, !.buffer = FALSE, !.call = FALSE,
                    !.failed = IF m.call THEN "gaveUp" ELSE @]

(* lifecycle_done                                                             *)
LifecycleDone(exc) ==
  /\ settled' = TRUE
  /\ ready' = IF ready.kind = "open" THEN [ready EXCEPT !.kind = "exception"] ELSE ready
  /\ reader' = [pc |-> "done", exc |-> exc, kill |-> FALSE]

LastFlush ==
  /\ reader.pc = "lastFlush" /\ ~reader.kill
  /\ sdk' = Down(sdk) /\ LifecycleDone(reader.exc)
  /\ \/ ~mirror.buffer /\ ~mirror.call /\ UNCHANGED <<mirror, faults>>
     \/ Hit /\ mirror' = Cut(mirror)
  /\ UNCHANGED <<hook, seen, pending, main, outcome, public>>

Teardown ==
  /\ reader.pc = "teardown" /\ sdk' = Down(sdk) /\ LifecycleDone(reader.exc)
  /\ UNCHANGED <<mirror, hook, seen, pending, main, outcome, public, faults>>

(* consume_task.cancel() takes effect at the next await: inside the block it  *)
(* leads to the finally, in the finally it leaves it.                         *)
Cancelled ==
  /\ reader.kill
  /\ CASE reader.pc = "opening" ->
            /\ hook' = Seal /\ LifecycleDone("cancelled") /\ UNCHANGED <<mirror, sdk>>
       [] reader.pc \in {"connecting", "receiving", "joining", "ending"} ->
            /\ reader' = [pc |-> "finally", exc |-> "cancelled", kill |-> FALSE]
            /\ UNCHANGED <<hook, settled, ready, mirror, sdk>>
       [] reader.pc \in {"finally", "lastFlush", "teardown"} ->
            /\ LifecycleDone("cancelled") /\ sdk' = Down(sdk) /\ mirror' = Cut(mirror)
            /\ hook' = Seal
       [] reader.pc \in {"publishing", "done"} -> FALSE
  /\ UNCHANGED <<seen, pending, main, outcome, public, faults>>

-----------------------------------------------------------------------------
(* run_claude_agent_sdk.                                                      *)
Ends(kind, error, claim) ==
  /\ main' = [main EXCEPT !.pc = "ended"]
  /\ outcome' = [kind |-> kind, error |-> error, mirror |-> claim, accepted |-> seen.dispatched]

Returns ==
  /\ main.pc = "waiting" /\ ready.kind \in {"result", "exception"}
  /\ IF ready.kind = "result" THEN Ends("result", ready.error, ready.mirror)
     ELSE Ends("result", "exception", MirrorComplete(seen))
  /\ UNCHANGED <<sdk, mirror, hook, reader, seen, pending, ready, settled, public, faults>>

(* The timeout, the caller's cancellation or the question starts the stop.    *)
Stops(cause) ==
  /\ main.pc = "waiting" /\ (cause = "question" <=> ready.kind = "question")
  /\ (cause = "timeout" => ready.kind = "open")
  /\ main' = [pc |-> "interrupting", cause |-> cause]
  /\ ready' = IF cause = "timeout" THEN [ready EXCEPT !.kind = "cancelled"] ELSE ready
  /\ UNCHANGED <<sdk, mirror, hook, reader, seen, pending, settled, outcome, public, faults>>

(* interrupt_execution has come back or timed out.                            *)
Interrupted ==
  /\ main.pc = "interrupting" /\ main' = [main EXCEPT !.pc = "sealing"] /\ hook' = Seal
  /\ UNCHANGED <<sdk, mirror, reader, seen, pending, ready, settled, outcome, public, faults>>

(* With a receiving client the protocol gets its time to settle; otherwise,   *)
(* or when that is over, the reader is cancelled.                             *)
SealedHooks ==
  /\ main.pc = "sealing" /\ Idle
  /\ main' = [main EXCEPT !.pc = IF seen.receiving THEN "draining" ELSE "settling"]
  /\ reader' = [reader EXCEPT !.kill = ~seen.receiving /\ reader.pc # "done"]
  /\ UNCHANGED <<sdk, mirror, hook, seen, pending, ready, settled, outcome, public, faults>>

Drained ==
  /\ main.pc = "draining" /\ main' = [main EXCEPT !.pc = "settling"]
  /\ \/ settled /\ UNCHANGED reader
     \/ ~settled /\ reader' = [reader EXCEPT !.kill = TRUE]
  /\ UNCHANGED <<sdk, mirror, hook, seen, pending, ready, settled, outcome, public, faults>>

(* The stop returns as soon as the reader was told.                           *)
MaySettleAtOnce == TRUE

(* The stop waits for protocol_settled.                                       *)
MaySettle == settled

(* What the caller is told after a stop: the result if there was one.         *)
Settles ==
  /\ main.pc = "settling" /\ MaySettle
  /\ LET failed == mirror.failed # "no" IN
     IF main.cause # "cancel" THEN Ends("result", main.cause, MirrorComplete(seen))
     ELSE IF ready.kind = "result"
     THEN Ends("cancelled", IF failed THEN "session" ELSE ready.error, ready.mirror /\ ~failed)
     ELSE Ends("cancelled", IF failed THEN "session" ELSE "cancelled", MirrorComplete(seen) /\ ~failed)
  /\ UNCHANGED <<sdk, mirror, hook, reader, seen, pending, ready, settled, public, faults>>

Next ==
  \/ Writes \/ Flushes \/ AppendReturns \/ HookStarts \/ \E q \in BOOLEAN : HookEnds(q)
  \/ Opens \/ TakesPrompt \/ Connects \/ Receives \/ StreamEnds \/ JoinSeals \/ Joins
  \/ PublishesEnd \/ \E odd \in BOOLEAN : ClosesProtocol(odd)
  \/ Finally \/ LastFlush \/ Teardown \/ Cancelled
  \/ Returns \/ \E c \in {"timeout", "cancel", "question"} : Stops(c)
  \/ Interrupted \/ SealedHooks \/ Drained \/ Settles

Spec == Init /\ [][Next]_vars

-----------------------------------------------------------------------------
(* A settlement that says the mirror is complete leaves no transcript entry   *)
(* of the run behind, in the SDK or lost; and a run returned without an error *)
(* has that, the published end of its answer, and an unfailed last Result     *)
(* (assemble_run_result, protocol_closed).                                    *)
SettlementIsTrue ==
  /\ outcome.mirror => ~mirror.lost /\ ~mirror.buffer /\ ~mirror.call /\ mirror.acked
  /\ outcome.kind = "result" /\ outcome.error = "none" =>
       outcome.mirror /\ public /\ seen.final = "ok"
  /\ (~outcome.accepted /\ outcome.kind # "none") => ~sdk.prompt

(* The result of a run is stable: once the caller has it no hook runs, and    *)
(* nothing more is published or written to the transcript (stop_execution).   *)
ResultIsLast ==
  main.pc = "ended" => hook.run = "idle" /\ (hook.sealed \/ sdk.state = "none")

(* Nothing is published, and no prompt is taken, after the caller has the     *)
(* result; and what ended the run first stays (result_ready).                 *)
NothingAfterTheResult ==
  /\ main.pc = "ended" => public' = public /\ sdk'.prompt = sdk.prompt /\ mirror'.buffer = mirror.buffer
  /\ ready.kind # "open" => ready' = ready
=============================================================================
