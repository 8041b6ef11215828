----------------------------- MODULE ModelProxy -----------------------------
(***************************************************************************)
(* One model call of a running sandbox through the platform's proxy.       *)
(*                                                                         *)
(* Three actors share it.  The request's task asks for the call, waits for *)
(* its answer and forwards the body; it can be cancelled at every await.   *)
(* The opening thread connects to the addresses of the gateway one after   *)
(* the other and hands the opened transport over.  A reader thread is      *)
(* inside the body's generator whenever the next chunk is awaited.  The    *)
(* generator also records a checkpoint of the text on the wire before the  *)
(* SDK sees it.                                                            *)
(*                                                                         *)
(* Python generators matter here: closing a generator that was never       *)
(* advanced does not run its finally clause, and closing one while another *)
(* thread is inside it is an error.                                        *)
(***************************************************************************)
EXTENDS Naturals, FiniteSets

CONSTANTS
  MaxIps,       \* addresses the gateway's name resolves to
  MaxChunks,    \* chunks the gateway sends
  MaxTexts      \* text deltas the checkpoint counts before it stops

VARIABLES
  run,          \* what the database says of the run: [live, lease, owner, spec]
  call,         \* the request's task: [kind, phase, observed]
  thread,       \* the opening thread: [pc, ip]
  slot,         \* what the two hand over: [abandoned, delivered]
  posts,        \* POSTs that reached the gateway
  transport,    \* the opened client and response: "none", "open", "closed"
  body,         \* OwnedModelResponseBody: [reading, closed, iter, res]
  reader,       \* the reader thread: [pc, chunk]
  closing,      \* what each actor's close() still has to close
  gen,          \* the body's generator: "fresh", "inside", "paused", "over"
  ck,           \* the ModelTextCheckpoint and its parser
  wire          \* what really was on the wire: [chunks, texts, seen, shape]

vars == <<run, call, thread, slot, posts, transport, body, reader, closing,
          gen, ck, wire>>

Actors == {"task", "reader"}
NoChunk == "nothing"
Chunks == {"start", "anonymous", "text", "badtext", "half", "rest", "stop", "bad", "big"}

TypeOK ==
  /\ run \in [live : BOOLEAN, lease : BOOLEAN, owner : BOOLEAN, spec : BOOLEAN]
  /\ call \in [kind : {"messages", "count"}, observed : BOOLEAN,
               phase : {"new", "opening", "answered", "streaming", "closing", "gone"}]
  /\ thread \in [pc : {"idle", "queued", "connecting", "handing", "rejecting",
                       "collecting", "raised", "done"}, ip : 0..MaxIps]
  /\ slot \in [abandoned : BOOLEAN, delivered : BOOLEAN]
  /\ posts \in Nat
  /\ transport \in {"none", "open", "closed"}
  /\ body \in [reading : BOOLEAN, closed : BOOLEAN, iter : BOOLEAN, res : BOOLEAN]
  /\ reader \in [pc : {"none", "inside", "leaving", "closing", "checking"},
                 chunk : Chunks \cup {NoChunk}]
  /\ closing \in [Actors -> SUBSET {"iterator", "resource"}]
  /\ gen \in {"fresh", "inside", "paused", "over"}
  /\ ck.finals \in Nat /\ ck.events \in 0..MaxTexts
  /\ wire.chunks \in 0..MaxChunks

Init ==
  /\ run \in [live : {TRUE}, lease : BOOLEAN, owner : BOOLEAN, spec : {TRUE}]
  /\ call \in [kind : {"messages", "count"}, observed : {FALSE}, phase : {"new"}]
  /\ thread = [pc |-> "idle", ip |-> 0]
  /\ slot = [abandoned |-> FALSE, delivered |-> FALSE]
  /\ posts = 0
  /\ transport = "none"
  /\ body = [reading |-> FALSE, closed |-> FALSE, iter |-> FALSE, res |-> FALSE]
  /\ reader = [pc |-> "none", chunk |-> NoChunk]
  /\ closing = [a \in Actors |-> {}]
  /\ gen = "fresh"
  /\ ck = [cov |-> "text_delta", started |-> FALSE, finished |-> FALSE, counting |-> TRUE,
           parsing |-> TRUE, pending |-> FALSE, events |-> 0, finals |-> 0, complete |-> FALSE]
  /\ wire = [chunks |-> 0, texts |-> 0, seen |-> 0, shape |-> "unopened"]

-----------------------------------------------------------------------------
(* The call is admitted. *)

\* get_run_connection: the run is live, its pinned model is the one the
\* attempt's specification froze, and the attempt holds the active lease with
\* its own owner generation.
Bound == run.live /\ run.spec /\ run.lease /\ run.owner

\* proxy up to its first thread: a refused call changes nothing.
proxy ==
  /\ call.phase = "new"
  /\ Bound
  /\ call' = [call EXCEPT !.phase = "opening"]
  /\ thread' = [thread EXCEPT !.pc = "queued"]
  /\ UNCHANGED <<run, slot, posts, transport, body, reader, closing, gen, ck, wire>>

\* The run ends or another attempt takes the lease; the proxy is not told.
RunMovesOn ==
  /\ run.live
  /\ run' \in {[run EXCEPT !.live = FALSE, !.lease = FALSE], [run EXCEPT !.owner = FALSE]}
  /\ run' # run
  /\ UNCHANGED <<call, thread, slot, posts, transport, body, reader, closing, gen, ck, wire>>

-----------------------------------------------------------------------------
(* The opening thread. *)

\* open_and_deliver's first look at the lock; a cancelled future that never
\* got its thread ends the same way.
ThreadStarts ==
  /\ thread.pc = "queued"
  /\ thread' = IF slot.abandoned THEN [thread EXCEPT !.pc = "done"]
               ELSE [thread EXCEPT !.pc = "connecting", !.ip = 1]
  /\ UNCHANGED <<run, call, slot, posts, transport, body, reader, closing, gen, ck, wire>>

RetryAnyError(sent) == TRUE

\* Only a failure to connect proves that nothing was sent, so only it goes on
\* to the next address.
MayRetry(sent) == ~sent

OneAddressTooMany == thread.ip <= MaxIps

\* the addresses the host name resolved to, tried in turn
MoreAddresses == thread.ip < MaxIps

\* One address of _open_response fails; its client is closed in the finally.
\* sent: the gateway had the POST before the failure.
AddressFails(sent) ==
  /\ thread.pc = "connecting"
  /\ posts' = posts + (IF sent THEN 1 ELSE 0)
  /\ thread' = IF MayRetry(sent) /\ MoreAddresses
               THEN [thread EXCEPT !.ip = @ + 1]
               ELSE [thread EXCEPT !.pc = "raised"]
  /\ UNCHANGED <<run, call, slot, transport, body, reader, closing, gen, ck, wire>>

\* A redirect or an encoded body is an answer the proxy refuses.
AnswerRefused ==
  /\ thread.pc = "connecting"
  /\ posts' = posts + 1
  /\ thread' = [thread EXCEPT !.pc = "raised"]
  /\ UNCHANGED <<run, call, slot, transport, body, reader, closing, gen, ck, wire>>

\* The answer's head arrives.  A token count is read in the same thread.
Answered ==
  /\ thread.pc = "connecting"
  /\ posts' = posts + 1
  /\ transport' = "open"
  /\ thread' = [thread EXCEPT !.pc = IF call.kind = "count" THEN "collecting" ELSE "handing"]
  /\ UNCHANGED <<run, call, slot, body, reader, closing, gen, ck, wire>>

\* request_upstream joins the whole body; the generator's finally closes the
\* transport whether the read ends, fails or passes its size limit.
request_upstream ==
  /\ thread.pc = "collecting"
  /\ transport' = "closed"
  /\ thread' \in {[thread EXCEPT !.pc = "done"], [thread EXCEPT !.pc = "raised"]}
  /\ UNCHANGED <<run, call, slot, posts, body, reader, closing, gen, ck, wire>>

DeliverAbandoned(s) == [s EXCEPT !.delivered = TRUE]

\* The second look at the lock: a caller that gave up gets nothing.
Deliver(s) == IF s.abandoned THEN s ELSE [s EXCEPT !.delivered = TRUE]

open_and_deliver ==
  /\ thread.pc = "handing"
  /\ slot' = Deliver(slot)
  /\ thread' = [thread EXCEPT !.pc = IF slot'.delivered THEN "done" ELSE "rejecting"]
  /\ UNCHANGED <<run, call, posts, transport, body, reader, closing, gen, ck, wire>>

RejectLate ==
  /\ thread.pc = "rejecting"
  /\ transport' = "closed"
  /\ thread' = [thread EXCEPT !.pc = "done"]
  /\ UNCHANGED <<run, call, slot, posts, body, reader, closing, gen, ck, wire>>

-----------------------------------------------------------------------------
(* The request's task until the response starts. *)

\* The thread is over and the task takes what it delivered.  The body is
\* observed when the answer is a successful event stream.
TakeStream ==
  /\ call.phase = "opening" /\ call.kind = "messages"
  /\ thread.pc = "done" /\ slot.delivered
  /\ slot' = [slot EXCEPT !.delivered = FALSE]
  /\ \E o \in BOOLEAN : call' = [call EXCEPT !.phase = "answered", !.observed = o]
  /\ UNCHANGED <<run, thread, posts, transport, body, reader, closing, gen, ck, wire>>

\* The error the thread raised, or the finished token count, ends the request.
TakeOutcome ==
  /\ call.phase = "opening"
  /\ thread.pc = "raised" \/ (thread.pc = "done" /\ call.kind = "count")
  /\ call' = [call EXCEPT !.phase = "gone"]
  /\ slot' = [slot EXCEPT !.abandoned = TRUE]
  /\ thread' = [thread EXCEPT !.pc = "done"]
  /\ UNCHANGED <<run, posts, transport, body, reader, closing, gen, ck, wire>>

\* open_owned_model_stream's except: give up the slot, close what is in it.
CancelOpening ==
  /\ call.phase = "opening"
  /\ call' = [call EXCEPT !.phase = "gone"]
  /\ slot' = [abandoned |-> TRUE, delivered |-> FALSE]
  /\ transport' = IF slot.delivered THEN "closed" ELSE transport
  /\ UNCHANGED <<run, thread, posts, body, reader, closing, gen, ck, wire>>

\* The response starts, or the diagnostic of a failed status is cancelled and
\* the owned body is closed instead.
Respond ==
  /\ call.phase = "answered"
  /\ call' \in {[call EXCEPT !.phase = "streaming"], [call EXCEPT !.phase = "closing"]}
  /\ UNCHANGED <<run, thread, slot, posts, transport, body, reader, closing, gen, ck, wire>>

\* _OwnedModelStreamingResponse's finally: the client left, the body ended or
\* the task was cancelled, whatever the reader thread is doing.
ResponseEnds ==
  /\ call.phase = "streaming"
  /\ call' = [call EXCEPT !.phase = "closing"]
  /\ UNCHANGED <<run, thread, slot, posts, transport, body, reader, closing, gen, ck, wire>>

-----------------------------------------------------------------------------
(* OwnedModelResponseBody.close, by the task or by the reader. *)

CloseWhileReading ==
  (IF ~body.iter THEN {"iterator"} ELSE {}) \cup (IF ~body.res THEN {"resource"} ELSE {})

CloseByIterator == IF ~body.reading /\ ~body.iter THEN {"iterator"} ELSE {}

\* Never the generator while a reader is inside it, and each thing once.
CloseDecision ==
  (IF ~body.reading /\ ~body.iter THEN {"iterator"} ELSE {})
    \cup (IF ~body.res THEN {"resource"} ELSE {})

CloseLocked(a) ==
  /\ body' = [body EXCEPT !.closed = TRUE,
                          !.iter = @ \/ "iterator" \in CloseDecision,
                          !.res = @ \/ "resource" \in CloseDecision]
  /\ closing' = [closing EXCEPT ![a] = CloseDecision]

\* The task's close().
TaskCloses ==
  /\ call.phase = "closing" /\ closing["task"] = {}
  /\ CloseLocked("task")
  /\ call' = [call EXCEPT !.phase = "gone"]
  /\ UNCHANGED <<run, thread, slot, posts, transport, reader, gen, ck, wire>>

-----------------------------------------------------------------------------
(* The checkpoint of the text on the wire. *)

\* ModelTextCheckpoint.partial: the first reason stays, except that a missing
\* identity gives way to anything but the end of the stream.
Partial(k, c) ==
  IF k.cov = "text_delta" \/ (k.cov = "missing" /\ c # "end") THEN [k EXCEPT !.cov = c] ELSE k

CompleteAnyway(k, complete) == complete

\* What the final record claims.
ClaimsComplete(k, complete) == complete /\ k.cov = "text_delta"

\* ModelTextCheckpoint.finish
Finish(k, complete) ==
  LET p == IF ~complete THEN Partial(k, "end")
           ELSE IF ~k.started THEN Partial(k, "missing") ELSE k
  IN IF k.finished THEN k
     ELSE [p EXCEPT !.finished = TRUE, !.finals = @ + 1, !.complete = ClaimsComplete(p, complete)]

AcceptStart(k, named) ==
  IF k.started \/ k.events > 0 THEN [Partial(k, "invalid") EXCEPT !.counting = FALSE]
  ELSE LET s == [k EXCEPT !.started = TRUE]
       IN IF named THEN s ELSE Partial(s, "missing")

AcceptText(k, valid) ==
  LET p == IF k.started THEN k ELSE Partial(k, "missing")
  IN IF ~valid THEN Partial(p, "invalid")
     ELSE IF ~p.counting THEN p
     ELSE IF p.events >= MaxTexts THEN [p EXCEPT !.cov = "limit", !.counting = FALSE]
     ELSE [p EXCEPT !.events = @ + 1]

\* ModelTextCheckpoint.accept of the event a chunk completes.
Accept(k, c) ==
  IF k.finished THEN k
  ELSE CASE c = "start" -> AcceptStart(k, TRUE)
         [] c = "anonymous" -> AcceptStart(k, FALSE)
         [] c \in {"text", "rest"} -> AcceptText(k, TRUE)
         [] c = "badtext" -> AcceptText(k, FALSE)
         [] c = "stop" -> Finish(k, TRUE)
         [] OTHER -> k

\* One chunk in observe_anthropic_text: half an event stays pending, an
\* unreadable one and one past the line bound make the checkpoint partial.
Observe(k, c) ==
  IF ~k.parsing THEN k
  ELSE CASE c = "half" -> [k EXCEPT !.pending = TRUE]
         [] c = "big" -> [Partial(k, "oversized") EXCEPT !.parsing = FALSE, !.pending = FALSE]
         [] c = "bad" -> Partial(k, "invalid")
         [] OTHER -> [Accept(k, c) EXCEPT !.pending = FALSE]

\* The stream ended by itself: an unfinished event first, then the finally.
ObserveEnd(k, whole) ==
  Finish(IF whole /\ k.pending THEN Partial(k, "unfinished") ELSE k, FALSE)

\* What the chunk really was, for the property only.
OnWire(w, c) ==
  LET isText == c \in {"text", "rest", "badtext"}
      shape ==
        CASE w.shape = "unopened" /\ c = "start" -> "open"
          [] w.shape = "open" /\ c \in {"text", "rest", "half"} -> "open"
          [] w.shape = "open" /\ c = "stop" -> "stopped"
          [] w.shape = "stopped" -> "stopped"
          [] OTHER -> "odd"
  IN [w EXCEPT !.chunks = @ + 1, !.shape = shape,
               !.texts = @ + (IF isText /\ w.shape # "stopped" THEN 1 ELSE 0)]

-----------------------------------------------------------------------------
(* OwnedModelResponseBody.__next__, in the reader thread. *)

EnterNext ==
  /\ call.phase = "streaming" /\ reader.pc = "none"
  /\ ~body.closed
  /\ body' = [body EXCEPT !.reading = TRUE]
  /\ reader' = [reader EXCEPT !.pc = "inside"]
  /\ gen' = "inside"
  /\ UNCHANGED <<run, call, thread, slot, posts, transport, closing, ck, wire>>

\* The generator yields a chunk it has observed.
Yield(c) ==
  /\ reader.pc = "inside" /\ transport = "open"
  /\ wire.chunks < MaxChunks
  /\ (c = "rest") <=> (ck.pending /\ c # "big")
  /\ reader' = [pc |-> "leaving", chunk |-> c]
  /\ gen' = "paused"
  /\ ck' = IF call.observed THEN Observe(ck, c) ELSE ck
  /\ wire' = IF call.observed THEN OnWire(wire, c) ELSE [wire EXCEPT !.chunks = @ + 1]
  /\ UNCHANGED <<run, call, thread, slot, posts, transport, body, closing>>

\* The generator ends or raises: both finally clauses run, and the body is
\* marked closed.
EndOfBody(whole) ==
  /\ reader.pc = "inside"
  /\ whole => transport = "open"
  /\ reader' = [pc |-> "leaving", chunk |-> NoChunk]
  /\ gen' = "over"
  /\ transport' = "closed"
  /\ body' = [body EXCEPT !.closed = TRUE]
  /\ ck' = IF call.observed THEN ObserveEnd(ck, whole) ELSE ck
  /\ UNCHANGED <<run, call, thread, slot, posts, closing, wire>>

\* The finally of __next__: leave, and close when somebody asked for it.
LeaveNext ==
  /\ reader.pc = "leaving"
  /\ body' = [body EXCEPT !.reading = FALSE]
  /\ reader' = [reader EXCEPT !.pc = IF body.closed THEN "closing" ELSE "checking"]
  /\ UNCHANGED <<run, call, thread, slot, posts, transport, closing, gen, ck, wire>>

ReaderCloses ==
  /\ reader.pc = "closing" /\ closing["reader"] = {}
  /\ CloseLocked("reader")
  /\ reader' = [reader EXCEPT !.pc = "checking"]
  /\ UNCHANGED <<run, call, thread, slot, posts, transport, gen, ck, wire>>

\* The last look at the lock: the chunk is handed on, or the iteration stops.
HandOn ==
  /\ reader.pc = "checking" /\ closing["reader"] = {}
  /\ reader' = [pc |-> "none", chunk |-> NoChunk]
  /\ wire' = IF ~body.closed /\ call.observed /\ reader.chunk \in {"text", "rest", "badtext"}
             THEN [wire EXCEPT !.seen = @ + 1] ELSE wire
  /\ UNCHANGED <<run, call, thread, slot, posts, transport, body, closing, gen, ck>>

\* generator.close(): a paused one runs its finally clauses, a fresh one none.
CloseIterator(a) ==
  /\ "iterator" \in closing[a]
  /\ closing' = [closing EXCEPT ![a] = @ \ {"iterator"}]
  /\ gen' = IF gen = "inside" THEN gen ELSE "over"
  /\ transport' = IF gen = "paused" THEN "closed" ELSE transport
  /\ ck' = IF gen = "paused" /\ call.observed THEN Finish(ck, FALSE) ELSE ck
  /\ UNCHANGED <<run, call, thread, slot, posts, body, reader, wire>>

\* UpstreamStream.close, after the iterator.
CloseResource(a) ==
  /\ closing[a] = {"resource"}
  /\ closing' = [closing EXCEPT ![a] = {}]
  /\ transport' = "closed"
  /\ UNCHANGED <<run, call, thread, slot, posts, body, reader, gen, ck, wire>>

-----------------------------------------------------------------------------
Next ==
  \/ proxy \/ RunMovesOn
  \/ ThreadStarts \/ Answered \/ AnswerRefused \/ request_upstream
  \/ \E sent \in BOOLEAN : AddressFails(sent)
  \/ open_and_deliver \/ RejectLate
  \/ TakeStream \/ TakeOutcome \/ CancelOpening \/ Respond \/ ResponseEnds
  \/ TaskCloses
  \/ EnterNext \/ LeaveNext \/ ReaderCloses \/ HandOn
  \/ \E c \in Chunks : Yield(c)
  \/ \E w \in BOOLEAN : EndOfBody(w)
  \/ \E a \in Actors : CloseIterator(a) \/ CloseResource(a)

Spec == Init /\ [][Next]_vars

-----------------------------------------------------------------------------
(* Properties. *)

\* A model call is posted to the gateway at most once: an address is given up
\* for the next one only while nothing can have been billed (_open_response).
PostedOnce == posts <= 1

\* A transport never outlives the call.  Once the request's task is gone, the
\* opening thread is over and no reader or close is under way, nothing is
\* left open, in whatever order cancellation, hand-over, the end of the body
\* and the reader's return happened; and no close() ever enters the generator
\* while a reader thread is inside it (open_owned_model_stream,
\* OwnedModelResponseBody).
TransportIsReleased ==
  /\ call.phase = "gone" /\ thread.pc \in {"idle", "done"} /\ reader.pc = "none"
       /\ (\A a \in Actors : closing[a] = {})
     => transport # "open"
  /\ reader.pc = "inside" => \A a \in Actors : "iterator" \notin closing[a]

\* The wire checkpoint tells the truth: at most one final record; one whenever
\* an observed body that was begun is over; it claims completeness only for a
\* message that began once, stopped, held nothing unreadable and whose texts
\* were all counted; and until it is partial or final it counts every text
\* before the SDK gets it (observe_anthropic_text, ModelTextCheckpoint).
CheckpointIsTrue ==
  /\ ck.finals <= 1
  /\ gen = "over" /\ call.observed /\ wire.chunks > 0 => ck.finals = 1
  /\ ck.complete => wire.shape = "stopped" /\ ck.events = wire.texts
  /\ ck.cov = "text_delta" /\ ~ck.finished => wire.seen <= ck.events
=============================================================================
