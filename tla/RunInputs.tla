----------------------------- MODULE RunInputs -----------------------------
(***************************************************************************)
(* Supplementary text and question answers of ONE running attempt: the     *)
(* rows of run_input_sessions, run_inputs and run_input_questions          *)
(* (app/runs/application/inputs.py over inputs_postgres.py), the owner who *)
(* submits to them, and the executor's interaction actor that hands them   *)
(* to the Claude session (harness/claude/interaction.py over               *)
(* run_inputs_http.py, driven by executors/claude_agent_sdk_runner.py).    *)
(*                                                                         *)
(* Every server operation runs in one transaction under the lock of the    *)
(* run row and is one action.  The actor reaches it over HTTP: a call it   *)
(* gives up on may still reach the server at any later time.               *)
(***************************************************************************)
EXTENDS Naturals

CONSTANTS Texts,        \* supplementary texts, by input id
          Questions,    \* native AskUserQuestion calls, by question id
          Tabs,         \* places the owner may answer one question from
          MaxTries      \* MAX_RUN_INPUT_CALLBACK_ATTEMPTS

VARIABLES run,       \* the run row: running, cancelling (cancel_requested_at set) or ended
          session,   \* the row of run_input_sessions
          row,       \* the status of a row of run_inputs, "none" before it exists
          question,  \* the status of a row of run_input_questions
          asked,     \* questions the SDK session has raised
          choice,    \* the published question offers options for every item
          due,       \* five minutes passed since the question row was created
          actor,     \* the interaction actor of the executor
          stray,     \* requests the client gave up on that may still arrive
          given      \* how often the SDK session was handed the input

vars == <<run, session, row, question, choice, asked, due, actor, stray, given>>
tables == <<session, row, question, choice>>

Timeout == "timeout_default"
By(q, tab) == [question |-> q, by |-> tab]
Answer(q) == {By(q, tab) : tab \in Tabs \cup {Timeout}}
Answers == UNION {Answer(q) : q \in Questions}
Inputs == Texts \cup Answers

None == [op |-> "none"]
Open == [op |-> "open"]
Settle == [op |-> "settle"]
Publish(q) == [op |-> "question", q |-> q]
Poll(q) == [op |-> "poll", q |-> q]
Ack(i) == [op |-> "ack", i |-> i]
Requests == {Open, Settle} \cup {Publish(q) : q \in Questions}
              \cup {Poll(q) : q \in Questions} \cup {Ack(i) : i \in Inputs}

(* The actor is waiting for a request to be answered, inside an SDK turn,   *)
(* inside the native question tool with an answer in hand, or stopped.      *)
Idle == {"start", "turn", "finished", "closed"}
ActorState == [at : Idle \cup {"calling", "tool"}, req : Requests \cup {None},
               input : Inputs \cup {None}, tries : 0 .. MaxTries - 1]

At(step) == [at |-> step, req |-> None, input |-> None, tries |-> 0]
Calls(r) == [at |-> "calling", req |-> r, input |-> None, tries |-> 0]
Stopped == actor.at \in {"finished", "closed"}

-----------------------------------------------------------------------------
(* The server: RunInputsService over its tables.                           *)

(* _active_attempt_id: neither cancelling nor ended *)
Active == run = "running"

QueuedTexts == {t \in Texts : row[t] = "queued"}

(* callback "open" and open_session: an existing session keeps its state *)
ServeOpen ==
  /\ session' = IF session = "none" THEN "open" ELSE session
  /\ UNCHANGED <<row, question, choice>>

(* callback "question" and publish_question: idempotent per question id *)
MayPublish == session = "open"
ServePublish(q) ==
  /\ IF question[q] = "none"
       THEN /\ question' = [question EXCEPT ![q] = "pending"]
            /\ \E c \in BOOLEAN : choice' = [choice EXCEPT ![q] = c]
       ELSE UNCHANGED <<question, choice>>
  /\ UNCHANGED <<session, row>>

DefaultsOverAnswer(q) == question[q] \in {"pending", "answered"} /\ due[q] /\ choice[q]
NeverDefaults(q) == FALSE

(* _expire_question: an overdue question is closed when an item has no     *)
(* option to default to, and otherwise answered once by its defaults.      *)
NeedsInput(q) == question[q] \in {"pending", "closed"} /\ due[q] /\ ~choice[q]
DefaultsNow(q) == question[q] = "pending" /\ due[q] /\ choice[q]
ServePoll(q) ==
  /\ CASE session # "open" -> UNCHANGED <<row, question>>
       [] session = "open" /\ NeedsInput(q) ->
            /\ question' = [question EXCEPT ![q] = "closed"]
            /\ UNCHANGED row
       [] session = "open" /\ DefaultsNow(q) ->
            /\ row' = [row EXCEPT ![By(q, Timeout)] = "queued"]
            /\ question' = [question EXCEPT ![q] = "answered"]
       [] OTHER -> UNCHANGED <<row, question>>
  /\ UNCHANGED <<session, choice>>

(* acknowledge_inputs: the input is applied and its answered question resolved *)
ServeAck(i) ==
  /\ row' = [row EXCEPT ![i] = "applied"]
  /\ question' = [q \in Questions |->
       IF i \in Answer(q) /\ question[q] = "answered" THEN "resolved" ELSE question[q]]
  /\ UNCHANGED <<session, choice>>

(* callback "settle": the next queued text, or no more admission.  The     *)
(* sort key created_at is the start of the submitting transaction, which   *)
(* the run lock does not order, so any queued text may come first.         *)
ServeSettle ==
  /\ session' = IF QueuedTexts = {} THEN "sealed" ELSE session
  /\ UNCHANGED <<row, question, choice>>

(* The callback authority and the session row are checked before the operation *)
Rejects(r) ==
  \/ ~Active
  \/ r.op # "open" /\ session = "none"
  \/ r.op = "question" /\ ~MayPublish

Serve(r) ==
  CASE r.op = "open" -> ServeOpen
    [] r.op = "question" -> ServePublish(r.q)
    [] r.op = "poll" -> ServePoll(r.q)
    [] r.op = "ack" -> ServeAck(r.i)
    [] r.op = "settle" -> ServeSettle

(* submit, for a new input id; a known id only returns its status.         *)
SubmitText(t) ==
  /\ Active /\ session = "open" /\ row[t] = "none"
  /\ row' = [row EXCEPT ![t] = "queued"]
  /\ UNCHANGED <<run, session, question, choice, asked, due, actor, stray, given>>

SubmitAnswer(q, tab) ==
  /\ Active /\ session = "open" /\ row[By(q, tab)] = "none"
  /\ question[q] = "pending"
  /\ row' = [row EXCEPT ![By(q, tab)] = "queued"]
  /\ question' = [question EXCEPT ![q] = "answered"]
  /\ UNCHANGED <<run, session, choice, asked, due, actor, stray, given>>

(* get_projection: what the owner is shown of an input *)
Shown(i) == IF row[i] = "queued" /\ ~(Active /\ session = "open") THEN "closed" ELSE row[i]

-----------------------------------------------------------------------------
(* The actor and its calls.                                                *)

(* ClaudeRunInteractionActor.open, before the SDK client exists *)
StartOpen ==
  /\ actor.at = "start"
  /\ actor' = Calls(Open)
  /\ UNCHANGED <<run, session, row, question, choice, asked, due, stray, given>>

(* resolve_native_question from the PreToolUse hook of AskUserQuestion *)
Ask(q) ==
  /\ actor.at = "turn" /\ q \notin asked
  /\ asked' = asked \cup {q}
  /\ actor' = Calls(Publish(q))
  /\ UNCHANGED <<run, session, row, question, choice, due, stray, given>>

(* A non-error ResultMessage without background tasks: settle_at_result *)
Result ==
  /\ actor.at = "turn"
  /\ actor' = Calls(Settle)
  /\ UNCHANGED <<run, session, row, question, choice, asked, due, stray, given>>

(* A call that fails inside a hook denies or drops that tool call; one that *)
(* fails while opening, settling or acknowledging a text ends the run.      *)
Failed(r) ==
  IF r.op \in {"question", "poll"} \/ (r.op = "ack" /\ r.i \in Answers)
    THEN At("turn") ELSE At("closed")

(* What the actor does with the answer to a call; session' and question'   *)
(* are what the operation committed.                                       *)
AfterOpen == actor' = IF session' = "open" THEN At("turn") ELSE At("closed")
AfterPublish(q) == actor' = Calls(Poll(q))
(* _publish_and_wait: needs-input stops the run, a closed session denies the *)
(* tool call, an answer ends the wait and nothing yet is polled again.      *)
AfterPoll(q) ==
  CASE session # "open" -> actor' = At("turn") /\ UNCHANGED given
    [] session = "open" /\ NeedsInput(q) -> actor' = At("closed") /\ UNCHANGED given
    [] OTHER ->
         LET found == {i \in Answer(q) : row'[i] = "queued"} IN
           IF found = {} THEN actor' = Calls(Poll(q)) /\ UNCHANGED given
           ELSE \E i \in found :
                  /\ actor' = [At("tool") EXCEPT !.input = i]
                  /\ given' = [given EXCEPT ![i] = @ + 1]
(* _acknowledge_until_confirmed: a session that is no longer open is an error *)
AfterAck(i) == actor' = IF session = "open" THEN At("turn") ELSE Failed(Ack(i))
(* settle_at_result and apply_text_at_result: a sealed session ends the    *)
(* input stream, a text is queried once and then acknowledged.             *)
AfterSettle ==
  IF QueuedTexts = {} THEN actor' = At("finished") /\ UNCHANGED given
  ELSE \E t \in QueuedTexts :
         /\ actor' = Calls(Ack(t))
         /\ given' = [given EXCEPT ![t] = @ + 1]

Answered ==
  /\ actor.at = "calling" /\ ~Rejects(actor.req)
  /\ Serve(actor.req)
  /\ CASE actor.req.op = "open" -> AfterOpen /\ UNCHANGED given
       [] actor.req.op = "question" -> AfterPublish(actor.req.q) /\ UNCHANGED given
       [] actor.req.op = "poll" -> AfterPoll(actor.req.q)
       [] actor.req.op = "ack" -> AfterAck(actor.req.i) /\ UNCHANGED given
       [] actor.req.op = "settle" -> AfterSettle
  /\ UNCHANGED <<run, asked, due, stray>>

(* A 4xx answer is not retried *)
Refused ==
  /\ actor.at = "calling" /\ Rejects(actor.req)
  /\ actor' = Failed(actor.req)
  /\ UNCHANGED <<run, session, row, question, choice, asked, due, stray, given>>

GivesUpRequeries ==
  /\ actor.at = "calling"
  /\ stray' = stray \cup {actor.req}
  /\ actor' = IF actor.tries + 1 < MaxTries THEN [actor EXCEPT !.tries = @ + 1]
              ELSE IF actor.req.op = "ack" /\ actor.req.i \in Texts THEN Calls(Settle)
              ELSE Failed(actor.req)
  /\ UNCHANGED <<run, session, row, question, choice, asked, due, given>>

(* RunInputCallbackClient._post gives up on one try; the last try raises,  *)
(* except that an acknowledgement starts over until it is confirmed.       *)
GivesUp ==
  /\ actor.at = "calling"
  /\ stray' = stray \cup {actor.req}
  /\ actor' = IF actor.tries + 1 < MaxTries THEN [actor EXCEPT !.tries = @ + 1]
              ELSE IF actor.req.op = "ack" THEN Calls(actor.req)
              ELSE Failed(actor.req)
  /\ UNCHANGED <<run, session, row, question, choice, asked, due, given>>

(* A request whose answer nobody waits for any more reaches the server *)
StrayArrives(r) ==
  /\ r \in stray
  /\ stray' = stray \ {r}
  /\ IF Rejects(r) THEN UNCHANGED tables ELSE Serve(r)
  /\ UNCHANGED <<run, asked, due, actor, given>>

(* The native question consumed its answer (PostToolUse, lifecycle          *)
(* "completed": acknowledge_native_question), or its tool call failed.      *)
ToolCompleted ==
  /\ actor.at = "tool"
  /\ actor' = Calls(Ack(actor.input))
  /\ UNCHANGED <<run, session, row, question, choice, asked, due, stray, given>>
ToolFailed ==
  /\ actor.at = "tool"
  /\ actor' = At("turn")
  /\ UNCHANGED <<run, session, row, question, choice, asked, due, stray, given>>

(* ClaudeRunInteractionActor.cancel: an error result, a transcript mirror   *)
(* error, a stop request, or the end of the executor process.               *)
Close ==
  /\ ~Stopped
  /\ actor' = At("closed")
  /\ UNCHANGED <<run, session, row, question, choice, asked, due, stray, given>>

-----------------------------------------------------------------------------
(* The surroundings: the deadline, the cancel request, the end of the run.  *)

Deadline(q) ==
  /\ question[q] # "none" /\ ~due[q]
  /\ due' = [due EXCEPT ![q] = TRUE]
  /\ UNCHANGED <<run, session, row, question, choice, asked, actor, stray, given>>

CancelRequested ==
  /\ run = "running"
  /\ run' = "cancelling"
  /\ UNCHANGED <<session, row, question, choice, asked, due, actor, stray, given>>

(* The run or its attempt is settled, with or without word of the executor *)
RunEnds ==
  /\ run # "ended"
  /\ run' = "ended"
  /\ UNCHANGED <<session, row, question, choice, asked, due, actor, stray, given>>

Init ==
  /\ run = "running"
  /\ session = "none"
  /\ row = [i \in Inputs |-> "none"]
  /\ question = [q \in Questions |-> "none"]
  /\ choice = [q \in Questions |-> FALSE]
  /\ asked = {}
  /\ due = [q \in Questions |-> FALSE]
  /\ actor = At("start")
  /\ stray = {}
  /\ given = [i \in Inputs |-> 0]

Next ==
  \/ \E t \in Texts : SubmitText(t)
  \/ \E q \in Questions, tab \in Tabs : SubmitAnswer(q, tab)
  \/ StartOpen
  \/ \E q \in Questions : Ask(q)
  \/ Result
  \/ Answered
  \/ Refused
  \/ GivesUp
  \/ \E r \in stray : StrayArrives(r)
  \/ ToolCompleted
  \/ ToolFailed
  \/ Close
  \/ \E q \in Questions : Deadline(q)
  \/ CancelRequested
  \/ RunEnds

(* The handlers answer in the end, SDK turns and tools end, the clock runs,  *)
(* and a run whose executor stopped is settled (RunLifecycle, SandboxLease). *)
RunEndsAfterExecutor == Stopped /\ RunEnds

Spec == Init /\ [][Next]_vars

-----------------------------------------------------------------------------
TypeOK ==
  /\ run \in {"running", "cancelling", "ended"}
  /\ session \in {"none", "open", "sealed"}
  /\ row \in [Inputs -> {"none", "queued", "applied"}]
  /\ question \in [Questions -> {"none", "pending", "answered", "resolved", "closed"}]
  /\ choice \in [Questions -> BOOLEAN]
  /\ asked \subseteq Questions
  /\ due \in [Questions -> BOOLEAN]
  /\ actor \in ActorState
  /\ stray \subseteq Requests
  /\ given \in [Inputs -> Nat]

(* apply_text_at_result queries the SDK before it acknowledges and retries  *)
(* only the acknowledgement; an answer is acknowledged by the PostToolUse   *)
(* hook.  However calls are lost, retried or late: the SDK is handed a text *)
(* at most once, and an input is shown as applied only after it was.  A      *)
(* session is sealed, under the lock submit takes, only when no text the    *)
(* owner was told is queued is left behind.                                 *)
ReceiptIsTrue ==
  /\ session = "sealed" => QueuedTexts = {}
  /\ \A t \in Texts : given[t] <= 1
  /\ \A i \in Inputs : row[i] = "applied" => given[i] >= 1

(* The owner's answers from several places and the default of the deadline  *)
(* race for one question: the first committed one wins, it alone exists,    *)
(* and the status of the question tells how far it got.                     *)
FirstAnswerWins ==
  \A q \in Questions :
    LET all == {i \in Answer(q) : row[i] # "none"} IN
      /\ \A i, j \in all : i = j
      /\ all # {} <=> question[q] \in {"answered", "resolved"}
      /\ question[q] = "resolved" <=> \E i \in all : row[i] = "applied"

(* Under that fairness an accepted text is applied or shown as closed, and   *)
(* the hook that waits for an answer is released, by the owner, by the       *)
(* five-minute default, or by the end of the run.                            *)
Waiting(q) == actor.req = Poll(q)
InputsSettle ==
  /\ \A t \in Texts : (row[t] = "queued") ~> (Shown(t) # "queued")
  /\ \A q \in Questions : Waiting(q) ~> ~Waiting(q)

=============================================================================
