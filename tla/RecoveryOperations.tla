------------------------- MODULE RecoveryOperations -------------------------
(***************************************************************************)
(* The recovery gate: an attempt that resumes an interrupted conversation  *)
(* finds external write calls whose effect nobody confirmed.  Before it    *)
(* may repeat one, the owner of the run has to say so                      *)
(* (app/execution/application/recovery_operations.py and its tables,       *)
(* app/bootstrap/recovery_operations.py, the recovery-operation callback   *)
(* of app/routes/runtime_callbacks.py), and the executor has to have its   *)
(* start recorded (app/executors/claude_agent_sdk_runner.py,               *)
(* app/runtime/sandbox/executor_app.py).                                   *)
(*                                                                         *)
(* Two questions may be open about one source operation: the confirmation  *)
(* asked when the input session opens ("src", never an authorisation) and  *)
(* the one of the paused call itself ("inv").  A callback or an answer is  *)
(* one transaction that locks run, operation, then binding: one action.    *)
(***************************************************************************)
EXTENDS Naturals, TLAPS

CONSTANT Ops    \* write calls of the earlier attempt, by native tool_use id

VARIABLES run,          \* running, cancelling (cancel_requested_at set) or ended
          confirmable,  \* manual_confirmation_available: tool, principal and summary still match
          outcome,      \* verified_outcome of the source operation
          reference,    \* the binding whose answer verified it
          binding,      \* rows of execution_recovery_invocations
          recorded,     \* reported_status of the row this attempt's own start wrote
          phase,        \* the executor: opening the session, ready or over
          facts,        \* recovery_operation_facts composed into the system prompt
          call,         \* where the executor stands with the repeated call
          rejected,     \* capability_evidence_rejected
          stray,        \* started requests the executor gave up on
          effects       \* how often this attempt dispatched the call

vars == <<run, confirmable, outcome, reference, binding, recorded,
          phase, facts, call, rejected, stray, effects>>
host == <<outcome, reference, binding, recorded>>
executor == <<phase, facts, call, rejected, stray, effects>>

Kinds == {"src", "inv"}
Outcomes == {"unknown", "not_effective", "succeeded"}
Options == {"o0", "o1", "o2", "o3"}

NoBinding == [made |-> FALSE, asked |-> FALSE, expired |-> FALSE, auth |-> "pending",
              answer |-> "none", started |-> FALSE, closed |-> FALSE]
Binding == [made : BOOLEAN, asked : BOOLEAN, expired : BOOLEAN,
            auth : {"pending", "hold", "retry", "current_invocation"},
            answer : Options \cup {"none"}, started : BOOLEAN, closed : BOOLEAN]

(* _current_authority: the run runs, is not being cancelled, owns its lease *)
Active == run = "running"

-----------------------------------------------------------------------------
(* The host.                                                               *)

AllowsOnOutcome(o, b) ==
  IF outcome[o] = "succeeded" \/ b.started \/ b.closed THEN "deny"
  ELSE IF outcome[o] = "not_effective" \/ b.auth = "current_invocation" THEN "allow"
  ELSE IF b.auth = "hold" THEN "deny" ELSE "wait"

(* operation_permission *)
Permission(o, b) ==
  IF outcome[o] = "succeeded" \/ b.started \/ b.closed THEN "deny"
  ELSE CASE b.auth = "retry" /\ outcome[o] = "not_effective" -> "allow"
         [] b.auth = "current_invocation" -> "allow"
         [] b.auth = "hold" -> "deny"
         [] OTHER -> "wait"

(* bind_invocation and query: the binding exists from here on, and waiting  *)
(* publishes its question once; a question past its 300 seconds is a denial *)
Queried(o, b) ==
  LET bound == [b EXCEPT !.made = TRUE] IN
    IF Permission(o, bound) = "wait" THEN [bound EXCEPT !.asked = TRUE] ELSE bound

NoDeadline(o, b) == Permission(o, b)

Decision(o, b) ==
  IF Permission(o, b) = "wait" /\ b.expired THEN "deny" ELSE Permission(o, b)

(* publish_recovery_source_questions: one confirmation per unverified source *)
Published ==
  [o \in Ops |->
     IF outcome[o] = "unknown" /\ confirmable[o]
       THEN [binding[o] EXCEPT !["src"] = Queried(o, @)] ELSE binding[o]]
StillPending ==
  \E o \in Ops : /\ outcome[o] = "unknown" /\ confirmable[o]
                 /\ Decision(o, binding[o]["src"]) = "wait"

(* source_confirmation_fact: only what the owner confirmed on that question *)
Fact(o) ==
  LET b == binding[o]["src"] IN
    IF /\ confirmable[o] /\ b.made /\ reference[o] = "src" /\ b.answer # "none"
       /\ ~b.closed /\ ~b.started /\ b.auth = "hold"
      THEN outcome[o] ELSE "unknown"

(* on_manual_answer inside submit, which also acknowledges the answer.  The *)
(* first answer stays; verify never takes a confirmed success back.         *)
Verified(o, x) ==
  IF outcome[o] = "succeeded" \/ x = "o1" THEN "succeeded"
  ELSE IF x = "o2" THEN "not_effective" ELSE outcome[o]
Authorization(o, k, x) ==
  IF Verified(o, x) = "succeeded" \/ k = "src" THEN "hold"
  ELSE CASE x = "o2" -> "retry"
         [] x = "o3" -> "current_invocation"
         [] OTHER -> "hold"

AnswerQuestion(o, k, x) ==
  /\ Active /\ phase # "over" /\ confirmable[o]
  /\ LET b == binding[o][k] IN
       /\ b.asked /\ b.answer = "none" /\ ~b.expired /\ ~b.started /\ ~b.closed
  /\ k = "src" => x # "o3"
  /\ outcome' = [outcome EXCEPT ![o] = Verified(o, x)]
  /\ reference' = [reference EXCEPT
       ![o] = IF x \in {"o1", "o2"} /\ outcome[o] # "succeeded" THEN k ELSE @]
  /\ binding' = [binding EXCEPT ![o][k].answer = x, ![o][k].auth = Authorization(o, k, x)]
  /\ UNCHANGED <<run, confirmable, recorded, executor>>

StartWithoutRecheck(o) == Active /\ confirmable[o] /\ binding[o]["inv"].made

(* record_started: the permission is computed again under the locks; a     *)
(* repeated request of a started call only reads its row.                  *)
MayStart(o) ==
  /\ Active /\ confirmable[o]
  /\ LET b == binding[o]["inv"] IN
       b.made /\ (b.started \/ Permission(o, b) = "allow")
Start(o) ==
  /\ binding' = [binding EXCEPT ![o]["inv"].started = TRUE]
  /\ recorded' = [recorded EXCEPT ![o] = IF @ = "none" THEN "started" ELSE @]
  /\ UNCHANGED <<outcome, reference>>

(* close_invocation *)
CloseInvocation(o) ==
  /\ Active /\ binding[o]["inv"].made
  /\ binding' = [binding EXCEPT ![o]["inv"].closed = TRUE]
  /\ UNCHANGED <<run, confirmable, outcome, reference, recorded, executor>>

-----------------------------------------------------------------------------
(* The executor.                                                           *)

(* ClaudeRunInteractionActor.open polls until no confirmation is pending;   *)
(* the facts of the last snapshot go into the system prompt.                *)
OpenSession ==
  /\ phase = "opening" /\ Active
  /\ binding' = Published
  /\ IF StillPending THEN UNCHANGED <<phase, facts>>
     ELSE phase' = "ready" /\ facts' = [o \in Ops |-> Fact(o)]
  /\ UNCHANGED <<run, confirmable, outcome, reference, recorded, call, rejected, stray, effects>>

(* A later poll of the input session publishes open confirmations too *)
PollAgain ==
  /\ phase = "ready" /\ Active /\ Published # binding
  /\ binding' = Published
  /\ UNCHANGED <<run, confirmable, outcome, reference, recorded, executor>>

(* The resumed model issues the call: the gate of can_use_tool and PreToolUse *)
Attempt(o) ==
  /\ phase = "ready" /\ call[o] = "idle"
  /\ call' = [call EXCEPT ![o] = "gate"]
  /\ UNCHANGED <<run, confirmable, host, phase, facts, rejected, stray, effects>>

(* external_write_outcome_unconfirmed: one unconfirmed write stops them all *)
Unconfirmed == rejected \/ \E o \in Ops : call[o] = "failed"

(* recovery_gate_denial asks every quarter second until the answer is final; *)
(* an admitted call is refused when another write is unconfirmed by then.    *)
QueryGate(o) ==
  /\ call[o] = "gate" /\ Active
  /\ IF ~confirmable[o]
       THEN call' = [call EXCEPT ![o] = "denied"] /\ UNCHANGED binding
       ELSE /\ binding' = [binding EXCEPT ![o]["inv"] = Queried(o, @)]
            /\ call' = [call EXCEPT ![o] =
                 CASE Decision(o, binding[o]["inv"]) = "wait" -> "gate"
                   [] Decision(o, binding[o]["inv"]) = "allow" /\ ~Unconfirmed -> "starting"
                   [] OTHER -> "denied"]
  /\ UNCHANGED <<run, confirmable, outcome, reference, recorded, phase, facts, rejected, stray, effects>>

(* A failed query, a stop request and the gate's own deadline deny the call *)
GateFails(o) ==
  /\ call[o] = "gate"
  /\ call' = [call EXCEPT ![o] = "denied"]
  /\ UNCHANGED <<run, confirmable, host, phase, facts, rejected, stray, effects>>

(* bind_capability_evidence posts "started" once, before the call is admitted *)
PostStarted(o) ==
  /\ call[o] = "starting"
  /\ IF MayStart(o)
       THEN /\ Start(o)
            /\ call' = [call EXCEPT ![o] = "accepted"]
            /\ UNCHANGED rejected
       ELSE /\ call' = [call EXCEPT ![o] = "denied"]
            /\ rejected' = TRUE
            /\ UNCHANGED host
  /\ UNCHANGED <<run, confirmable, phase, facts, stray, effects>>
StartedLost(o) ==
  /\ call[o] = "starting"
  /\ call' = [call EXCEPT ![o] = "denied"]
  /\ rejected' = TRUE
  /\ stray' = stray \cup {o}
  /\ UNCHANGED <<run, confirmable, host, phase, facts, effects>>
StrayStarted(o) ==
  /\ o \in stray
  /\ stray' = stray \ {o}
  /\ IF MayStart(o) THEN Start(o) ELSE UNCHANGED host
  /\ UNCHANGED <<run, confirmable, phase, facts, call, rejected, effects>>

(* enforce_side_effect_tool_policy after its last await: the call is        *)
(* dispatched unless another write became unconfirmed meanwhile; a receipt  *)
(* that is not acknowledged after the start rejects all further evidence.   *)
Admit(o) ==
  /\ call[o] = "accepted"
  /\ IF Unconfirmed
       THEN call' = [call EXCEPT ![o] = "denied"] /\ UNCHANGED effects
       ELSE /\ call' = [call EXCEPT ![o] = "dispatched"]
            /\ effects' = [effects EXCEPT ![o] = @ + 1]
  /\ UNCHANGED <<run, confirmable, host, phase, facts, rejected, stray>>
ReceiptFails(o) ==
  /\ call[o] = "accepted"
  /\ call' = [call EXCEPT ![o] = "denied"]
  /\ rejected' = TRUE
  /\ UNCHANGED <<run, confirmable, host, phase, facts, stray, effects>>

(* The tool returns; "completed" and "failed" are recorded once, also while  *)
(* the run is being cancelled (authorize_completion_tail).                   *)
ToolReturns(o, s) ==
  /\ call[o] = "dispatched"
  /\ call' = [call EXCEPT ![o] = s]
  /\ IF run = "ended"
       THEN rejected' = TRUE /\ UNCHANGED recorded
       ELSE /\ recorded' = [recorded EXCEPT ![o] = s]
            /\ UNCHANGED rejected
  /\ UNCHANGED <<run, confirmable, outcome, reference, binding, phase, facts, stray, effects>>

(* The executor stops: nothing it has not dispatched is dispatched any more *)
ExecutorStops ==
  /\ phase # "over"
  /\ phase' = "over"
  /\ call' = [o \in Ops |-> IF call[o] \in {"dispatched", "completed", "failed"}
                              THEN call[o] ELSE "denied"]
  /\ UNCHANGED <<run, confirmable, host, facts, rejected, stray, effects>>

-----------------------------------------------------------------------------
(* The surroundings.                                                       *)

Expire(o, k) ==
  /\ binding[o][k].asked /\ ~binding[o][k].expired
  /\ binding' = [binding EXCEPT ![o][k].expired = TRUE]
  /\ UNCHANGED <<run, confirmable, outcome, reference, recorded, executor>>

(* The tool's distribution, its declared summary or the principal changes *)
AuthorityChanges(o) ==
  /\ confirmable' = [confirmable EXCEPT ![o] = ~@]
  /\ UNCHANGED <<run, host, executor>>

RunMoves(s) ==
  /\ s = "cancelling" => run = "running"
  /\ run # "ended"
  /\ run' = s
  /\ UNCHANGED <<confirmable, host, executor>>

Init ==
  /\ run = "running"
  /\ confirmable \in [Ops -> BOOLEAN]
  /\ outcome = [o \in Ops |-> "unknown"]
  /\ reference = [o \in Ops |-> "none"]
  /\ binding = [o \in Ops |-> [k \in Kinds |-> NoBinding]]
  /\ recorded = [o \in Ops |-> "none"]
  /\ phase = "opening"
  /\ facts = [o \in Ops |-> "unknown"]
  /\ call = [o \in Ops |-> "idle"]
  /\ rejected = FALSE
  /\ stray = {}
  /\ effects = [o \in Ops |-> 0]

Next ==
  \/ OpenSession \/ PollAgain \/ ExecutorStops
  \/ \E o \in Ops :
       \/ Attempt(o) \/ QueryGate(o) \/ GateFails(o)
       \/ PostStarted(o) \/ StartedLost(o) \/ StrayStarted(o)
       \/ Admit(o) \/ ReceiptFails(o)
       \/ CloseInvocation(o) \/ AuthorityChanges(o)
  \/ \E o \in Ops, s \in {"completed", "failed"} : ToolReturns(o, s)
  \/ \E o \in Ops, k \in Kinds, x \in Options : AnswerQuestion(o, k, x)
  \/ \E o \in Ops, k \in Kinds : Expire(o, k)
  \/ \E s \in {"cancelling", "ended"} : RunMoves(s)

Spec == Init /\ [][Next]_vars

-----------------------------------------------------------------------------
TypeOK ==
  /\ run \in {"running", "cancelling", "ended"}
  /\ confirmable \in [Ops -> BOOLEAN]
  /\ outcome \in [Ops -> Outcomes]
  /\ reference \in [Ops -> Kinds \cup {"none"}]
  /\ binding \in [Ops -> [Kinds -> Binding]]
  /\ recorded \in [Ops -> {"none", "started", "completed", "failed"}]
  /\ phase \in {"opening", "ready", "over"}
  /\ facts \in [Ops -> Outcomes]
  /\ call \in [Ops -> {"idle", "gate", "starting", "accepted", "dispatched",
                       "completed", "failed", "denied"}]
  /\ rejected \in BOOLEAN
  /\ stray \subseteq Ops
  /\ effects \in [Ops -> Nat]

(* "Only authenticated owner answers and registered authoritative queries   *)
(* verify effects" (no query is registered): a repeated call was dispatched *)
(* at most once and only after the owner answered the question of that very *)
(* call with a retry, its start is on record, an outcome is verified by an  *)
(* answer that states it, and a fact the model is told was confirmed on the *)
(* source question itself.                                                  *)
OwnerSaidSo ==
  \A o \in Ops :
    /\ effects[o] > 0 => /\ effects[o] = 1
                         /\ binding[o]["inv"].answer \in {"o2", "o3"}
                         /\ recorded[o] # "none"
    /\ outcome[o] # "unknown" =>
         reference[o] # "none" /\ binding[o][reference[o]].answer =
           (IF outcome[o] = "succeeded" THEN "o1" ELSE "o2")
    /\ facts[o] # "unknown" => binding[o]["src"].answer \in {"o1", "o2"}

(* "A completed source operation is never permission to perform it again":  *)
(* a confirmed success is not taken back by a later answer, and the start   *)
(* of a call whose permission was granted earlier is refused after it.      *)
KeepsCompleted ==
  \A o \in Ops : outcome[o] = "succeeded" =>
    /\ outcome'[o] = "succeeded"
    /\ binding'[o]["inv"].started = binding[o]["inv"].started
CompletedStaysCompleted == [][KeepsCompleted]_vars

(* The gate of a call and the opening of the session wait for an owner who   *)
(* may never answer: the 300 seconds of the question release both.           *)
Opened == phase # "opening" \/ ~Active
GateLeft(o) == call[o] # "gate" \/ ~Active
RecoveryWaitsEnd ==
  /\ (phase = "opening") ~> Opened
  /\ \A o \in Ops : ~GateLeft(o) ~> GateLeft(o)

-----------------------------------------------------------------------------
(***************************************************************************)
(* No external write is repeated without its owner's word, and a confirmed *)
(* success is final, for any set of operations.  OwnerSaidSo is not        *)
(* inductive: that a dispatched call was answered with a retry follows     *)
(* from what a binding's authorisation and its recorded start say of its   *)
(* answer.  Inv adds these.                                                *)
(***************************************************************************)

\* A binding permits the call only by the owner's answer on that question, and a start
\* that is on record was permitted.
AnswerPermits(o) ==
  LET b == binding[o]["inv"] IN
    /\ b.auth = "retry" => b.answer = "o2"
    /\ b.auth = "current_invocation" => b.answer = "o3"
    /\ b.started => b.answer \in {"o2", "o3"} /\ recorded[o] # "none"

\* The executor goes past the start of a call only when it is on record, and counts one
\* dispatch per call.
Dispatched(o) == call[o] \in {"dispatched", "completed", "failed"}
StartOnRecord(o) ==
  /\ call[o] = "accepted" \/ Dispatched(o) => binding[o]["inv"].started
  /\ effects[o] = IF Dispatched(o) THEN 1 ELSE 0

\* A verified outcome is the one an answer states.
OutcomeAnswered(o) ==
  outcome[o] # "unknown" =>
    /\ reference[o] \in Kinds
    /\ binding[o][reference[o]].answer = (IF outcome[o] = "succeeded" THEN "o1" ELSE "o2")

FactAnswered(o) == facts[o] # "unknown" => binding[o]["src"].answer \in {"o1", "o2"}

OpInv(o) == AnswerPermits(o) /\ StartOnRecord(o) /\ OutcomeAnswered(o) /\ FactAnswered(o)

Inv == TypeOK /\ \A o \in Ops : OpInv(o)

-----------------------------------------------------------------------------
\* An attempt that resumes has nothing answered, started or dispatched.
LEMMA InitInv == Init => Inv
  <1> SUFFICES ASSUME Init PROVE Inv
    OBVIOUS
  <1>1. NoBinding \in Binding
    BY DEF NoBinding, Binding, Options
  <1>2. TypeOK
    BY <1>1 DEF Init, TypeOK, Outcomes
  <1>3. ASSUME NEW o \in Ops PROVE OpInv(o)
    BY DEF Init, OpInv, AnswerPermits, StartOnRecord, Dispatched, OutcomeAnswered, FactAnswered,
           NoBinding, Kinds
  <1> QED BY <1>2, <1>3 DEF Inv

\* A step that leaves the host's rows and the prompt's facts alone, and moves no call past
\* its start.
LEMMA HostUntouched ==
  ASSUME Inv, TypeOK', UNCHANGED <<host, facts, effects>>,
         \A o \in Ops : /\ call'[o] = "accepted" => call[o] = "accepted"
                        /\ Dispatched(o)' <=> Dispatched(o)
  PROVE  Inv'
  <1> SUFFICES ASSUME NEW o \in Ops PROVE OpInv(o)'
    BY DEF Inv
  <1>1. OpInv(o)
    BY DEF Inv
  <1> QED BY <1>1 DEF host, OpInv, AnswerPermits, StartOnRecord, OutcomeAnswered, FactAnswered

\* A step that changes no answer, authorisation or start: what the model is told is what
\* Fact reads from the rows.
LEMMA AnswersUntouched ==
  ASSUME Inv, TypeOK', UNCHANGED <<outcome, reference, recorded, effects>>,
         \A o \in Ops, k \in Kinds : /\ binding'[o][k].answer = binding[o][k].answer
                                     /\ binding'[o][k].auth = binding[o][k].auth
                                     /\ binding'[o][k].started = binding[o][k].started,
         \A o \in Ops : facts'[o] = facts[o] \/ facts'[o] = Fact(o),
         \A o \in Ops : /\ call'[o] = "accepted" => call[o] = "accepted"
                        /\ Dispatched(o)' <=> Dispatched(o)
  PROVE  Inv'
  <1> SUFFICES ASSUME NEW o \in Ops PROVE OpInv(o)'
    BY DEF Inv
  <1>1. OpInv(o)
    BY DEF Inv
  <1>2. AnswerPermits(o)' /\ StartOnRecord(o)'
    BY <1>1 DEF OpInv, AnswerPermits, StartOnRecord, Kinds
  <1>3. OutcomeAnswered(o)'
    BY <1>1 DEF OpInv, OutcomeAnswered
  <1>4. Fact(o) # "unknown" => binding[o]["src"].answer \in {"o1", "o2"}
    BY <1>1 DEF Fact, OpInv, OutcomeAnswered
  <1>5. FactAnswered(o)'
    BY <1>1, <1>4 DEF OpInv, FactAnswered, Kinds
  <1> QED BY <1>2, <1>3, <1>5 DEF OpInv

\* bind_invocation and query change what was made and asked, nothing else.
LEMMA QueriedKeeps ==
  ASSUME NEW o \in Ops, NEW b \in Binding
  PROVE  /\ Queried(o, b) \in Binding
         /\ Queried(o, b).answer = b.answer
         /\ Queried(o, b).auth = b.auth
         /\ Queried(o, b).started = b.started
  BY DEF Queried, Binding

\* Publishing the source questions answers, authorises and starts nothing.
LEMMA PublishedKeeps ==
  ASSUME TypeOK
  PROVE  /\ Published \in [Ops -> [Kinds -> Binding]]
         /\ \A o \in Ops, k \in Kinds : /\ Published[o][k].answer = binding[o][k].answer
                                        /\ Published[o][k].auth = binding[o][k].auth
                                        /\ Published[o][k].started = binding[o][k].started
  <1> SUFFICES ASSUME NEW o \in Ops
               PROVE  /\ Published[o] \in [Kinds -> Binding]
                      /\ \A k \in Kinds : /\ Published[o][k].answer = binding[o][k].answer
                                          /\ Published[o][k].auth = binding[o][k].auth
                                          /\ Published[o][k].started = binding[o][k].started
    BY DEF Published
  <1>1. binding[o] \in [Kinds -> Binding]
    BY DEF TypeOK
  <1>2. binding[o]["src"] \in Binding /\ "src" \in Kinds
    BY <1>1 DEF Kinds
  <1> DEFINE q == Queried(o, binding[o]["src"])
  <1>3. q \in Binding /\ q.answer = binding[o]["src"].answer /\ q.auth = binding[o]["src"].auth
        /\ q.started = binding[o]["src"].started
    BY <1>2, QueriedKeeps
  <1>4. Published[o] = binding[o] \/ Published[o] = [binding[o] EXCEPT !["src"] = q]
    BY DEF Published
  <1> HIDE DEF q
  <1> QED BY <1>1, <1>2, <1>3, <1>4

-----------------------------------------------------------------------------
(* Every step keeps the invariant.                                         *)

\* The executor's own moves, and those of the run and of the tool's authority.
LEMMA ExecutorMoves ==
  ASSUME Inv,
         \/ ExecutorStops
         \/ \E o \in Ops : \/ Attempt(o) \/ GateFails(o) \/ StartedLost(o) \/ ReceiptFails(o)
                           \/ AuthorityChanges(o)
         \/ \E s \in {"cancelling", "ended"} : RunMoves(s)
  PROVE  Inv'
  <1>1. TypeOK
    BY DEF Inv
  <1>2. TypeOK'
    <2>1. CASE ExecutorStops
      BY <1>1, <2>1 DEF TypeOK, ExecutorStops, host
    <2>2. ASSUME NEW o \in Ops, Attempt(o) \/ GateFails(o) \/ StartedLost(o) \/ ReceiptFails(o)
          PROVE  TypeOK'
      BY <1>1, <2>2 DEF TypeOK, Attempt, GateFails, StartedLost, ReceiptFails, host
    <2>3. ASSUME NEW o \in Ops, AuthorityChanges(o) PROVE TypeOK'
      BY <1>1, <2>3 DEF TypeOK, AuthorityChanges, host, executor
    <2>4. ASSUME NEW s \in {"cancelling", "ended"}, RunMoves(s) PROVE TypeOK'
      BY <1>1, <2>4 DEF TypeOK, RunMoves, host, executor
    <2> QED BY <2>1, <2>2, <2>3, <2>4
  <1>3. UNCHANGED <<host, facts, effects>>
    BY DEF ExecutorStops, Attempt, GateFails, StartedLost, ReceiptFails, AuthorityChanges, RunMoves,
           executor
  <1>4. ASSUME NEW p \in Ops
        PROVE  (call'[p] = "accepted" => call[p] = "accepted") /\ (Dispatched(p)' <=> Dispatched(p))
    <2>1. CASE ExecutorStops
      BY <1>1, <2>1 DEF TypeOK, ExecutorStops, Dispatched
    <2>2. ASSUME NEW o \in Ops, Attempt(o) \/ GateFails(o) \/ StartedLost(o) \/ ReceiptFails(o)
          PROVE  (call'[p] = "accepted" => call[p] = "accepted") /\ (Dispatched(p)' <=> Dispatched(p))
      BY <1>1, <2>2 DEF TypeOK, Attempt, GateFails, StartedLost, ReceiptFails, Dispatched
    <2>3. CASE call' = call
      BY <2>3 DEF Dispatched
    <2> QED BY <2>1, <2>2, <2>3 DEF AuthorityChanges, RunMoves, executor
  <1> QED BY <1>2, <1>3, <1>4, HostUntouched

\* What the host publishes, closes or lets expire, and what the executor is told of it.
LEMMA QuestionMoves ==
  ASSUME Inv,
         \/ OpenSession \/ PollAgain
         \/ \E o \in Ops : QueryGate(o) \/ CloseInvocation(o)
         \/ \E o \in Ops, k \in Kinds : Expire(o, k)
  PROVE  Inv'
  <1>0. TypeOK /\ binding \in [Ops -> [Kinds -> Binding]] /\ "inv" \in Kinds
    BY DEF Inv, TypeOK, Kinds
  <1> DEFINE Same == \A p \in Ops, j \in Kinds : /\ binding'[p][j].answer = binding[p][j].answer
                                                 /\ binding'[p][j].auth = binding[p][j].auth
                                                 /\ binding'[p][j].started = binding[p][j].started
             Typed == binding' \in [Ops -> [Kinds -> Binding]]
  <1>1. ASSUME OpenSession \/ PollAgain PROVE Inv'
    <2>1. Typed /\ Same
      BY <1>0, <1>1, PublishedKeeps DEF OpenSession, PollAgain
    <2>2. ASSUME NEW o \in Ops PROVE Fact(o) \in Outcomes
      BY <1>0 DEF Fact, TypeOK, Outcomes
    <2>3. TypeOK'
      BY <1>0, <1>1, <2>1, <2>2 DEF TypeOK, OpenSession, PollAgain, executor
    <2>4. \A o \in Ops : facts'[o] = facts[o] \/ facts'[o] = Fact(o)
      BY <1>1 DEF OpenSession, PollAgain, executor
    <2>5. UNCHANGED <<outcome, reference, recorded, effects, call>>
      BY <1>1 DEF OpenSession, PollAgain, executor
    <2> HIDE DEF Typed
    <2> QED BY <2>1, <2>3, <2>4, <2>5, AnswersUntouched DEF Dispatched
  <1>2. ASSUME NEW o \in Ops, QueryGate(o) PROVE Inv'
    <2> DEFINE q == Queried(o, binding[o]["inv"])
    <2>1. q \in Binding /\ q.answer = binding[o]["inv"].answer /\ q.auth = binding[o]["inv"].auth
          /\ q.started = binding[o]["inv"].started
      BY <1>0, QueriedKeeps
    <2>2. binding' = binding \/ binding' = [binding EXCEPT ![o]["inv"] = q]
      BY <1>2 DEF QueryGate
    <2> HIDE DEF q
    <2>3. Typed /\ Same
      BY <1>0, <2>1, <2>2
    <2>4. \E c \in {"gate", "starting", "denied"} : call' = [call EXCEPT ![o] = c]
      BY <1>2 DEF QueryGate
    <2>5. TypeOK'
      BY <1>0, <1>2, <2>3, <2>4 DEF TypeOK, QueryGate
    <2>6. UNCHANGED <<outcome, reference, recorded, effects, facts>> /\ call[o] = "gate"
      BY <1>2 DEF QueryGate
    <2>7. ASSUME NEW p \in Ops
          PROVE  (call'[p] = "accepted" => call[p] = "accepted") /\ (Dispatched(p)' <=> Dispatched(p))
      BY <1>0, <2>4, <2>6 DEF TypeOK, Dispatched
    <2> HIDE DEF Typed
    <2> QED BY <2>3, <2>5, <2>6, <2>7, AnswersUntouched
  <1>3. ASSUME NEW o \in Ops, NEW k \in Kinds, CloseInvocation(o) \/ Expire(o, k) PROVE Inv'
    <2>1. \E j \in Kinds : \E b \in {[binding[o][j] EXCEPT !.closed = TRUE],
                                     [binding[o][j] EXCEPT !.expired = TRUE]} :
            binding' = [binding EXCEPT ![o][j] = b]
      BY <1>0, <1>3 DEF CloseInvocation, Expire
    <2>2. Typed /\ Same
      <3>1. PICK j \in Kinds : \E b \in {[binding[o][j] EXCEPT !.closed = TRUE],
                                         [binding[o][j] EXCEPT !.expired = TRUE]} :
              binding' = [binding EXCEPT ![o][j] = b]
        BY <2>1
      <3>2. PICK b \in {[binding[o][j] EXCEPT !.closed = TRUE],
                        [binding[o][j] EXCEPT !.expired = TRUE]} :
              binding' = [binding EXCEPT ![o][j] = b]
        BY <3>1
      <3>3. /\ b \in Binding /\ b.answer = binding[o][j].answer /\ b.auth = binding[o][j].auth
            /\ b.started = binding[o][j].started
        <4>1. binding[o][j] \in Binding
          BY <1>0
        <4> QED BY ONLY <3>2, <4>1 DEF Binding
      <3> QED BY <1>0, <3>2, <3>3
    <2>3. UNCHANGED <<run, confirmable, outcome, reference, recorded, executor>>
      BY <1>3 DEF CloseInvocation, Expire
    <2>4. TypeOK'
      BY <1>0, <2>2, <2>3 DEF TypeOK, executor
    <2>5. UNCHANGED <<effects, facts, call>>
      BY <2>3 DEF executor
    <2> HIDE DEF Typed
    <2> QED BY <2>2, <2>3, <2>4, <2>5, AnswersUntouched DEF Dispatched
  <1> QED BY <1>0, <1>1, <1>2, <1>3

\* The start of a call is recorded only with its permission, computed under the locks.
LEMMA StartKeeps ==
  ASSUME Inv, NEW o \in Ops, MayStart(o), Start(o), TypeOK',
         UNCHANGED <<facts, effects>>,
         \A p \in Ops \ {o} : call'[p] = call[p],
         call'[o] = "accepted" \/ call'[o] = call[o],
         ~Dispatched(o) \/ call'[o] = call[o]
  PROVE  Inv'
  <1>0. TypeOK /\ binding[o]["inv"] \in Binding /\ "inv" \in Kinds /\ "src" \in Kinds
    BY DEF Inv, TypeOK, Kinds
  <1>1. binding[o]["inv"].answer \in {"o2", "o3"}
    <2>1. CASE binding[o]["inv"].started
      BY <2>1 DEF Inv, OpInv, AnswerPermits
    <2>2. CASE Permission(o, binding[o]["inv"]) = "allow"
      BY <2>2 DEF Permission, Inv, OpInv, AnswerPermits
    <2> QED BY <2>1, <2>2 DEF MayStart
  <1>2. /\ binding'[o]["inv"].started = TRUE
        /\ \A p \in Ops, k \in Kinds : /\ binding'[p][k].answer = binding[p][k].answer
                                       /\ binding'[p][k].auth = binding[p][k].auth
        /\ \A p \in Ops \ {o} : binding'[p] = binding[p]
    <2>1. binding' = [binding EXCEPT ![o]["inv"] = [binding[o]["inv"] EXCEPT !.started = TRUE]]
      BY DEF Start
    <2>2. binding \in [Ops -> [Kinds -> Binding]]
      BY <1>0 DEF TypeOK
    <2> DEFINE b == [binding[o]["inv"] EXCEPT !.started = TRUE]
    <2>3. b.started = TRUE /\ b.answer = binding[o]["inv"].answer /\ b.auth = binding[o]["inv"].auth
      BY ONLY <1>0 DEF Binding
    <2> HIDE DEF b
    <2> QED BY <1>0, <2>1, <2>2, <2>3
  <1>3. recorded'[o] # "none" /\ \A p \in Ops \ {o} : recorded'[p] = recorded[p]
    BY <1>0 DEF Start, TypeOK
  <1> SUFFICES ASSUME NEW p \in Ops PROVE OpInv(p)'
    BY DEF Inv
  <1>4. OpInv(p) /\ UNCHANGED <<outcome, reference>>
    BY DEF Inv, Start
  <1>5. OutcomeAnswered(p)' /\ FactAnswered(p)'
    BY <1>0, <1>2, <1>4 DEF OpInv, OutcomeAnswered, FactAnswered
  <1>6. AnswerPermits(p)'
    BY <1>0, <1>1, <1>2, <1>3, <1>4 DEF OpInv, AnswerPermits
  <1>7. StartOnRecord(p)'
    <2>1. CASE p = o
      <3>1. binding'[p]["inv"].started
        BY <1>2, <2>1
      <3>2. Dispatched(p)' <=> Dispatched(p)
        BY <2>1 DEF Dispatched
      <3> QED BY <1>4, <3>1, <3>2 DEF OpInv, StartOnRecord
    <2>2. CASE p # o
      <3>1. binding'[p] = binding[p] /\ call'[p] = call[p] /\ effects'[p] = effects[p]
        BY <1>2, <2>2
      <3> QED BY <1>4, <3>1 DEF OpInv, StartOnRecord, Dispatched
    <2> QED BY <2>1, <2>2
  <1> QED BY <1>5, <1>6, <1>7 DEF OpInv

\* A step of one call that reads and writes no row but the record of that call.
LEMMA CallKeeps ==
  ASSUME Inv, NEW o \in Ops, TypeOK',
         UNCHANGED <<outcome, reference, binding, facts>>,
         \A p \in Ops \ {o} : /\ recorded'[p] = recorded[p] /\ call'[p] = call[p]
                              /\ effects'[p] = effects[p],
         recorded[o] # "none" => recorded'[o] # "none",
         StartOnRecord(o)'
  PROVE  Inv'
  <1> SUFFICES ASSUME NEW p \in Ops PROVE OpInv(p)'
    BY DEF Inv
  <1>1. OpInv(p) /\ (p # o => recorded'[p] = recorded[p])
    BY DEF Inv
  <1>2. OutcomeAnswered(p)' /\ FactAnswered(p)'
    BY <1>1 DEF OpInv, OutcomeAnswered, FactAnswered
  <1>3. AnswerPermits(p)'
    BY <1>1 DEF OpInv, AnswerPermits
  <1>4. StartOnRecord(p)'
    BY <1>1 DEF OpInv, StartOnRecord, Dispatched
  <1> QED BY <1>2, <1>3, <1>4 DEF OpInv

\* The call on its way: its start, its dispatch and its result.
LEMMA CallMoves ==
  ASSUME Inv, NEW o \in Ops,
         \/ PostStarted(o) \/ StrayStarted(o) \/ Admit(o)
         \/ \E s \in {"completed", "failed"} : ToolReturns(o, s)
  PROVE  Inv'
  <1>0. TypeOK /\ OpInv(o)
    BY DEF Inv
  <1>1. ASSUME MayStart(o), Start(o), PostStarted(o) \/ StrayStarted(o)
        PROVE  Inv'
    <2>1. binding' \in [Ops -> [Kinds -> Binding]]
      <3>1. binding \in [Ops -> [Kinds -> Binding]] /\ "inv" \in Kinds
        BY <1>0 DEF TypeOK, Kinds
      <3> DEFINE b == [binding[o]["inv"] EXCEPT !.started = TRUE]
      <3>2. b \in Binding
        <4>1. binding[o]["inv"] \in Binding
          BY <3>1
        <4> QED BY ONLY <4>1 DEF Binding
      <3>3. binding' = [binding EXCEPT ![o]["inv"] = b]
        BY <1>1 DEF Start
      <3> HIDE DEF b
      <3> QED BY <3>1, <3>2, <3>3
    <2>2. call' = call \/ (call[o] = "starting" /\ call' = [call EXCEPT ![o] = "accepted"])
      <3>1. CASE PostStarted(o)
        BY <1>1, <3>1 DEF PostStarted
      <3>2. CASE StrayStarted(o)
        BY <3>2 DEF StrayStarted
      <3> QED BY <1>1, <3>1, <3>2
    <2>3. TypeOK'
      BY <1>0, <1>1, <2>1, <2>2 DEF TypeOK, Start, PostStarted, StrayStarted
    <2>4. UNCHANGED <<facts, effects>>
      BY <1>1 DEF PostStarted, StrayStarted
    <2>5. /\ \A p \in Ops \ {o} : call'[p] = call[p]
          /\ call'[o] = "accepted" \/ call'[o] = call[o]
          /\ ~Dispatched(o) \/ call'[o] = call[o]
      BY <1>0, <2>2 DEF TypeOK, Dispatched
    <2> QED BY <1>1, <2>3, <2>4, <2>5, StartKeeps
  <1>2. ASSUME ~MayStart(o), PostStarted(o) \/ StrayStarted(o) PROVE Inv'
    <2>1. UNCHANGED <<host, facts, effects>> /\ (call' = call \/ call' = [call EXCEPT ![o] = "denied"])
          /\ (call' # call => call[o] = "starting")
      BY <1>2 DEF PostStarted, StrayStarted
    <2>2. TypeOK'
      BY <1>0, <1>2, <2>1 DEF TypeOK, host, PostStarted, StrayStarted
    <2>3. \A p \in Ops : /\ call'[p] = "accepted" => call[p] = "accepted"
                         /\ Dispatched(p)' <=> Dispatched(p)
      BY <1>0, <2>1 DEF TypeOK, Dispatched
    <2> QED BY <2>1, <2>2, <2>3, HostUntouched
  <1>3. CASE Admit(o)
    <2>1. call[o] = "accepted" /\ binding[o]["inv"].started /\ effects[o] = 0
      BY <1>0, <1>3 DEF Admit, OpInv, StartOnRecord, Dispatched
    <2>2. TypeOK'
      BY <1>0, <1>3 DEF TypeOK, Admit, host
    <2>3. StartOnRecord(o)'
      BY <1>0, <1>3, <2>1 DEF TypeOK, Admit, host, StartOnRecord, Dispatched
    <2>4. \A p \in Ops \ {o} : recorded'[p] = recorded[p] /\ call'[p] = call[p] /\ effects'[p] = effects[p]
      BY <1>0, <1>3 DEF TypeOK, Admit, host
    <2>5. UNCHANGED <<outcome, reference, binding, facts, recorded>>
      BY <1>3 DEF Admit, host
    <2> QED BY <2>1, <2>2, <2>3, <2>4, <2>5, CallKeeps
  <1>4. ASSUME NEW s \in {"completed", "failed"}, ToolReturns(o, s) PROVE Inv'
    <2>1. call[o] = "dispatched" /\ binding[o]["inv"].started /\ effects[o] = 1
      BY <1>0, <1>4 DEF ToolReturns, OpInv, StartOnRecord, Dispatched
    <2>2. TypeOK'
      <3>1. call' \in [Ops -> {"idle", "gate", "starting", "accepted", "dispatched",
                               "completed", "failed", "denied"}]
        BY <1>0, <1>4 DEF TypeOK, ToolReturns
      <3>2. recorded' \in [Ops -> {"none", "started", "completed", "failed"}]
        BY <1>0, <1>4 DEF TypeOK, ToolReturns
      <3>3. rejected' \in BOOLEAN
        BY <1>0, <1>4, Zenon DEF TypeOK, ToolReturns
      <3> QED BY <1>0, <1>4, <3>1, <3>2, <3>3 DEF TypeOK, ToolReturns
    <2>3. StartOnRecord(o)'
      BY <1>0, <1>4, <2>1 DEF TypeOK, ToolReturns, StartOnRecord, Dispatched
    <2>4. /\ \A p \in Ops \ {o} : /\ recorded'[p] = recorded[p] /\ call'[p] = call[p]
                                  /\ effects'[p] = effects[p]
          /\ recorded[o] # "none" => recorded'[o] # "none"
      BY <1>0, <1>4 DEF TypeOK, ToolReturns
    <2>5. UNCHANGED <<outcome, reference, binding, facts>>
      BY <1>4 DEF ToolReturns
    <2> QED BY <2>1, <2>2, <2>3, <2>4, <2>5, CallKeeps
  <1> QED BY <1>1, <1>2, <1>3, <1>4 DEF PostStarted, StrayStarted

\* The owner answers.
LEMMA AnswerKeeps ==
  ASSUME Inv, NEW o \in Ops, NEW k \in Kinds, NEW x \in Options, AnswerQuestion(o, k, x)
  PROVE  Inv'
  <1> DEFINE old == binding[o][k]
             new == [old EXCEPT !.answer = x, !.auth = Authorization(o, k, x)]
  <1>0. TypeOK /\ binding \in [Ops -> [Kinds -> Binding]] /\ old \in Binding
        /\ "inv" \in Kinds /\ "src" \in Kinds /\ OpInv(o)
    BY DEF Inv, TypeOK, Kinds
  <1>1. /\ old.answer = "none" /\ ~old.started
        /\ outcome' = [outcome EXCEPT ![o] = Verified(o, x)]
        /\ reference' = [reference EXCEPT
             ![o] = IF x \in {"o1", "o2"} /\ outcome[o] # "succeeded" THEN k ELSE @]
        /\ binding' = [binding EXCEPT ![o][k] = new]
        /\ UNCHANGED <<run, confirmable, recorded, executor>>
    BY DEF AnswerQuestion
  <1>2. Verified(o, x) \in Outcomes /\ Authorization(o, k, x) \in {"hold", "retry", "current_invocation"}
    BY <1>0 DEF Verified, Authorization, TypeOK, Outcomes
  <1>3. /\ new \in Binding /\ new.answer = x /\ new.auth = Authorization(o, k, x)
        /\ new.started = old.started
    BY ONLY <1>0, <1>2, x \in Options DEF Binding
  <1> HIDE DEF new
  <1>4. /\ binding' \in [Ops -> [Kinds -> Binding]]
        /\ binding'[o][k] = new
        /\ \A p \in Ops, j \in Kinds : <<p, j>> # <<o, k>> => binding'[p][j] = binding[p][j]
    BY <1>0, <1>1, <1>3
  <1>5. TypeOK'
    BY <1>0, <1>1, <1>2, <1>4 DEF TypeOK, executor
  <1> SUFFICES ASSUME NEW p \in Ops PROVE OpInv(p)'
    BY <1>5 DEF Inv
  <1>6. OpInv(p) /\ UNCHANGED <<recorded, facts, call, effects>>
    BY <1>1 DEF Inv, executor
  <1>7. \A j \in Kinds : binding'[p][j].started = binding[p][j].started
    BY <1>3, <1>4
  <1>8. StartOnRecord(p)'
    BY <1>0, <1>6, <1>7 DEF OpInv, StartOnRecord, Dispatched
  <1>9. FactAnswered(p)'
    BY <1>0, <1>1, <1>4, <1>6 DEF OpInv, FactAnswered
  <1>10. AnswerPermits(p)'
    <2>1. CASE p = o /\ k = "inv"
      <3>1. new.auth = "retry" => x = "o2"
        BY <1>3, <2>1 DEF Authorization
      <3>2. new.auth = "current_invocation" => x = "o3"
        BY <1>3, <2>1 DEF Authorization
      <3> QED BY <1>1, <1>3, <1>4, <2>1, <3>1, <3>2 DEF AnswerPermits
    <2>2. CASE ~(p = o /\ k = "inv")
      <3>1. binding'[p]["inv"] = binding[p]["inv"]
        BY <1>0, <1>4, <2>2
      <3> QED BY <1>6, <3>1 DEF OpInv, AnswerPermits
    <2> QED BY <2>1, <2>2
  <1>11. OutcomeAnswered(p)'
    <2>1. CASE p # o
      <3>1. outcome'[p] = outcome[p] /\ reference'[p] = reference[p] /\ \A j \in Kinds : binding'[p][j] = binding[p][j]
        BY <1>0, <1>1, <1>4, <2>1 DEF TypeOK
      <3> QED BY <1>6, <3>1 DEF OpInv, OutcomeAnswered
    <2>2. CASE p = o /\ x \in {"o1", "o2"} /\ outcome[o] # "succeeded"
      <3>1. outcome'[o] = Verified(o, x) /\ reference'[o] = k /\ binding'[o][k].answer = x
        BY <1>0, <1>1, <1>3, <1>4, <2>2 DEF TypeOK
      <3>2. Verified(o, x) = IF x = "o1" THEN "succeeded" ELSE "not_effective"
        BY <2>2 DEF Verified
      <3> QED BY <2>2, <3>1, <3>2 DEF OutcomeAnswered
    <2>3. CASE p = o /\ ~(x \in {"o1", "o2"} /\ outcome[o] # "succeeded")
      <3>0. Verified(o, x) = outcome[o]
        BY <2>3 DEF Verified
      <3>1. outcome'[o] = outcome[o] /\ reference'[o] = reference[o]
        BY <1>0, <1>1, <2>3, <3>0 DEF TypeOK
      <3>2. outcome[o] # "unknown" => reference[o] \in Kinds /\ reference[o] # k
        BY <1>0, <1>1 DEF OpInv, OutcomeAnswered
      <3>3. outcome[o] # "unknown" => binding'[o][reference[o]] = binding[o][reference[o]]
        BY <1>4, <3>2
      <3> QED BY <1>0, <2>3, <3>1, <3>2, <3>3 DEF OpInv, OutcomeAnswered
    <2> QED BY <2>1, <2>2, <2>3
  <1> QED BY <1>8, <1>9, <1>10, <1>11 DEF OpInv

-----------------------------------------------------------------------------
(* The results.                                                            *)

\* Inv holds in every state of the gate.
THEOREM RecoveryInvariance == Spec => []Inv
  <1>1. Inv /\ [Next]_vars => Inv'
    <2> SUFFICES ASSUME Inv, [Next]_vars PROVE Inv'
      OBVIOUS
    <2>1. CASE \/ ExecutorStops
               \/ \E o \in Ops : \/ Attempt(o) \/ GateFails(o) \/ StartedLost(o) \/ ReceiptFails(o)
                                 \/ AuthorityChanges(o)
               \/ \E s \in {"cancelling", "ended"} : RunMoves(s)
      BY <2>1, ExecutorMoves
    <2>2. CASE \/ OpenSession \/ PollAgain
               \/ \E o \in Ops : QueryGate(o) \/ CloseInvocation(o)
               \/ \E o \in Ops, k \in Kinds : Expire(o, k)
      BY <2>2, QuestionMoves
    <2>3. ASSUME NEW o \in Ops,
                 \/ PostStarted(o) \/ StrayStarted(o) \/ Admit(o)
                 \/ \E s \in {"completed", "failed"} : ToolReturns(o, s)
          PROVE  Inv'
      BY <2>3, CallMoves
    <2>4. ASSUME NEW o \in Ops, NEW k \in Kinds, NEW x \in Options, AnswerQuestion(o, k, x)
          PROVE  Inv'
      BY <2>4, AnswerKeeps
    <2>5. CASE UNCHANGED vars
      <3>1. UNCHANGED <<host, facts, effects, call>> /\ TypeOK'
        BY <2>5 DEF vars, host, Inv, TypeOK
      <3> QED BY <3>1, HostUntouched DEF Dispatched
    <2> QED BY <2>1, <2>2, <2>3, <2>4, <2>5 DEF Next
  <1> QED BY <1>1, InitInv, PTL DEF Spec

\* A repeated write was dispatched at most once, on its owner's own word and with its start
\* on record, for any number of interrupted writes.
THEOREM OnlyOnOwnersWord == Spec => []OwnerSaidSo
  <1>1. Inv => OwnerSaidSo
    <2> SUFFICES ASSUME Inv, NEW o \in Ops
                 PROVE  /\ effects[o] > 0 => /\ effects[o] = 1
                                             /\ binding[o]["inv"].answer \in {"o2", "o3"}
                                             /\ recorded[o] # "none"
                        /\ outcome[o] # "unknown" =>
                             reference[o] # "none" /\ binding[o][reference[o]].answer =
                               (IF outcome[o] = "succeeded" THEN "o1" ELSE "o2")
                        /\ facts[o] # "unknown" => binding[o]["src"].answer \in {"o1", "o2"}
      BY DEF OwnerSaidSo
    <2>1. OpInv(o)
      BY DEF Inv
    <2> QED BY <2>1 DEF OpInv, AnswerPermits, StartOnRecord, OutcomeAnswered, FactAnswered, Kinds
  <1> QED BY <1>1, RecoveryInvariance, PTL

\* A confirmed success is never taken back and permits no further start, whatever answers
\* and start requests are still on their way.
THEOREM CompletedIsFinal == Spec => CompletedStaysCompleted
  <1>1. Inv /\ [Next]_vars => [KeepsCompleted]_vars
    <2> SUFFICES ASSUME Inv, Next, NEW p \in Ops, outcome[p] = "succeeded"
                 PROVE  outcome'[p] = "succeeded" /\ binding'[p]["inv"].started = binding[p]["inv"].started
      BY DEF KeepsCompleted
    <2> DEFINE Kept == /\ outcome'[p] = "succeeded"
                       /\ binding'[p]["inv"].started = binding[p]["inv"].started
    <2>0. /\ TypeOK /\ outcome \in [Ops -> Outcomes] /\ binding \in [Ops -> [Kinds -> Binding]]
          /\ "inv" \in Kinds /\ "src" \in Kinds
      BY DEF Inv, TypeOK, Kinds
    <2>1. ASSUME UNCHANGED <<outcome, binding>> PROVE Kept
      BY <2>1
    <2>2. CASE OpenSession \/ PollAgain
      BY <2>0, <2>2, PublishedKeeps DEF OpenSession, PollAgain
    <2>3. ASSUME NEW o \in Ops, QueryGate(o) PROVE Kept
      <3> DEFINE q == Queried(o, binding[o]["inv"])
      <3>1. q.started = binding[o]["inv"].started
        BY <2>0, QueriedKeeps
      <3>2. binding' = binding \/ binding' = [binding EXCEPT ![o]["inv"] = q]
        BY <2>3 DEF QueryGate
      <3>3. outcome' = outcome
        BY <2>3 DEF QueryGate
      <3> HIDE DEF q
      <3> QED BY <2>0, <3>1, <3>2, <3>3
    <2>4. ASSUME NEW o \in Ops, MayStart(o), Start(o) PROVE Kept
      <3>1. outcome' = outcome /\ binding' = [binding EXCEPT ![o]["inv"].started = TRUE]
        BY <2>4 DEF Start
      <3>2. binding[o]["inv"] \in Binding
        BY <2>0
      <3>3. p = o => binding[o]["inv"].started = TRUE
        BY <2>4, <3>2 DEF MayStart, Permission, Binding
      <3>4. p # o => binding'[p] = binding[p]
        BY <2>0, <3>1
      <3>5. binding'[o]["inv"].started = TRUE
        BY <2>0, <3>1, <3>2 DEF Binding
      <3> QED BY <3>1, <3>3, <3>4, <3>5
    <2>5. ASSUME NEW o \in Ops, CloseInvocation(o) PROVE Kept
      <3>1. outcome' = outcome /\ binding' = [binding EXCEPT ![o]["inv"].closed = TRUE]
        BY <2>5 DEF CloseInvocation
      <3>2. binding[o]["inv"] \in Binding
        BY <2>0
      <3> QED BY <2>0, <3>1, <3>2 DEF Binding
    <2>6. ASSUME NEW o \in Ops, NEW k \in Kinds, Expire(o, k) PROVE Kept
      <3>1. outcome' = outcome /\ binding' = [binding EXCEPT ![o][k].expired = TRUE]
        BY <2>6 DEF Expire
      <3>2. binding[o][k] \in Binding
        BY <2>0
      <3> QED BY <2>0, <3>1, <3>2 DEF Binding
    <2>7. ASSUME NEW o \in Ops, NEW k \in Kinds, NEW x \in Options, AnswerQuestion(o, k, x)
          PROVE  Kept
      <3>1. /\ outcome' = [outcome EXCEPT ![o] = Verified(o, x)]
            /\ binding' = [binding EXCEPT ![o][k] = [binding[o][k] EXCEPT !.answer = x,
                                                       !.auth = Authorization(o, k, x)]]
        BY <2>7 DEF AnswerQuestion
      <3>2. binding[o][k] \in Binding
        BY <2>0
      <3>3. p = o => Verified(o, x) = "succeeded"
        BY DEF Verified
      <3>4. outcome'[p] = "succeeded"
        BY <2>0, <3>1, <3>3
      <3> DEFINE b == [binding[o][k] EXCEPT !.answer = x, !.auth = Authorization(o, k, x)]
      <3>5. b.started = binding[o][k].started
        BY ONLY <3>2 DEF Binding
      <3> HIDE DEF b
      <3>6. binding'[p]["inv"].started = binding[p]["inv"].started
        BY <2>0, <3>1, <3>5
      <3> QED BY <3>4, <3>6
    <2>8. ASSUME NEW o \in Ops, PostStarted(o) \/ StrayStarted(o) PROVE Kept
      BY <2>1, <2>4, <2>8 DEF PostStarted, StrayStarted, host
    <2>9. CASE \/ ExecutorStops
               \/ \E o \in Ops : \/ Attempt(o) \/ GateFails(o) \/ StartedLost(o) \/ ReceiptFails(o)
                                 \/ AuthorityChanges(o) \/ Admit(o)
                                 \/ \E s \in {"completed", "failed"} : ToolReturns(o, s)
               \/ \E s \in {"cancelling", "ended"} : RunMoves(s)
      <3>1. UNCHANGED <<outcome, binding>>
        BY <2>9 DEF ExecutorStops, Attempt, GateFails, StartedLost, ReceiptFails, AuthorityChanges,
                    Admit, ToolReturns, RunMoves, host
      <3> QED BY <2>1, <3>1
    <2> QED BY <2>2, <2>3, <2>5, <2>6, <2>7, <2>8, <2>9 DEF Next
  <1> QED BY <1>1, RecoveryInvariance, PTL DEF Spec, CompletedStaysCompleted

=============================================================================
