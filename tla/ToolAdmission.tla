---------------------------- MODULE ToolAdmission -----------------------------
(* app/executors/claude_agent_sdk_runner.py: the hooks run_claude_agent_sdk   *)
(* gives the SDK.  PreToolUse admits a call after its policy decision, its    *)
(* evidence and its public event were acknowledged; PostToolUse and           *)
(* PostToolUseFailure record how it ended.  Every acknowledgement is awaited, *)
(* so the hooks of concurrent calls interleave.  After a write whose outcome  *)
(* is not known no further write is admitted, and the run's result says what  *)
(* is known of its calls.                                                     *)
EXTENDS Naturals, FiniteSets

CONSTANTS Calls, MaxFaults, MaxOdd

VARIABLES kind,      \* [Calls -> Kinds]
          same,      \* the calls have the same tool and arguments
          hook,      \* [Calls -> [pc, phase]] the hook that runs for the call
          inv,       \* capability / lifecycle invocation states
          exec,      \* mcp_execution_states
          bound,     \* [tracked, errors, confirmed]: returned errors of calls
          flag,      \* the run's sticky failures
          world,     \* what the tool really did
          ledger,    \* acknowledged facts <<call, phase>>
          result,    \* the run's result
          budget

vars == <<kind, same, hook, inv, exec, bound, flag, world, ledger, result, budget>>

Capability == {"write", "read", "skill"}
Mcp == {"write", "read"}
Kinds == Capability \cup {"required", "strict", "readonly"}
Quiet == [pc |-> "idle", phase |-> "none"]
NoResult == [error |-> "open", unknown |-> FALSE]
NoFlag == [evidence |-> FALSE, builtin |-> FALSE, readonly |-> FALSE,
           conflict |-> FALSE, callback |-> FALSE]

TypeOK ==
  /\ kind \in [Calls -> Kinds] /\ same \in BOOLEAN
  /\ hook \in [Calls -> [pc : {"idle", "policy", "evidence", "publish", "allowed", "denied",
                               "sdkDenied", "over"},
                         phase : {"none", "requested", "completed", "failed", "denial"}]]
  /\ inv \in [Calls -> {"none", "requested", "completed", "failed", "rejected"}]
  /\ exec \in [Calls -> {"none", "admitted", "completed", "failed"}]
  /\ bound \in [tracked : SUBSET Calls, errors : SUBSET Calls, confirmed : SUBSET Calls]
  /\ flag \in [{"evidence", "builtin", "readonly", "conflict", "callback"} -> BOOLEAN]
  /\ world \in [Calls -> {"none", "running", "done", "error", "lost"}]
  /\ ledger \subseteq Calls \X {"requested", "completed", "failed"}
  /\ result \in [error : {"open", "closing", "none", "mismatch", "missing", "callback", "admission",
                          "unknown", "incomplete", "failed", "cancelled"}, unknown : BOOLEAN]
  /\ budget \in [faults : 0..MaxFaults, odd : 0..MaxOdd]

Init ==
  /\ kind \in [Calls -> Kinds] /\ same \in BOOLEAN
  /\ (same => \A c, d \in Calls : kind[c] = kind[d])
  /\ hook = [c \in Calls |-> Quiet] /\ inv = [c \in Calls |-> "none"]
  /\ exec = [c \in Calls |-> "none"]
  /\ bound = [tracked |-> {}, errors |-> {}, confirmed |-> {}]
  /\ flag = NoFlag /\ world = [c \in Calls |-> "none"] /\ ledger = {}
  /\ result = NoResult /\ budget = [faults |-> 0, odd |-> 0]

Live == result.error = "open"
To(c, pc) == hook' = [hook EXCEPT ![c].pc = pc]
Gone(c) == hook' = [hook EXCEPT ![c].pc = IF hook[c].phase = "requested" THEN "denied" ELSE "over"]
Faulty == budget.faults < MaxFaults
Hit == budget' = [budget EXCEPT !.faults = @ + 1]

-----------------------------------------------------------------------------
(* What is not known about external writes.                                   *)
WriteUnconfirmed(e, f, b) ==
  \/ f.conflict \/ f.evidence \/ f.callback
  \/ \E c \in Calls : kind[c] = "write" /\ e[c] = "failed" /\ c \notin b.confirmed

Unconfirmed == WriteUnconfirmed(exec, flag, bound)

(* The SDK asks for a call: the policy decides, and its decision is published *)
(* before anything else.                                                      *)
PreToolUse(c) ==
  /\ Live /\ hook[c] = Quiet
  /\ \E allowed \in BOOLEAN :
       hook' = [hook EXCEPT ![c] = [pc |-> "policy",
         phase |-> IF allowed /\ ~(kind[c] = "write" /\ Unconfirmed) THEN "requested" ELSE "none"]]
  /\ UNCHANGED <<kind, same, inv, exec, bound, flag, world, ledger, result, budget>>

(* publish_agent_candidates: after one failure nothing is published.          *)
PublishFails ==
  \/ flag.callback /\ UNCHANGED <<flag, budget>>
  \/ ~flag.callback /\ Faulty /\ Hit /\ flag' = [flag EXCEPT !.callback = TRUE]

(* The lifecycle is valid when a request comes first and one end follows it.  *)
InOrder(c, phase) ==
  IF phase = "requested" THEN inv[c] = "none" ELSE inv[c] = "requested"

(* The sticky failure a lost or disordered fact of the call leaves.           *)
Denial(c) ==
  CASE kind[c] \in Capability -> "evidence"
    [] kind[c] = "readonly" -> "readonly"
    [] OTHER -> "builtin"

Leave(c, pc) == hook' = [hook EXCEPT ![c] = [pc |-> pc, phase |-> "none"]]

(* The evidence or lifecycle fact is sent and its acknowledgement awaited; f  *)
(* is the flags as the caller leaves them.                                    *)
BeginEvidence(c, phase, f) ==
  LET gone == IF phase = "requested" THEN "denied" ELSE "over" IN
  IF kind[c] \in Capability /\ f.evidence
  THEN Leave(c, gone) /\ flag' = f /\ UNCHANGED inv
  ELSE IF InOrder(c, phase)
  THEN /\ hook' = [hook EXCEPT ![c] = [pc |-> "evidence", phase |-> phase]]
       /\ flag' = f /\ UNCHANGED inv
  ELSE /\ Leave(c, gone) /\ flag' = [f EXCEPT ![Denial(c)] = TRUE]
       /\ inv' = IF kind[c] \in Capability THEN inv ELSE [inv EXCEPT ![c] = "rejected"]

(* The policy decision is published; a denied call ends here.  The evidence   *)
(* of an admitted one is sent whether or not this was acknowledged.           *)
PolicyPublished(c) ==
  /\ hook[c].pc = "policy"
  /\ IF hook[c].phase = "none"
     THEN \/ ~flag.callback /\ To(c, "denied") /\ UNCHANGED <<inv, flag, budget>>
          \/ PublishFails /\ To(c, "denied") /\ UNCHANGED inv
     ELSE \/ BeginEvidence(c, "requested", flag) /\ UNCHANGED budget
          \/ /\ ~flag.callback /\ Faulty /\ Hit
             /\ BeginEvidence(c, "requested", [flag EXCEPT !.callback = TRUE])
  /\ UNCHANGED <<kind, same, exec, bound, world, ledger, result>>

(* record_capability_evidence, record_tool_lifecycle after the await.         *)
Recorded(c) ==
  /\ hook[c].pc = "evidence"
  /\ LET phase == IF hook[c].phase = "denial" THEN "failed" ELSE hook[c].phase IN
     \/ /\ ~(kind[c] \in Capability /\ flag.evidence)
        /\ inv' = [inv EXCEPT ![c] = phase]
        /\ ledger' = ledger \cup {<<c, phase>>}
        /\ IF kind[c] = "required" /\ phase = "failed"
           THEN flag' = [flag EXCEPT !.builtin = TRUE] /\ To(c, "over")
           ELSE /\ To(c, IF hook[c].phase = "denial" THEN "over" ELSE "publish")
                /\ UNCHANGED flag
        /\ UNCHANGED budget
     \/ /\ kind[c] \in Capability /\ flag.evidence /\ Gone(c)
        /\ UNCHANGED <<inv, ledger, flag, budget>>
     \/ /\ Faulty /\ Hit /\ Gone(c) /\ UNCHANGED ledger
        /\ flag' = [flag EXCEPT ![Denial(c)] = TRUE]
        /\ inv' = IF kind[c] \in {"required", "strict"} THEN [inv EXCEPT ![c] = "rejected"] ELSE inv
  /\ UNCHANGED <<kind, same, exec, bound, world, result>>

-----------------------------------------------------------------------------
(* Without the second look: the admission of PreToolUse stands.               *)
AdmitBlind(c) ==
  /\ exec' = IF kind[c] \in Mcp THEN [exec EXCEPT ![c] = "admitted"] ELSE exec
  /\ bound' = IF kind[c] \in Mcp THEN [bound EXCEPT !.tracked = @ \cup {c}] ELSE bound
  /\ To(c, "allowed")

(* The call gets its authority unless a write failed while this admission     *)
(* waited; its arguments stay tracked either way.                             *)
Admit(c) ==
  LET e == IF kind[c] \in Mcp THEN [exec EXCEPT ![c] = "admitted"] ELSE exec IN
  /\ bound' = IF kind[c] \in Mcp THEN [bound EXCEPT !.tracked = @ \cup {c}] ELSE bound
  /\ IF kind[c] = "write" /\ Unconfirmed
     THEN exec' = [exec EXCEPT ![c] = "none"] /\ To(c, "denied")
     ELSE exec' = e /\ To(c, "allowed")

(* The public event of the admission.                                         *)
PrePublished(c) ==
  /\ hook[c].pc = "publish" /\ hook[c].phase = "requested"
  /\ \/ ~flag.callback /\ Admit(c) /\ UNCHANGED <<flag, budget>>
     \/ PublishFails /\ Gone(c) /\ UNCHANGED <<exec, bound>>
  /\ UNCHANGED <<kind, same, inv, world, ledger, result>>

(* An error result is joined to the only call tracked with its tool and       *)
(* arguments, the first that matches.                                         *)
BindFirst(c) ==
  LET matching == {d \in bound.tracked : d = c \/ same} IN
  IF matching # {} THEN {CHOOSE d \in matching : TRUE} ELSE {}

(* call_selected_tool: identical concurrent calls prove nothing.              *)
Bind(c) ==
  LET matching == {d \in bound.tracked : d = c \/ same} IN
  IF Cardinality(matching) = 1 THEN matching ELSE {}

Execute(c) ==
  /\ Live /\ hook[c].pc = "allowed" /\ world[c] = "none"
  /\ world' = [world EXCEPT ![c] = "running"]
  /\ UNCHANGED <<kind, same, hook, inv, exec, bound, flag, ledger, result, budget>>

(* The tool returns, returns an error, or its answer is lost.                 *)
Ends(c, outcome) ==
  /\ Live /\ world[c] = "running"
  /\ world' = [world EXCEPT ![c] = outcome]
  /\ bound' = IF outcome = "error" /\ kind[c] \in Mcp
              THEN [bound EXCEPT !.errors = @ \cup Bind(c)] ELSE bound
  /\ UNCHANGED <<kind, same, hook, inv, exec, flag, ledger, result, budget>>

(* The SDK refuses a call the hook admitted, and reports that in its Result.  *)
SdkDenies(c) ==
  /\ Live /\ hook[c].pc = "allowed" /\ world[c] = "none" /\ To(c, "sdkDenied")
  /\ UNCHANGED <<kind, same, inv, exec, bound, flag, world, ledger, result, budget>>

(* PostToolUse or PostToolUseFailure, in exceptional cases for a call that    *)
(* was not admitted or a second time.                                         *)
PostToolUse(c) ==
  LET odd == ~(hook[c].pc = "allowed" /\ world[c] \in {"done", "error", "lost"})
      phase == IF world[c] \in {"error", "lost"} THEN "failed" ELSE "completed" IN
  /\ Live /\ hook[c].pc \in {"allowed", "denied", "over"}
  /\ IF odd THEN /\ budget.odd < MaxOdd /\ hook[c].pc # "allowed"
                 /\ budget' = [budget EXCEPT !.odd = @ + 1]
            ELSE UNCHANGED budget
  /\ IF kind[c] \in Mcp
     THEN /\ exec' = IF exec[c] = "none" THEN exec ELSE [exec EXCEPT ![c] = phase]
          /\ bound' = [bound EXCEPT !.tracked = @ \ {c}]
          /\ BeginEvidence(c, phase, [flag EXCEPT !.conflict = @ \/ exec[c] = "none"])
     ELSE BeginEvidence(c, phase, flag) /\ UNCHANGED <<exec, bound>>
  /\ UNCHANGED <<kind, same, world, ledger, result>>

(* The public event of the end; only then is a returned error confirmed.      *)
PostPublished(c) ==
  /\ hook[c].pc = "publish" /\ hook[c].phase \in {"completed", "failed"}
  /\ \/ /\ ~flag.callback /\ To(c, "over") /\ UNCHANGED <<flag, budget>>
        /\ bound' = IF hook[c].phase = "failed" /\ c \in bound.errors
                    THEN [bound EXCEPT !.confirmed = @ \cup {c}, !.errors = @ \ {c}] ELSE bound
     \/ PublishFails /\ Gone(c) /\ UNCHANGED bound
  /\ UNCHANGED <<kind, same, inv, exec, world, ledger, result>>

-----------------------------------------------------------------------------
(* The structured Result: its denials are reconciled before the stream ends.  *)
ResultMessage ==
  /\ Live /\ result' = [result EXCEPT !.error = "closing"]
  /\ UNCHANGED <<kind, same, hook, inv, exec, bound, flag, world, ledger, budget>>

ReconcileDenial(c) ==
  /\ result.error = "closing" /\ hook[c].pc = "sdkDenied"
  /\ hook' = [hook EXCEPT ![c] = IF inv[c] = "requested" /\ ~(kind[c] \in Capability /\ flag.evidence)
                                 THEN [pc |-> "evidence", phase |-> "denial"]
                                 ELSE [pc |-> "over", phase |-> "none"]]
  /\ UNCHANGED <<kind, same, inv, exec, bound, flag, world, ledger, result, budget>>

(* seal_and_wait: hooks that are still waiting are cancelled, and a cancelled *)
(* capability fact rejects the evidence.                                      *)
Sealed ==
  [flag EXCEPT !.evidence = @ \/ \E c \in Calls : hook[c].pc = "evidence" /\ kind[c] \in Capability]

(* Only what was recorded as started is looked at.                            *)
CompletionErrorOfStates(f) ==
  IF f.evidence \/ f.builtin \/ \E c \in Calls : inv[c] = "rejected" THEN "mismatch"
  ELSE IF \E c \in Calls : kind[c] \in {"required", "strict"} /\ inv[c] = "requested" THEN "missing"
  ELSE "none"

(* capability_completion_error: every observed call has its two facts, a      *)
(* write its success, and every required tool a completed call.               *)
CompletionError(f) ==
  LET facts(c) == {p \in {"requested", "completed", "failed"} : <<c, p>> \in ledger}
      recovers(c) == kind[c] \in {"skill", "read"} \/ c \in bound.errors \cup bound.confirmed
      paired(c) == \/ facts(c) = {"requested", "completed"}
                   \/ recovers(c) /\ facts(c) = {"requested", "failed"}
      strict == {c \in Calls : kind[c] \in {"required", "strict"}}
      needed == {c \in Calls : kind[c] = "required"} IN
  IF \/ f.evidence \/ f.builtin
     \/ \E c \in Calls : kind[c] \in Capability /\ facts(c) # {} /\ ~paired(c) THEN "mismatch"
  ELSE IF \/ needed # {} /\ ~(\E c \in needed : inv[c] = "completed")
          \/ \E c \in strict : inv[c] = "requested" THEN "missing"
  ELSE IF \E c \in strict : inv[c] = "rejected" THEN "mismatch" ELSE "none"

(* Only failed writes make the outcome unknown.                               *)
ReceiptErrorOfFailures(f) ==
  LET open == {c \in Calls : kind[c] = "write" /\ exec[c] \in {"completed", "failed"}
                               /\ c \notin bound.confirmed} IN
  IF f.conflict THEN "unknown" ELSE IF open = {} THEN "none"
  ELSE IF \A c \in open : exec[c] = "completed" THEN "incomplete" ELSE "unknown"

(* mcp_execution_receipt_error: what an error result says about the writes.   *)
ReceiptError(f) ==
  LET open == {c \in Calls : kind[c] = "write" /\ exec[c] # "none" /\ c \notin bound.confirmed} IN
  IF f.conflict THEN "unknown" ELSE IF open = {} THEN "none"
  ELSE IF \A c \in open : exec[c] = "completed" THEN "incomplete" ELSE "unknown"

Conclude(error, f) ==
  result' = [error |-> error,
             unknown |-> error \in {"unknown", "incomplete"} \/ WriteUnconfirmed(exec, f, bound)]

OrReceipt(error, f) == IF ReceiptError(f) # "none" THEN ReceiptError(f) ELSE error

(* protocol_closed after the end of the stream.                               *)
ProtocolClosed ==
  LET f == Sealed
      unread == f.readonly \/ \E c \in Calls : kind[c] = "readonly" /\ inv[c] = "requested"
      error == IF f.callback THEN "callback" ELSE IF unread THEN "admission"
               ELSE IF f.conflict THEN "unknown" ELSE CompletionError(f) IN
  /\ result.error = "closing" /\ \A c \in Calls : hook[c].pc # "sdkDenied"
  /\ flag' = f /\ hook' = [c \in Calls |-> Quiet]
  /\ Conclude(IF error = "none" THEN error ELSE OrReceipt(error, f), f)
  /\ UNCHANGED <<kind, same, inv, exec, bound, world, ledger, budget>>

(* An error Result, an exception or a timeout; or the run is cancelled.       *)
Fails(error) ==
  /\ result.error \in {"open", "closing"} /\ Faulty /\ Hit
  /\ flag' = Sealed /\ hook' = [c \in Calls |-> Quiet]
  /\ Conclude(IF error = "cancelled" THEN error ELSE OrReceipt(error, Sealed), Sealed)
  /\ UNCHANGED <<kind, same, inv, exec, bound, world, ledger>>

Next ==
  \/ \E c \in Calls :
       \/ PreToolUse(c) \/ PolicyPublished(c) \/ Recorded(c) \/ PrePublished(c)
       \/ Execute(c) \/ \E o \in {"done", "error", "lost"} : Ends(c, o)
       \/ SdkDenies(c) \/ PostToolUse(c) \/ PostPublished(c) \/ ReconcileDenial(c)
  \/ ResultMessage \/ ProtocolClosed \/ Fails("failed") \/ Fails("cancelled")

Spec == Init /\ [][Next]_vars

-----------------------------------------------------------------------------
(* A run that succeeds has, for every call that ran, the acknowledged request *)
(* and the acknowledged end that the tool really had, and its writes did not  *)
(* fail but by an error they returned (capability_completion_error).          *)
SuccessIsEvidenced ==
  result.error = "none" =>
    \A c \in Calls : world[c] # "none" =>
      /\ <<c, "requested">> \in ledger
      /\ <<c, IF world[c] = "done" THEN "completed" ELSE "failed">> \in ledger
      /\ kind[c] = "write" => world[c] \in {"done", "error"}

(* A write that may have taken effect is not forgotten: but for a cancelled   *)
(* run, a result that says nothing of unknown effects leaves no write that is *)
(* running or whose answer was lost, one that says all writes succeeded has   *)
(* only those, and an error is confirmed only for the call that returned it   *)
(* (mcp_execution_receipt_error, call_selected_tool).                         *)
UncertaintyIsKept ==
  LET writes == {c \in Calls : kind[c] = "write" /\ world[c] # "none"} IN
  /\ ~result.unknown /\ result.error \notin {"open", "closing", "cancelled"} =>
       \A c \in writes : world[c] \in {"done", "error"}
  /\ result.error = "incomplete" => \A c \in writes : world[c] \in {"done", "error"}
  /\ \A c \in bound.confirmed : world[c] = "error"

(* No write is given its authority while another has failed without a         *)
(* confirmed answer (the recheck at the end of                                *)
(* enforce_side_effect_tool_policy).                                          *)
WritesStopAtUnknown ==
  \A c \in Calls :
    kind[c] = "write" /\ hook[c].pc # "allowed" /\ hook'[c].pc = "allowed" =>
      ~\E d \in Calls \ {c} : kind[d] = "write" /\ exec[d] = "failed" /\ d \notin bound.confirmed
=============================================================================
