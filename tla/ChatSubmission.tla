--------------------------- MODULE ChatSubmission ---------------------------
(***************************************************************************)
(* One keyed chat submission from the composer to the queue: the browser   *)
(* that keeps the submission id in localStorage until it knows what became *)
(* of it (frontend/web/src/hooks/useAgent.ts), the handlers of             *)
(* app/routes/chat.py (submit, resolve, retry-admission) and the durable   *)
(* ledger row they serialize on (app/persistence/chat_submissions.py).     *)
(*                                                                         *)
(* A database transaction is one action; a handler is a sequence of them   *)
(* with Redis called in between.  For a run pinned to an agent profile the *)
(* row locks are held through the Redis calls.  Replies of PostgreSQL and  *)
(* of Redis, answers to the browser and whole handlers can be lost, and a  *)
(* POST can be delivered twice.                                            *)
(***************************************************************************)
EXTENDS Naturals, FiniteSets

CONSTANTS Tabs,       \* browser tabs of the submitting user
          Handlers,   \* HTTP requests being served at one time
          MaxRequests \* bound: requests sent about the submission

VARIABLES row,      \* state of the chat_submissions row
          run,      \* status of the run it created
          message,  \* where Redis holds the run's message
          bound,    \* the run is pinned to an agent profile
          valid,    \* the immutable queue payload passes validation
          lock,     \* the handler that holds the row and run locks across Redis
          handler,  \* the requests being served
          sent,     \* number of requests sent
          saved,    \* localStorage holds the reference
          tab,      \* what each tab is doing about the submission
          told,     \* the outcomes some tab has shown and acted on
          count     \* runs created, and executions begun

vars == <<row, run, message, bound, valid, lock, handler, sent, saved, tab, told, count>>
db == <<row, run, lock, count>>
browser == <<saved, tab, told>>
fixed == <<bound, valid>>

Kinds == {"none", "post", "get", "retry"}
Steps == {"idle", "post", "checked", "reject", "admit", "probe", "enqueue", "readback", "failed",
          "invalid", "settle", "get", "retry", "answered"}
Outcomes == {"none", "queued", "pending", "confirm", "rejected", "absent", "failed", "error"}

Idle == [at |-> "idle", kind |-> "none", answer |-> "none"]
Unheld == "free"

Init ==
  /\ row = "absent" /\ run = "none" /\ message = "none"
  /\ bound \in BOOLEAN /\ valid \in BOOLEAN
  /\ lock = Unheld
  /\ handler = [h \in Handlers |-> Idle]
  /\ sent = 0
  /\ saved = FALSE
  /\ tab = [t \in Tabs |-> [at |-> "blank", waits |-> {}]]
  /\ told = {}
  /\ count = [runs |-> 0, executions |-> 0]

Goes(h, step) == handler' = [handler EXCEPT ![h].at = step]
Answers(h, a) == handler' = [handler EXCEPT ![h].at = "answered", ![h].answer = a]
NoLock(h) == lock \in {Unheld, h}

(* What a request starts with *)
Starts(h, kind) ==
  /\ handler[h] = Idle
  /\ sent < MaxRequests
  /\ handler' = [handler EXCEPT ![h] = [at |-> kind, kind |-> kind, answer |-> "none"]]
  /\ sent' = sent + 1

-----------------------------------------------------------------------------
(* The ledger.                                                             *)

Rejections == {"rejected", "tombstone"}

(* _chat_stream_response_from_submission, as the answer to a POST *)
Existing ==
  CASE row \in Rejections -> "rejected"
    [] row = "enqueue_failed" -> "error"
    [] OTHER -> row

(* submission_resolution_projection, as the answer to a GET or a retry *)
Resolution ==
  CASE row \in Rejections -> "rejected"
    [] row = "enqueue_failed" -> "failed"
    [] OTHER -> row

(* How an answer of _admit_chat_submission leaves the route: chat_stream    *)
(* turns a resolution without an outcome, and an unexpected exception, into *)
(* the pending answer; the retry route passes both on.                      *)
Admitted(h, a) ==
  IF handler[h].kind = "post" /\ a \in {"failed", "exception"} THEN "pending"
  ELSE IF a = "exception" THEN "error" ELSE a

-----------------------------------------------------------------------------
(* POST /chat/stream.                                                      *)

(* The first read: an existing claim is answered without another effect *)
LookUp(h) ==
  /\ handler[h].at = "post"
  /\ IF row # "absent" THEN Answers(h, Existing) ELSE Goes(h, "checked")
  /\ UNCHANGED <<db, message, fixed, sent, browser>>

(* The request itself is refused before the admission transaction *)
RefuseRequest(h) ==
  /\ handler[h].at = "checked"
  /\ Goes(h, "reject")
  /\ UNCHANGED <<db, message, fixed, sent, browser>>

(* The admission transaction: claim_chat_submission takes the key or finds  *)
(* it taken.  A row that raises a 4xx is settled by the rejection path.     *)
FindClaimTaken(h) ==
  /\ handler[h].at = "checked" /\ lock = Unheld
  /\ row # "absent"
  /\ IF row \in Rejections THEN Goes(h, "reject") ELSE Answers(h, Existing)
  /\ UNCHANGED <<db, message, fixed, sent, browser>>

(* ... claimed, and the run, its message and its context are created.  When *)
(* the acknowledgement of COMMIT is lost the handler sees an exception.     *)
AcceptRun(h) ==
  /\ handler[h].at = "checked" /\ lock = Unheld
  /\ row = "absent"
  /\ row' = "pending" /\ run' = "queued" /\ count' = [count EXCEPT !.runs = @ + 1]
  /\ \E step \in {"admit", "reject"} : Goes(h, step)
  /\ UNCHANGED <<lock, message, fixed, sent, browser>>

(* ... claimed, and the user is asked to confirm a capability first *)
AskConfirmation(h) ==
  /\ handler[h].at = "checked" /\ lock = Unheld
  /\ row = "absent"
  /\ row' = "confirm"
  /\ Answers(h, "confirm") \/ Goes(h, "reject")
  /\ UNCHANGED <<run, lock, count, message, fixed, sent, browser>>

(* ... or rolled back by a refusal or a failure; an error of the server's    *)
(* own (5xx) is passed on without a rejection                                *)
RollBack(h) ==
  /\ handler[h].at = "checked" /\ lock = Unheld
  /\ row = "absent"
  /\ Goes(h, "reject") \/ Answers(h, "error")
  /\ UNCHANGED <<db, message, fixed, sent, browser>>

PersistRejectionUnclaimed(h) ==
  /\ handler[h].at = "reject" /\ lock = Unheld
  /\ row' = "rejected"
  /\ Answers(h, "rejected")
  /\ UNCHANGED <<run, lock, count, message, fixed, sent, browser>>

(* _persist_pre_persistence_rejection: the rejection is committed, or the   *)
(* outcome that holds the claim is replayed.  A transaction that fails, or  *)
(* whose commit is not acknowledged, is answered as unknown.                *)
PersistRejection(h) ==
  /\ handler[h].at = "reject" /\ lock = Unheld
  /\ \/ row = "absent" /\ row' = "rejected" /\ \E a \in {"rejected", "error"} : Answers(h, a)
     \/ row # "absent" /\ Answers(h, Existing) /\ UNCHANGED row
     \/ Answers(h, "error") /\ UNCHANGED row
  /\ UNCHANGED <<run, lock, count, message, fixed, sent, browser>>

-----------------------------------------------------------------------------
(* _admit_chat_submission, for the POST that created the run and for every  *)
(* retry.                                                                  *)

Unlocks(h) == lock' = IF lock = h THEN Unheld ELSE lock

(* The first transaction locks the row and the run.  A run that is past     *)
(* "queued" needs no admission: its submission is settled as queued.        *)
CheckRun(h) ==
  /\ handler[h].at = "admit" /\ lock = Unheld
  /\ \/ /\ row \in Rejections \cup {"enqueue_failed", "confirm"}
        /\ Answers(h, Admitted(h, Resolution))
        /\ UNCHANGED <<row, lock>>
     \/ /\ row \in {"pending", "queued"} /\ run # "queued"
        /\ row' = "queued" /\ Answers(h, "queued")
        /\ UNCHANGED lock
     \/ /\ row \in {"pending", "queued"} /\ run = "queued"
        /\ lock' = IF bound THEN h ELSE Unheld
        /\ Goes(h, "probe")
        /\ UNCHANGED row
     \/ /\ bound /\ run = "queued"     \* the profile no longer authorizes the run
        /\ Answers(h, Admitted(h, "exception"))
        /\ UNCHANGED <<row, lock>>
  /\ UNCHANGED <<run, count, message, fixed, sent, browser>>

(* read_queue_admission: the exact message, wherever Redis holds it.  The   *)
(* payload is validated first; an invalid one is refused for good.          *)
Held == message # "none"

Probe(h) ==
  /\ handler[h].at = "probe"
  /\ IF ~valid THEN Goes(h, "invalid")
     ELSE \/ Goes(h, IF Held THEN "settle" ELSE "enqueue")
          \/ Goes(h, "readback")                              \* Redis fails
  /\ UNCHANGED <<db, message, fixed, sent, browser>>

(* enqueue_run_with_metadata: pushed, unless the message is queued or leased *)
(* already; refused while the run is being reconciled; or no reply, with or  *)
(* without effect                                                           *)
Enqueue(h) ==
  /\ handler[h].at = "enqueue"
  /\ \/ /\ message' = IF Held THEN message ELSE "queued"
        /\ \E step \in {"settle", "readback"} : Goes(h, step)
     \/ /\ \E step \in {"readback", "failed"} : Goes(h, step)
        /\ UNCHANGED message
  /\ UNCHANGED <<db, fixed, sent, browser>>

ReadBackTrusting(h) ==
  /\ handler[h].at = "readback"
  /\ Goes(h, "settle")
  /\ UNCHANGED <<db, message, fixed, sent, browser>>

(* attempt_chat_queue_admission: without a reply, only an exact readback    *)
(* confirms the admission                                                   *)
ReadBack(h) ==
  /\ handler[h].at = "readback"
  /\ \/ Held /\ Goes(h, "settle")
     \/ Goes(h, "failed")
  /\ UNCHANGED <<db, message, fixed, sent, browser>>

(* An unknown admission leaves the submission as it is, to be retried *)
LeavePending(h) ==
  /\ handler[h].at = "failed" /\ NoLock(h)
  /\ \/ Answers(h, Admitted(h, Resolution))
     \/ Answers(h, Admitted(h, "exception"))
  /\ Unlocks(h)
  /\ UNCHANGED <<row, run, count, message, fixed, sent, browser>>

(* A definitive refusal ends the run, unless another request settled it *)
FailAdmission(h) ==
  /\ handler[h].at = "invalid" /\ NoLock(h)
  /\ \/ /\ row = "pending" /\ run = "queued"
        /\ row' = "enqueue_failed" /\ run' = "failed"
        /\ Answers(h, "error")
     \/ /\ row # "pending" \/ run # "queued"
        /\ Answers(h, Admitted(h, Resolution))
        /\ UNCHANGED <<row, run>>
     \/ Answers(h, Admitted(h, "exception")) /\ UNCHANGED <<row, run>>
  /\ Unlocks(h)
  /\ UNCHANGED <<count, message, fixed, sent, browser>>

(* _persist_chat_queue_success in a fresh transaction (the locking one when *)
(* the run is bound to a profile): a settled row is never replaced.         *)
Settle(h) ==
  /\ handler[h].at = "settle" /\ NoLock(h)
  /\ \/ /\ row \in {"pending", "queued"}
        /\ row' = "queued"
        /\ \E a \in {"queued", "exception"} : Answers(h, Admitted(h, a))
     \/ row \notin {"pending", "queued"} /\ Answers(h, Admitted(h, Resolution)) /\ UNCHANGED row
     \/ Answers(h, Admitted(h, "exception")) /\ UNCHANGED row
  /\ Unlocks(h)
  /\ UNCHANGED <<run, count, message, fixed, sent, browser>>

-----------------------------------------------------------------------------
(* GET and POST .../retry-admission.                                        *)

Resolve(h) ==
  /\ handler[h].at = "get"
  /\ Answers(h, IF row = "absent" THEN "error" ELSE Resolution)
  /\ UNCHANGED <<db, message, fixed, sent, browser>>

RecoverByRead(h) ==
  /\ handler[h].at = "retry" /\ lock = Unheld
  /\ IF row \in {"absent", "tombstone"} THEN Answers(h, "absent") ELSE Goes(h, "admit")
  /\ UNCHANGED <<db, message, fixed, sent, browser>>

(* _recover_preledger_chat_submission: an absent key is retired by a        *)
(* tombstone, so that the POST that is still under way finds it taken       *)
Recover(h) ==
  /\ handler[h].at = "retry" /\ lock = Unheld
  /\ \/ row = "absent" /\ row' = "tombstone" /\ \E a \in {"absent", "error"} : Answers(h, a)
     \/ row = "tombstone" /\ Answers(h, "absent") /\ UNCHANGED row
     \/ row \notin {"absent", "tombstone"} /\ Goes(h, "admit") /\ UNCHANGED row
     \/ Answers(h, "error") /\ UNCHANGED row
  /\ UNCHANGED <<run, lock, count, message, fixed, sent, browser>>

(* The server process dies: its transaction is rolled back *)
Crash(h) ==
  /\ handler[h].at \notin {"idle", "answered"}
  /\ Answers(h, "error")
  /\ Unlocks(h)
  /\ UNCHANGED <<row, run, count, message, fixed, sent, browser>>

-----------------------------------------------------------------------------
(* The browser.                                                            *)

Waits(t, h) == h \in tab[t].waits
Unowned(h) == \A t \in Tabs : ~Waits(t, h)
server == <<db, message, fixed>>

(* sendMessage: the reference is durable before the POST leaves *)
Send(t, h) ==
  /\ tab[t].at = "blank" /\ sent = 0
  /\ Starts(h, "post")
  /\ saved' = TRUE
  /\ tab' = [tab EXCEPT ![t] = [at |-> "sending", waits |-> {h}]]
  /\ UNCHANGED <<server, told>>

(* The transport delivers the POST a second time *)
Repeat(h) ==
  /\ \E g \in Handlers : handler[g].kind = "post"
  /\ Starts(h, "post")
  /\ UNCHANGED <<server, browser>>

(* resolvePersistedSubmission, retryPendingSubmission *)
Ask(t, h, kind) ==
  /\ tab[t].at = "uncertain"
  /\ Starts(h, kind)
  /\ tab' = [tab EXCEPT ![t].waits = @ \cup {h}]
  /\ UNCHANGED <<server, saved, told>>

Closes(h) == handler' = [handler EXCEPT ![h] = Idle]
Uncertain(t, h) ==
  tab' = [tab EXCEPT ![t] = [at |-> "uncertain", waits |-> @.waits \ {h}]]

(* The outcome is known: the reference goes, and the composer is free *)
Learns(t, outcome) ==
  /\ told' = told \cup {outcome}
  /\ saved' = FALSE
  /\ tab' = [tab EXCEPT ![t] = [at |-> "done", waits |-> {}]]

(* isProvenPrePersistenceChatRejection reads the disposition the server set *)
Proven(answer) == answer = "rejected"

(* The POST is answered while its tab still waits for it.  An unproven      *)
(* error, and the pending answer, leave the tab uncertain.                  *)
HearSubmit(t, h) ==
  LET a == handler[h].answer IN
  /\ Waits(t, h) /\ handler[h].at = "answered" /\ handler[h].kind = "post"
  /\ \/ a = "queued" /\ Learns(t, "accepted")
     \/ a = "confirm" /\ Learns(t, "confirm")
     \/ Proven(a) /\ Learns(t, "rejected")
     \/ a \in {"pending", "error"} /\ ~Proven(a) /\ Uncertain(t, h) /\ UNCHANGED <<saved, told>>
  /\ Closes(h)
  /\ UNCHANGED <<server, sent>>

(* A resolution: a queued run's history is loaded before the reference goes *)
HearResolution(t, h) ==
  LET a == handler[h].answer IN
  /\ Waits(t, h) /\ handler[h].at = "answered" /\ handler[h].kind # "post"
  /\ \/ a = "queued" /\ Learns(t, "accepted")
     \/ a = "confirm" /\ Learns(t, "confirm")
     \/ a \in {"rejected", "absent"} /\ Learns(t, "rejected")
     \/ a = "failed" /\ Learns(t, "failed")
     \/ a \in {"queued", "pending", "error"} /\ Uncertain(t, h) /\ UNCHANGED <<saved, told>>
  /\ Closes(h)
  /\ UNCHANGED <<server, sent>>

(* An answer nobody waits for any more, or that the network loses *)
LoseAnswer(h) ==
  /\ handler[h].at = "answered"
  /\ IF Unowned(h)
       THEN tab' = tab
       ELSE \E t \in Tabs : Waits(t, h) /\ Uncertain(t, h)
  /\ Closes(h)
  /\ UNCHANGED <<server, sent, saved, told>>

(* A new chat, another session, a changed sign-in: the submission under way *)
(* is handed over as uncertain and its answer is ignored                    *)
HandOff(t) ==
  /\ tab[t].at = "sending"
  /\ tab' = [tab EXCEPT ![t] = [at |-> "uncertain", waits |-> {}]]
  /\ UNCHANGED <<server, handler, sent, saved, told>>

(* A tab is opened or loaded again: installPersistedSubmissionFence finds   *)
(* the reference, whichever tab wrote it                                    *)
Reload(t) ==
  /\ sent > 0
  /\ tab' = [tab EXCEPT ![t] = [at |-> IF saved THEN "uncertain" ELSE "done", waits |-> {}]]
  /\ tab' # tab
  /\ UNCHANGED <<server, handler, sent, saved, told>>

-----------------------------------------------------------------------------
(* The rest of the platform, modelled in RunQueue and RunLifecycle: a worker *)
(* leases the message and starts a run that is still queued, or drops the    *)
(* message; the user cancels a queued run.                                   *)
Dispatch ==
  /\ message = "queued" /\ lock = Unheld
  /\ IF run = "queued"
       THEN /\ message' = "leased" /\ run' = "running"
            /\ count' = [count EXCEPT !.executions = @ + 1]
       ELSE message' = "none" /\ UNCHANGED <<run, count>>
  /\ UNCHANGED <<row, lock, fixed, handler, sent, browser>>

Finish ==
  /\ run = "running" /\ run' = "ended" /\ message' = "none"
  /\ UNCHANGED <<row, lock, count, fixed, handler, sent, browser>>

Cancel ==
  /\ run = "queued" /\ lock = Unheld
  /\ run' = "cancelled"
  /\ message' \in {message, "none"}
  /\ UNCHANGED <<row, lock, count, fixed, handler, sent, browser>>

-----------------------------------------------------------------------------
Serve(h) ==
  \/ LookUp(h) \/ RefuseRequest(h) \/ FindClaimTaken(h) \/ AcceptRun(h)
  \/ AskConfirmation(h) \/ RollBack(h) \/ PersistRejection(h)
  \/ CheckRun(h) \/ Probe(h) \/ Enqueue(h) \/ ReadBack(h) \/ LeavePending(h)
  \/ FailAdmission(h) \/ Settle(h)
  \/ Resolve(h) \/ Recover(h) \/ Crash(h)

Browse(t, h) ==
  \/ Send(t, h) \/ Ask(t, h, "get") \/ Ask(t, h, "retry")
  \/ HearSubmit(t, h) \/ HearResolution(t, h)

Next ==
  \/ \E h \in Handlers : Serve(h) \/ Repeat(h) \/ LoseAnswer(h)
  \/ \E t \in Tabs : HandOff(t) \/ Reload(t) \/ \E h \in Handlers : Browse(t, h)
  \/ Dispatch \/ Finish \/ Cancel

Spec == Init /\ [][Next]_vars

-----------------------------------------------------------------------------
(* Rows, locks, requests and tabs are in states the code writes. *)
TypeOK ==
  /\ row \in {"absent", "pending", "queued", "confirm", "enqueue_failed"} \cup Rejections
  /\ run \in {"none", "queued", "running", "ended", "cancelled", "failed"}
  /\ message \in {"none", "queued", "leased"}
  /\ {bound, valid, saved} \subseteq BOOLEAN
  /\ lock \in Handlers \cup {Unheld}
  /\ handler \in [Handlers -> [at : Steps, kind : Kinds, answer : Outcomes]]
  /\ sent \in 0 .. MaxRequests
  /\ tab \in [Tabs -> [at : {"blank", "sending", "uncertain", "done"}, waits : SUBSET Handlers]]
  /\ told \subseteq {"accepted", "confirm", "rejected", "failed"}
  /\ count \in [runs : Nat, executions : Nat]

(* What the browser tells its user, and forgets the reference for, is so:   *)
(* a message reported as not submitted has no run and can never get one, a  *)
(* failed one did not reach the queue, an accepted one has its run; and the *)
(* reference is forgotten only with one of these outcomes known.            *)
VerdictIsTrue ==
  /\ "rejected" \in told => row \in Rejections /\ run = "none"
  /\ "failed" \in told => row = "enqueue_failed" /\ run = "failed" /\ message = "none"
  /\ "accepted" \in told => row = "queued" /\ run # "none"
  /\ "confirm" \in told => row = "confirm" /\ run = "none"
  /\ sent > 0 /\ told = {} => saved

(* However often a submission is posted, repeated, retried and read back,   *)
(* it creates one run and one execution; and while the ledger calls it      *)
(* queued and its run has not started, Redis holds the message.             *)
OneRunQueuedOnce ==
  /\ count.runs <= 1 /\ count.executions <= 1
  /\ row = "queued" /\ run = "queued" => Held

(* A settled row is never replaced: a rejection or failure is final, and a  *)
(* submission that has a run only moves from pending to its settlement.     *)
SettledRowStays ==
  row' # row =>
    \/ row = "absent"
    \/ row = "pending" /\ row' \in {"queued", "enqueue_failed"}
=============================================================================
