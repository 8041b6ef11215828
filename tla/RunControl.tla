----------------------------- MODULE RunControl -----------------------------
(***************************************************************************)
(* Retrying, resuming and copying a settled run: the mutation, copy and    *)
(* resolver routes of app/routes/runs.py, and the browser object that owns *)
(* one retry at a time (hooks/useAgent/runControlLifecycle.ts).            *)
(*                                                                         *)
(* An operation id names the child run it creates.  The child is committed *)
(* in one transaction under an advisory lock on the operation and the row  *)
(* lock of the source run; a second transaction authorizes it again and    *)
(* hands it to Redis.  The page keeps the operation id in sessionStorage   *)
(* from before the POST until it knows the outcome.  Requests can be       *)
(* delivered after the page has given up on them.                          *)
(***************************************************************************)
EXTENDS Naturals, FiniteSets

CONSTANTS MaxOps,      \* bound: operation ids minted
          Handlers,    \* HTTP requests being served at one time
          MaxWithdrawn \* bound: changes of the profile's authorization

VARIABLES authorized,  \* the agent profile of the source run still authorizes it
          withdrawn,   \* how often that changed
          child,       \* the child of each operation
          handler,     \* the requests being served
          minted,      \* number of operation ids minted so far
          stored,      \* the operation in sessionStorage
          page,        \* the RunControlLifecycle of the source run
          opened,      \* children the page has opened
          refused      \* operations the page has shown as rejected

vars == <<authorized, withdrawn, child, handler, minted, stored, page, opened, refused>>
world == <<authorized, withdrawn>>
browser == <<minted, stored, page, opened, refused>>

Operations == 1 .. MaxOps   \* operation ids, each naming the child it creates
NoOp == 0

NoChild == [status |-> "none", by |-> "none", message |-> "none", made |-> 0]
Quiet == [at |-> "idle", kind |-> "none", op |-> NoOp, created |-> FALSE, answer |-> "none"]
Ready == [phase |-> "ready", op |-> NoOp, request |-> "none", replay |-> FALSE]

Init ==
  /\ authorized = TRUE /\ withdrawn = 0
  /\ child = [o \in Operations |-> NoChild]
  /\ handler = [h \in Handlers |-> Quiet]
  /\ minted = 0 /\ stored = NoOp /\ page = Ready
  /\ opened = {} /\ refused = {}

Op(h) == handler[h].op
Goes(h, step) == handler' = [handler EXCEPT ![h].at = step]
Answers(h, a) == handler' = [handler EXCEPT ![h].at = "answered", ![h].answer = a]
Held(o) == child[o].message # "none"
Active(o) == child[o].status \in {"queued", "running"}
Starts(h, kind, o) == handler' = [handler EXCEPT ![h] = [Quiet EXCEPT !.at = kind, !.kind = kind, !.op = o]]

-----------------------------------------------------------------------------
(* POST /runs/{run}/retry and /resume: _mutate_run_control_child.           *)

CreatedFor(o, by) ==
  child' = [child EXCEPT ![o] = [status |-> "queued", by |-> by, message |-> "none", made |-> @.made + 1]]

(* The source may not be retried now, or is not authorized: 409, 403 or 404 *)
Refuse(h) == \E a \in {"conflict", "denied"} : Answers(h, a)

(* The first transaction.  A recorded operation is replayed; otherwise the  *)
(* child is created, unless another child of the source is active.  The     *)
(* acknowledgement of its commit can be lost.                               *)
Mutate(h) ==
  /\ handler[h].at = "post"
  /\ \/ /\ child[Op(h)].made > 0
        /\ IF child[Op(h)].status = "queued" THEN Goes(h, "admit") ELSE Answers(h, "child")
        /\ UNCHANGED child
     \/ /\ child[Op(h)].made = 0
        /\ authorized /\ \A o \in Operations : ~Active(o)
        /\ CreatedFor(Op(h), "control")
        /\ \/ handler' = [handler EXCEPT ![h].at = "admit", ![h].created = TRUE]
           \/ Answers(h, "error")
     \/ /\ child[Op(h)].made = 0
        /\ ~authorized \/ \E o \in Operations : Active(o)
        /\ Refuse(h)
        /\ UNCHANGED child
     \/ Answers(h, "error") /\ UNCHANGED child
  /\ UNCHANGED <<world, browser>>

(* _ensure_run_control_queue_admission: authorized again, in a transaction  *)
(* of its own that stays open through the Redis calls                       *)
Reauthorize(h) ==
  /\ handler[h].at = "admit"
  /\ IF authorized THEN Goes(h, IF handler[h].created THEN "enqueue" ELSE "probe") ELSE Refuse(h)
  /\ UNCHANGED <<world, child, browser>>

(* read_queue_admission, before a replayed operation enqueues *)
Probe(h) ==
  /\ handler[h].at = "probe"
  /\ \/ Held(Op(h)) /\ Answers(h, "child")
     \/ Goes(h, "enqueue")
  /\ UNCHANGED <<world, child, browser>>

(* enqueue_run: pushed unless already there; or no reply, with or without   *)
(* effect; or refused while the run is being reconciled                     *)
Enqueue(h) ==
  /\ handler[h].at = "enqueue"
  /\ \/ /\ child' = [child EXCEPT ![Op(h)].message = IF Held(Op(h)) THEN @ ELSE "queued"]
        /\ Answers(h, "child") \/ Goes(h, "readback")
     \/ Goes(h, "readback") /\ UNCHANGED child
  /\ UNCHANGED <<world, browser>>

ReadBackTrusting(h) ==
  /\ handler[h].at = "readback"
  /\ Answers(h, "child")
  /\ UNCHANGED <<world, child, browser>>

(* Without a reply the message itself decides; otherwise 503 and the child  *)
(* stays as committed                                                       *)
ReadBack(h) ==
  /\ handler[h].at = "readback"
  /\ \/ Held(Op(h)) /\ Answers(h, "child")
     \/ Answers(h, "error")
  /\ UNCHANGED <<world, child, browser>>

-----------------------------------------------------------------------------
(* POST /runs/{run}/copy: the child is not recorded under an operation.      *)

CopyRun(h) ==
  /\ handler[h].at = "copy"
  /\ \/ authorized /\ CreatedFor(Op(h), "copy") /\ Goes(h, "recheck")
     \/ Answers(h, "error") /\ UNCHANGED child
  /\ UNCHANGED <<world, browser>>

(* _compensate_enqueue_failure ends a child that is still queued *)
Compensate(h) ==
  /\ child' = [child EXCEPT ![Op(h)].status = IF @ = "queued" THEN "rejected" ELSE @]
  /\ Answers(h, "error")

(* Redis has not been touched: a refused child is ended *)
Recheck(h) ==
  /\ handler[h].at = "recheck"
  /\ \/ authorized /\ Goes(h, "push") /\ UNCHANGED child
     \/ Compensate(h)
  /\ UNCHANGED <<world, browser>>

(* Only a definitive refusal ends the child; without a reply the caller is  *)
(* told its identity and whether the message was found                      *)
Push(h) ==
  /\ handler[h].at = "push"
  /\ \/ /\ child' = [child EXCEPT ![Op(h)].message = "queued"]
        /\ \E a \in {"child", "pending"} : Answers(h, a)
     \/ Answers(h, "pending") /\ UNCHANGED child
     \/ Compensate(h)
  /\ UNCHANGED <<world, browser>>

-----------------------------------------------------------------------------
(* GET .../control-operations/{action}/{operation}.                         *)

(* Read under the operation's advisory lock *)
ReadOperation(h) ==
  /\ handler[h].at = "get"
  /\ \/ child[Op(h)].made = 0 /\ Answers(h, "absent")
     \/ child[Op(h)].made > 0 /\ child[Op(h)].status # "queued" /\ Answers(h, "child")
     \/ child[Op(h)].made > 0 /\ child[Op(h)].status = "queued" /\ Goes(h, "state")
     \/ Answers(h, "error")
  /\ UNCHANGED <<world, child, browser>>

(* _run_control_queue_admission_state, of the status read before *)
AdmissionState(h) ==
  /\ handler[h].at = "state"
  /\ \/ Answers(h, IF Held(Op(h)) THEN "child" ELSE "pending")
     \/ Answers(h, "unknown")
  /\ UNCHANGED <<world, child, browser>>

Crash(h) ==
  /\ handler[h].at \notin {"idle", "answered"}
  /\ Answers(h, "error")
  /\ UNCHANGED <<world, child, browser>>

-----------------------------------------------------------------------------
(* The page: RunControlLifecycle.                                           *)

server == <<world, child>>
Fresh(o) == o = minted + 1   \* createOpaqueOperationId
Closes(h) == handler' = [handler EXCEPT ![h] = Quiet]

(* mutate: the operation is durable before its POST leaves *)
Click(h, o) ==
  /\ page = Ready /\ handler[h] = Quiet /\ Fresh(o)
  /\ minted' = o
  /\ stored' = o
  /\ page' = [phase |-> "retrying", op |-> o, request |-> "post", replay |-> TRUE]
  /\ Starts(h, "post", o)
  /\ UNCHANGED <<server, opened, refused>>

(* The transport, or another client of the API, delivers a POST again *)
Repeat(h) ==
  /\ handler[h] = Quiet
  /\ \E g \in Handlers : handler[g].kind = "post" /\ Starts(h, "post", Op(g))
  /\ UNCHANGED <<server, browser>>

(* A copy of the run, asked for outside this object *)
Copy(h, o) ==
  /\ handler[h] = Quiet /\ Fresh(o)
  /\ minted' = o
  /\ Starts(h, "copy", o)
  /\ UNCHANGED <<server, stored, page, opened, refused>>

Unconfirmed == [page EXCEPT !.phase = "unconfirmed", !.request = "none"]

(* acceptOperationChild: the reference goes and the child is opened; the    *)
(* user may come back to the source run                                     *)
Accept(o) ==
  /\ stored' = NoOp /\ opened' = opened \cup {o} /\ page' = Ready
  /\ UNCHANGED <<minted, refused>>

Awaited(h) ==
  /\ handler[h].at = "answered" /\ page.op = Op(h)
  /\ handler[h].kind = page.request

(* The first POST is answered.  409, 412 and 422 free the retry button; an  *)
(* authorization failure leaves the operation unconfirmed; anything else is *)
(* resolved by a GET, which the same page may follow with one more POST.    *)
HearPost(h) ==
  LET a == handler[h].answer IN
  /\ Awaited(h) /\ page.request = "post" /\ page.phase = "retrying"
  /\ \/ a = "child" /\ Accept(page.op) /\ Closes(h)
     \/ /\ a = "conflict"
        /\ stored' = NoOp /\ page' = Ready /\ refused' = refused \cup {page.op}
        /\ Closes(h) /\ UNCHANGED <<minted, opened>>
     \/ a = "denied" /\ page' = Unconfirmed /\ Closes(h) /\ UNCHANGED <<minted, stored, opened, refused>>
     \/ /\ a = "error"
        /\ page' = [Unconfirmed EXCEPT !.request = "get"]
        /\ Starts(h, "get", page.op)
        /\ UNCHANGED <<minted, stored, opened, refused>>
  /\ UNCHANGED server

(* The page gives up on a POST, which is still under way, and resolves it *)
GiveUp(h) ==
  /\ page.phase = "retrying" /\ page.request = "post"
  /\ handler[h] = Quiet
  /\ page' = [Unconfirmed EXCEPT !.request = "get"]
  /\ Starts(h, "get", page.op)
  /\ UNCHANGED <<server, minted, stored, opened, refused>>

(* resolvePendingOperation: an authoritative absence allows this page one   *)
(* more POST, under a fresh operation id                                    *)
HearResolution(h) ==
  LET a == handler[h].answer IN
  /\ Awaited(h) /\ page.request = "get"
  /\ \/ a = "child" /\ Accept(page.op) /\ Closes(h)
     \/ /\ a = "absent" /\ page.replay
        /\ \E o \in Operations :
             /\ Fresh(o)
             /\ minted' = o /\ stored' = o
             /\ page' = [phase |-> "unconfirmed", op |-> o, request |-> "post", replay |-> FALSE]
             /\ Starts(h, "post", o)
        /\ UNCHANGED <<opened, refused>>
     \/ /\ a # "child" /\ ~(a = "absent" /\ page.replay)
        /\ page' = Unconfirmed /\ Closes(h)
        /\ UNCHANGED <<minted, stored, opened, refused>>
  /\ UNCHANGED server

(* The replayed POST is answered: only a child is believed *)
HearReplay(h) ==
  /\ Awaited(h) /\ page.request = "post" /\ page.phase = "unconfirmed"
  /\ \/ handler[h].answer = "child" /\ Accept(page.op)
     \/ /\ handler[h].answer # "child"
        /\ page' = Unconfirmed
        /\ UNCHANGED <<minted, stored, opened, refused>>
  /\ Closes(h)
  /\ UNCHANGED server

(* bindParent and open, after a reload, a changed sign-in or another        *)
(* history: what is stored is resolved by a GET and nothing is posted       *)
Reload(h) ==
  /\ handler[h] = Quiet
  /\ IF stored = NoOp
       THEN page # Ready /\ page' = Ready /\ UNCHANGED handler
       ELSE /\ page' = [phase |-> "unconfirmed", op |-> stored, request |-> "get", replay |-> FALSE]
            /\ page' # page
            /\ Starts(h, "get", stored)
  /\ UNCHANGED <<server, minted, stored, opened, refused>>

(* An answer that nobody waits for, or that the network loses *)
DropAnswer(h) ==
  /\ handler[h].at = "answered"
  /\ IF Awaited(h) THEN page' = Unconfirmed ELSE page' = page
  /\ Closes(h)
  /\ UNCHANGED <<server, minted, stored, opened, refused>>

-----------------------------------------------------------------------------
(* The rest of the platform: workers, cancellation, and the administrators  *)
(* of agent profiles, who wait for a transaction that holds the profile.    *)

Dispatch(o) ==
  /\ child[o].message = "queued"
  /\ child' = [child EXCEPT ![o].message = IF child[o].status = "queued" THEN "leased" ELSE "none",
                            ![o].status = IF @ = "queued" THEN "running" ELSE @]
  /\ UNCHANGED <<world, handler, browser>>

Finish(o) ==
  /\ child[o].status = "running"
  /\ child' = [child EXCEPT ![o].status = "ended", ![o].message = "none"]
  /\ UNCHANGED <<world, handler, browser>>

Cancel(o) ==
  /\ child[o].status = "queued"
  /\ \E m \in {"none", child[o].message} :
       child' = [child EXCEPT ![o].status = "ended", ![o].message = m]
  /\ UNCHANGED <<world, handler, browser>>

ChangeAuthorization ==
  /\ withdrawn < MaxWithdrawn
  /\ \A h \in Handlers : handler[h].at \notin {"probe", "enqueue", "readback"}
  /\ authorized' = ~authorized /\ withdrawn' = withdrawn + 1
  /\ UNCHANGED <<child, handler, browser>>

Serve(h) ==
  \/ Mutate(h) \/ Reauthorize(h) \/ Probe(h) \/ Enqueue(h) \/ ReadBack(h)
  \/ CopyRun(h) \/ Recheck(h) \/ Push(h)
  \/ ReadOperation(h) \/ AdmissionState(h) \/ Crash(h)

Browse(h) ==
  \/ \E o \in Operations : Click(h, o) \/ Copy(h, o)
  \/ Repeat(h) \/ HearPost(h) \/ GiveUp(h) \/ HearResolution(h) \/ HearReplay(h)
  \/ Reload(h) \/ DropAnswer(h)

Next ==
  \/ \E h \in Handlers : Serve(h) \/ Browse(h)
  \/ \E o \in Operations : Dispatch(o) \/ Finish(o) \/ Cancel(o)
  \/ ChangeAuthorization

Spec == Init /\ [][Next]_vars

-----------------------------------------------------------------------------
(* Children, requests and the page are in states the code writes. *)
TypeOK ==
  /\ authorized \in BOOLEAN /\ withdrawn \in 0 .. MaxWithdrawn
  /\ child \in [Operations -> [status : {"none", "queued", "running", "ended", "rejected"},
                        by : {"none", "control", "copy"},
                        message : {"none", "queued", "leased"}, made : 0 .. 1]]
  /\ \A h \in Handlers :
       /\ Op(h) \in Operations \cup {NoOp} /\ handler[h].created \in BOOLEAN
       /\ handler[h].kind \in {"none", "post", "get", "copy"}
  /\ stored \in Operations \cup {NoOp}
  /\ page.phase \in {"ready", "retrying", "unconfirmed"} /\ page.op \in Operations \cup {NoOp}
  /\ {opened, refused} \subseteq SUBSET Operations /\ minted \in 0 .. MaxOps

(* However requests are repeated, delayed, given up and resolved: a retry   *)
(* or resume never runs beside another one of the same source run, every    *)
(* operation creates one child, and a child that the page opens, and        *)
(* forgets the operation for, has reached the queue.  A child that was      *)
(* ended because it could not be queued never runs.                         *)
OneChildQueuedOnce ==
  /\ Cardinality({o \in Operations : Active(o) /\ child[o].by = "control"}) <= 1
  /\ \A o \in Operations : child[o].made <= 1
  /\ \A o \in opened : child[o].made = 1 /\ (child[o].status = "queued" => Held(o))
  /\ \A o \in Operations : child[o].status = "rejected" => ~Held(o)

(* runControlLifecycle.ts:337, "these validation/conflict rejections have   *)
(* no committed child": what the page shows as rejected created nothing.    *)
RejectedHasNoChild ==
  \A o \in refused : child[o].made = 0
=============================================================================
