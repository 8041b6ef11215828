--------------------------- MODULE OpenSandboxes ---------------------------
(***************************************************************************)
(* The sandboxes of one attempt (OpenSandboxContainerProvider): its        *)
(* submissions reuse the tracked sandbox, or look in the service's         *)
(* inventory for one they forgot, stop it and create another; the lease is *)
(* recorded, staged, validated, used and stopped, possibly by another      *)
(* process, while the service ends sandboxes whose time is over.           *)
(*                                                                         *)
(* A process remembers one lease per attempt and a client per sandbox, and *)
(* forgets both when it dies.  A create whose answer is lost may still     *)
(* take effect later.  The labels of a governed lease are sealed with a    *)
(* proof of the sandbox's identity; a stop is only authorised by sealed    *)
(* labels.  Every call may fail, MaxFaults times.                          *)
(***************************************************************************)
EXTENDS Naturals, FiniteSets

CONSTANTS Procs,      \* processes, each with its provider
          Home,       \* the worker that has the attempt
          Subs,       \* submissions of the attempt, 1..n in order of their start
          Boxes,      \* identities the service may give, 1..n in that order
          MaxFaults   \* bound: failing calls

VARIABLES lock,     \* the advisory lock of the attempt: a submission, or 0
          sub,      \* per submission: where it is, its process and its sandbox
          cache,    \* per process: the tracked lease, is it sealed, the clients
          box,      \* per sandbox: what the service has
          row,      \* the lease row and the sandbox it names
          faults,   \* failed calls
          lost,     \* history: sandboxes that timed out or were stopped by their row
          crashed   \* history: a process died

vars == <<lock, sub, cache, box, row, faults, lost, crashed>>

Nothing == [lease |-> 0, sealed |-> FALSE, conns |-> {}]
Ended   == [pc |-> "ended", at |-> "none", held |-> 0]

Init ==
  /\ lock = 0
  /\ sub = [s \in Subs |-> [pc |-> "idle", at |-> "none", held |-> 0]]
  /\ cache = [p \in Procs |-> Nothing]
  /\ box = [b \in Boxes |-> "none"]
  /\ row = [st |-> "none", id |-> 0]
  /\ faults = 0 /\ lost = {} /\ crashed = FALSE

Fault   == faults < MaxFaults /\ faults' = faults + 1
NoFault == UNCHANGED faults
side    == <<lost, crashed>>

Proc(s)  == sub[s].at
At(s, pc) == sub[s].pc = pc
Moves(s, pc) == sub' = [sub EXCEPT ![s].pc = pc]
Ends(s) == /\ sub' = [sub EXCEPT ![s] = Ended]
           /\ lock' = IF lock = s THEN 0 ELSE lock

-----------------------------------------------------------------------------
(* What a process remembers *)

Forget(p) == cache' = [cache EXCEPT ![p].lease = 0, ![p].sealed = FALSE,
                                    ![p].conns = @ \ {cache[p].lease}]
Track(p, b, sealed) ==
  cache' = [cache EXCEPT ![p].lease = b, ![p].sealed = sealed, ![p].conns = @ \cup {b}]

TrackNothing(p, b, sealed) == UNCHANGED cache

(* _track_cleanup_pending_sandbox: the labels of a new sandbox are not sealed *)
TrackPending(p, b, sealed) == Track(p, b, sealed)

-----------------------------------------------------------------------------
(* stop(lease): the tracked lease of the attempt, if there is one, decides *)

Tracked(p) == cache[p].lease # 0
Target(p, b) == IF Tracked(p) THEN cache[p].lease ELSE b
Sealed(p) == cache[p].sealed
Authorised(p) == Tracked(p) => Sealed(p)

Unreachable(p, b) ==
  /\ Fault /\ UNCHANGED box
  /\ cache' = [cache EXCEPT ![p].lease = Target(p, b), ![p].sealed = Authorised(p)]

Absent(p, b) ==
  /\ box[Target(p, b)] = "gone"
  /\ cache' = [cache EXCEPT ![p].lease = 0, ![p].sealed = FALSE,
                            ![p].conns = @ \ {Target(p, b)}]
  /\ UNCHANGED <<box, faults>>

Refused(p, b) ==
  /\ box[Target(p, b)] # "gone"
  /\ Authorised(p) => Fault
  /\ ~Authorised(p) => NoFault
  /\ Track(p, Target(p, b), Authorised(p))
  /\ UNCHANGED box

Killed(p, b) ==
  /\ box[Target(p, b)] # "gone" /\ Authorised(p)
  /\ box' = [box EXCEPT ![Target(p, b)] = "gone"]
  /\ cache' = [cache EXCEPT ![p].lease = 0, ![p].sealed = FALSE,
                            ![p].conns = @ \ {Target(p, b)}]
  /\ NoFault

Answers(p, b, stopped) ==
  \/ ~stopped /\ (Unreachable(p, b) \/ Refused(p, b))
  \/ stopped /\ (Absent(p, b) \/ Killed(p, b))

(* SandboxRuntime believes an answer only if it names its own sandbox *)
Stops(p, b, stopped) ==
  \E answer \in BOOLEAN :
    /\ Answers(p, b, answer)
    /\ stopped = (answer /\ Target(p, b) = b)

-----------------------------------------------------------------------------
(* create_or_reuse: the tracked sandbox *)

(* An attempt belongs to one worker and dies with it *)
Claim(s) ==
  /\ At(s, "idle") /\ lock = 0 /\ ~crashed
  /\ \A t \in Subs : t < s => At(t, "ended")
  /\ IF row.st = "active"
     THEN sub' = [sub EXCEPT ![s] = Ended] /\ UNCHANGED lock
     ELSE sub' = [sub EXCEPT ![s].pc = "claimed", ![s].at = Home] /\ lock' = s
  /\ UNCHANGED <<cache, box, row, faults, side>>

(* Endpoint, readback, health and identity answer *)
Probed(b) == box[b] = "live"

Cached(p) == Tracked(p) /\ cache[p].lease \in cache[p].conns

ReuseCached(s) ==
  LET p == Proc(s) IN
  /\ At(s, "claimed") /\ Cached(p)
  /\ Probed(cache[p].lease) /\ Sealed(p)
  /\ sub' = [sub EXCEPT ![s].pc = "created", ![s].held = cache[p].lease]
  /\ UNCHANGED <<lock, cache, box, row, faults, side>>

(* It no longer fits, does not answer, or the caller gave up *)
DropCached(s) ==
  /\ At(s, "claimed") /\ Cached(Proc(s))
  /\ \E stopped \in BOOLEAN : Stops(Proc(s), cache[Proc(s)].lease, stopped)
  /\ Ends(s)
  /\ UNCHANGED <<row, side>>

(* The configuration changed while it was being probed *)
RejectCached(s) ==
  LET p == Proc(s) IN
  /\ At(s, "claimed") /\ Cached(p) /\ Probed(cache[p].lease) /\ Sealed(p)
  /\ \/ NoFault /\ box' = [box EXCEPT ![cache[p].lease] = "gone"] /\ Forget(p)
     \/ Fault /\ UNCHANGED <<box, cache>>
  /\ Ends(s)
  /\ UNCHANGED <<row, side>>

-----------------------------------------------------------------------------
(* The inventory *)

(* "stray": it runs, but no answer ever named it *)
Live == {b \in Boxes : box[b] \in {"live", "stray"}}

(* reconcile_authoritative_identity_unavailable_cleanup *)
StopsListed(p, stopped) ==
  \E b \in Live :
    /\ Live = {b}
    /\ \/ /\ stopped /\ NoFault
          /\ box' = [box EXCEPT ![b] = "gone"]
          /\ cache' = [cache EXCEPT ![p] = [Nothing EXCEPT !.conns = @ \ {b}]]
       \/ ~stopped /\ Fault /\ Track(p, b, TRUE) /\ UNCHANGED box

Unlisted(p) ==
  \/ Fault /\ UNCHANGED <<box, cache>>
  \/ Cardinality(Live) > 1 /\ UNCHANGED <<box, cache, faults>>

Reconcile(s) ==
  LET p == Proc(s) IN
  /\ At(s, "claimed") /\ ~Cached(p)
  /\ \/ Live = {} /\ Moves(s, "listing") /\ UNCHANGED <<lock, cache, box, faults>>
     \/ StopsListed(p, TRUE) /\ Moves(s, "creating") /\ UNCHANGED lock
     \/ StopsListed(p, FALSE) /\ Ends(s)
     \/ Unlisted(p) /\ Ends(s)
  /\ UNCHANGED <<row, side>>

(* A sandbox of the attempt that appeared since cannot be authenticated *)
ListRemote(s) ==
  /\ At(s, "listing")
  /\ IF Live = {}
     THEN Moves(s, "creating") /\ UNCHANGED <<lock, faults>>
     ELSE Ends(s) /\ NoFault
  /\ UNCHANGED <<cache, box, row, side>>

ListFails(s) ==
  /\ At(s, "listing") /\ Fault /\ Ends(s)
  /\ UNCHANGED <<cache, box, row, side>>

-----------------------------------------------------------------------------
(* The cold start *)

Fresh(b) == box[b] = "none" /\ \A c \in Boxes : c < b => box[c] # "none"

Create(s) ==
  \E b \in Boxes, ided \in BOOLEAN :
    /\ At(s, "creating") /\ Fresh(b)
    /\ box' = [box EXCEPT ![b] = IF ided THEN "live" ELSE "stray"]
    /\ sub' = [sub EXCEPT ![s].pc = IF ided THEN "starting" ELSE "nameless", ![s].held = b]
    /\ IF ided THEN NoFault ELSE Fault
    /\ UNCHANGED <<lock, cache, row, side>>

(* No answer, or the caller was cancelled: there is no sandbox to clean up *)
CreateUnknown(s) ==
  \E b \in Boxes :
    /\ At(s, "creating") /\ Fresh(b) /\ Fault
    /\ box' = [box EXCEPT ![b] = "late"]
    /\ Ends(s)
    /\ UNCHANGED <<cache, row, side>>

CreateRefused(s) ==
  /\ At(s, "creating") /\ Fault /\ Ends(s)
  /\ UNCHANGED <<cache, box, row, side>>

(* Everything answered: the lease is sealed and kept *)
StartupPasses(s) ==
  /\ At(s, "starting") /\ Probed(sub[s].held)
  /\ Track(Proc(s), sub[s].held, TRUE)
  /\ Moves(s, "created")
  /\ UNCHANGED <<lock, box, row, faults, side>>

(* cleanup_new_sandbox_or_reconcile: kill it, or keep it to be killed *)
KillNew(b) == NoFault /\ box' = [box EXCEPT ![b] = "gone"]

StartupFails(s) ==
  LET p == Proc(s)
      b == sub[s].held
  IN
  /\ At(s, "starting")
  /\ \/ KillNew(b) /\ UNCHANGED cache
     \/ Fault /\ TrackPending(p, b, FALSE) /\ UNCHANGED box
  /\ Ends(s)
  /\ UNCHANGED <<row, side>>

(* An answer without an identity is cleaned up through the inventory *)
NamelessFails(s) ==
  LET p == Proc(s) IN
  /\ At(s, "nameless")
  /\ \/ KillNew(sub[s].held) /\ UNCHANGED cache
     \/ \E stopped \in BOOLEAN : StopsListed(p, stopped)
     \/ Unlisted(p)
     \/ Live = {} /\ UNCHANGED <<box, cache, faults>>
  /\ Ends(s)
  /\ UNCHANGED <<row, side>>

-----------------------------------------------------------------------------
(* The submission goes on with its lease *)

RecordLease(s) ==
  /\ At(s, "created")
  /\ row' = [st |-> "active", id |-> sub[s].held]
  /\ Moves(s, "recorded")
  /\ UNCHANGED <<lock, cache, box, faults, side>>

(* The insert failed or is unknown, the caller was cancelled, or the claim  *)
(* could not be released                                                    *)
UndoLease(s) ==
  /\ sub[s].pc \in {"created", "recorded"}
  /\ \E stopped \in BOOLEAN, written \in BOOLEAN :
       /\ Stops(Proc(s), sub[s].held, stopped)
       /\ row' = IF stopped THEN [st |-> "released", id |-> sub[s].held]
                 ELSE IF written THEN [st |-> "active", id |-> sub[s].held] ELSE row
  /\ Ends(s)
  /\ UNCHANGED side

ReleaseClaim(s) ==
  /\ At(s, "recorded") /\ Moves(s, "running") /\ lock' = 0
  /\ UNCHANGED <<cache, box, row, faults, side>>

(* A client is kept once the service confirmed the sandbox's identity *)
Connect(p, b) == cache' = [cache EXCEPT ![p].conns = @ \cup {b}]

(* A sentinel written in the sandbox is read back there and on the host *)
SeesWorkspace(b) == box[b] = "live"

(* stage_workspace: the controller and the sandbox see the same workspace *)
StageWorkspace(s) ==
  /\ At(s, "running")
  /\ \/ SeesWorkspace(sub[s].held) /\ Connect(Proc(s), sub[s].held) /\ Moves(s, "staged")
     \/ Moves(s, "stopping") /\ UNCHANGED cache
  /\ UNCHANGED <<lock, box, row, faults, side>>

(* validate_for_dispatch: what no longer fits is stopped there and then *)
ValidateForDispatch(s) ==
  /\ At(s, "staged")
  /\ \/ /\ box[sub[s].held] = "live"
        /\ Moves(s, "dispatched") /\ UNCHANGED <<cache, box, faults>>
     \/ /\ \E stopped \in BOOLEAN : Stops(Proc(s), sub[s].held, stopped)
        /\ Moves(s, "stopping")
  /\ UNCHANGED <<lock, row, side>>

(* collect_workspace: the files the executor declared, from the host's side *)
CollectWorkspace(s) ==
  /\ At(s, "dispatched")
  /\ \/ box[sub[s].held] = "live" /\ Connect(Proc(s), sub[s].held)
     \/ UNCHANGED cache
  /\ Moves(s, "stopping")
  /\ UNCHANGED <<lock, box, row, faults, side>>

StopOwned(s) ==
  /\ sub[s].pc \in {"running", "staged", "dispatched", "stopping"}
  /\ \E stopped \in BOOLEAN :
       /\ Stops(Proc(s), sub[s].held, stopped)
       /\ row' = IF stopped THEN [row EXCEPT !.st = "released"] ELSE row
  /\ Ends(s)
  /\ UNCHANGED side

-----------------------------------------------------------------------------
(* Other processes, the service, deaths *)

StopRecorded(p) ==
  /\ row.st = "active"
  /\ \E stopped \in BOOLEAN :
       /\ Answers(p, row.id, stopped)
       /\ row' = IF stopped THEN [row EXCEPT !.st = "released"] ELSE row
  /\ lost' = lost \cup {row.id}
  /\ UNCHANGED <<lock, sub, crashed>>

(* renew_opensandbox_lifetime, executor_control_endpoint: a client by the row *)
Attach(p) ==
  /\ row.st = "active" /\ box[row.id] = "live" /\ row.id \notin cache[p].conns
  /\ Connect(p, row.id)
  /\ UNCHANGED <<lock, sub, box, row, faults, side>>

Lands(b) ==
  /\ box[b] = "late"
  /\ \E st \in {"stray", "gone"} : box' = [box EXCEPT ![b] = st]
  /\ UNCHANGED <<lock, sub, cache, row, faults, side>>

Expires(b) ==
  /\ b \in Live
  /\ box' = [box EXCEPT ![b] = "gone"]
  /\ lost' = lost \cup {b}
  /\ UNCHANGED <<lock, sub, cache, row, faults, crashed>>

Dies(p, s) == sub[s].at = p

Crash(p) ==
  /\ \E s \in Subs : Dies(p, s)
  /\ sub' = [s \in Subs |-> IF Dies(p, s) THEN Ended ELSE sub[s]]
  /\ lock' = IF \E s \in Subs : lock = s /\ Dies(p, s) THEN 0 ELSE lock
  /\ cache' = [cache EXCEPT ![p] = Nothing]
  /\ crashed' = TRUE
  /\ UNCHANGED <<box, row, faults, lost>>

-----------------------------------------------------------------------------
Next ==
  \/ \E s \in Subs :
       \/ Claim(s) \/ ReuseCached(s) \/ DropCached(s) \/ RejectCached(s)
       \/ Reconcile(s) \/ ListRemote(s) \/ ListFails(s)
       \/ Create(s) \/ CreateUnknown(s) \/ CreateRefused(s)
       \/ StartupPasses(s) \/ StartupFails(s) \/ NamelessFails(s)
       \/ RecordLease(s) \/ UndoLease(s) \/ ReleaseClaim(s)
       \/ StageWorkspace(s) \/ ValidateForDispatch(s) \/ CollectWorkspace(s) \/ StopOwned(s)
  \/ \E p \in Procs : StopRecorded(p) \/ Attach(p) \/ Crash(p)
  \/ \E b \in Boxes : Lands(b) \/ Expires(b)

Spec == Init /\ [][Next]_vars

-----------------------------------------------------------------------------
(* Leases, clients and the row name sandboxes. *)
TypeOK ==
  /\ lock \in {0} \cup Subs
  /\ row.id \in {0} \cup Boxes
  /\ \A p \in Procs : cache[p].lease \in {0} \cup Boxes /\ cache[p].conns \subseteq Boxes
  /\ \A s \in Subs : sub[s].held \in {0} \cup Boxes

Given(s) == sub[s].pc \in {"created", "recorded", "running", "staged", "dispatched"}

(* The sandbox a submission was given is alive until its own calls end it,  *)
(* it times out or its row is stopped; it then is the attempt's only one    *)
(* apart from those whose create was never answered ("rather than creating  *)
(* a same-scope peer", create_or_reuse).  As long as no process dies, a     *)
(* sandbox whose identity was answered has a submission, a row or a process *)
(* that tracks it (cleanup_new_sandbox_or_reconcile, stop), and its     *)
(* submission releases a row only once the sandbox is gone.                 *)
SandboxHasOwner ==
  /\ \A s \in Subs : Given(s) =>
       /\ box[sub[s].held] # "gone" \/ sub[s].held \in lost
       /\ \A b \in Boxes : box[b] = "live" => b = sub[s].held
  /\ ~crashed => \A b \in Boxes : box[b] = "live" =>
       \/ \E s \in Subs : sub[s].held = b
       \/ \E p \in Procs : cache[p].lease = b
       \/ row = [st |-> "active", id |-> b]
  /\ row.st = "released" /\ row.id \notin lost => box[row.id] = "gone"
=============================================================================
