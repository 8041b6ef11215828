-------------------------- MODULE DockerContainers --------------------------
(***************************************************************************)
(* The containers of one run (DockerContainerProvider): submissions of     *)
(* the run's attempts claim the run in PostgreSQL, create or adopt the     *)
(* executor, its native-tool sidecar and its bridge through a thread of    *)
(* the provider's lane, record the lease, validate it before dispatch and  *)
(* stop it, while other processes sweep orphans and stop recorded leases.  *)
(*                                                                         *)
(* The executor's name belongs to the run, its identity to the submission  *)
(* that created it and its labels to the attempt; the sidecar and the      *)
(* bridge belong to the attempt.  A handle of the Docker SDK is the        *)
(* identity: a removal through it never hits another container.  Every     *)
(* call may fail, MaxFaults times, and a thread that is cancelled still    *)
(* finishes the call it is in.  All requests need the sidecar.             *)
(***************************************************************************)
EXTENDS Naturals, Sequences

CONSTANTS Procs,       \* processes, each with its provider
          Home,        \* the process of the first submission: they are alike
          AttemptOf,   \* the attempt of each submission, in order of their start
          MaxFaults    \* bound: failing calls

VARIABLES lock,     \* the advisory lock of the run: a submission, or 0
          sub,      \* per submission: where it is, its process, the executor it holds
          op,       \* per process: the thread that owns the run's key
          reg,      \* per process: the provider's tracked leases, oldest first
          primary,  \* the container of the run's name
          native,   \* per attempt: the sidecar
          net,      \* per attempt: is there a bridge?
          row,      \* per attempt: the lease row and the identity it names
          faults,   \* failed calls
          past,     \* history: attempts that ended, lost their container or are superseded
          crashed   \* history: a process died

vars == <<lock, sub, op, reg, primary, native, net, row, faults, past, crashed>>

Subs     == DOMAIN AttemptOf
Attempts == {AttemptOf[s] : s \in Subs}
Att(s)   == AttemptOf[s]

NoBox    == [id |-> 0, att |-> 0, st |-> "none"]
NoNative == [st |-> "none", by |-> 0]
Free     == [sub |-> 0, pc |-> "none", cancelled |-> FALSE]

(* A lease before Docker answered has the placeholder identity of its run *)
Lease(i, a) == [id |-> i, att |-> a]
Boot(a)     == Lease(0, a)

Init ==
  /\ lock = 0
  /\ sub = [s \in Subs |-> [pc |-> "idle", at |-> "none", held |-> 0]]
  /\ op = [p \in Procs |-> Free]
  /\ reg = [p \in Procs |-> <<>>]
  /\ primary = NoBox
  /\ native = [a \in Attempts |-> NoNative]
  /\ net = [a \in Attempts |-> FALSE]
  /\ row = [a \in Attempts |-> [st |-> "none", id |-> 0]]
  /\ faults = 0 /\ past = {} /\ crashed = FALSE

docker == <<primary, native, net>>
side   == <<past, crashed>>

-----------------------------------------------------------------------------
(* The registry of tracked leases *)

RememberIfAbsent(r, l) == IF \E i \in DOMAIN r : r[i].id = l.id THEN r ELSE Append(r, l)
Remember(r, l) ==
  IF \E i \in DOMAIN r : r[i].id = l.id
  THEN [i \in DOMAIN r |-> IF r[i].id = l.id THEN l ELSE r[i]] ELSE Append(r, l)
ForgetLease(r, l) == SelectSeq(r, LAMBDA x : x # l)
Cached(p) == IF reg[p] = <<>> THEN Boot(0) ELSE Head(reg[p])

-----------------------------------------------------------------------------
(* What the daemon shows, and what a cleanup does *)

OwnedByRun(l, identity) == primary.id # 0 /\ (identity => primary.id = l.id)

(* is_exact_owned_remote_container *)
Owned(l, identity) ==
  /\ primary.id # 0 /\ primary.att = l.att
  /\ identity => primary.id = l.id

Handle(l, identity) == IF Owned(l, identity) THEN primary.id ELSE 0
Sidecar(a) == IF native[a].st = "up" THEN native[a].by ELSE 0

Parts    == {"primary", "native", "socket", "network"}
Failures == {{}, Parts} \cup {{x} : x \in Parts}
Costs(F) == faults' = (IF F = {} THEN faults ELSE faults + 1) /\ faults' <= MaxFaults
Fault    == faults < MaxFaults /\ faults' = faults + 1

(* A removal through a handle fails when the container is already gone *)
PrimaryGone(h, F)   == h = 0 \/ (primary.id = h /\ "primary" \notin F)
NativeGone(a, n, F) == n = 0 \/ (native[a].by = n /\ "native" \notin F)

NativeAfter(a, n, F, socket) ==
  LET left == IF n # 0 /\ NativeGone(a, n, F)
              THEN [st |-> "socket", by |-> 0] ELSE native[a]
  IN IF socket /\ NativeGone(a, n, F) /\ left.st = "socket" /\ "socket" \notin F
     THEN NoNative ELSE left

(* docker_complete_governed_network_members: the executor on its own bridge *)
Complete(l) == Owned(l, TRUE) /\ primary.st = "running" /\ net[l.att]

(* get_or_create_governed_docker_network *)
Bridged(a) == net' = [net EXCEPT ![a] = TRUE]

(* The bridge goes once no executor is attached to it *)
NetworkGone(a, h, F) ==
  /\ PrimaryGone(h, F) /\ "network" \notin F
  /\ primary.att = a => h # 0

(* _cleanup_runtime_pair_or_track, without the tracking *)
RemovePair(l, h, n, socket, F) ==
  /\ Costs(F)
  /\ primary' = IF h # 0 /\ PrimaryGone(h, F) THEN NoBox ELSE primary
  /\ native' = [native EXCEPT ![l.att] = NativeAfter(l.att, n, F, socket)]
  /\ net' = [net EXCEPT ![l.att] = @ /\ ~NetworkGone(l.att, h, F)]

Confirmed(l, h, n, socket, F) ==
  /\ PrimaryGone(h, F) /\ NativeGone(l.att, n, F) /\ NetworkGone(l.att, h, F)
  /\ socket => "socket" \notin F

(* Remove what the lease owns; forget it, or keep it tracked *)
CleanUp(p, l, h, n, socket) ==
  \E F \in Failures :
    /\ RemovePair(l, h, n, socket, F)
    /\ reg' = [reg EXCEPT ![p] = IF Confirmed(l, h, n, socket, F)
                                 THEN ForgetLease(@, l) ELSE Remember(@, l)]

(* _remove_owned_governed_network, when nothing else is there *)
DropNetwork(p, l) ==
  \E F \in {{}, {"network"}} :
    /\ Costs(F)
    /\ net' = [net EXCEPT ![l.att] = @ /\ ~NetworkGone(l.att, 0, F)]
    /\ reg' = [reg EXCEPT ![p] = IF NetworkGone(l.att, 0, F) THEN @ ELSE RememberIfAbsent(@, l)]
    /\ UNCHANGED <<primary, native>>

-----------------------------------------------------------------------------
(* SandboxRuntime.submit: the claim, and the provider's lane *)

Started(s) == sub[s].pc # "idle"
Ended == [pc |-> "ended", at |-> "none", held |-> 0]
Moves(s, pc) == sub' = [sub EXCEPT ![s] = IF pc = "ended" THEN Ended ELSE [@ EXCEPT !.pc = pc]]
Unlocked(s) == lock' = IF lock = s THEN 0 ELSE lock

(* A new attempt exists only once the queue gave up on the older ones; an   *)
(* attempt belongs to one worker, which may submit it again when the first  *)
(* call is over                                                             *)
Over(t) == sub[t].pc = "ended" /\ \A p \in Procs : op[p].sub # t

Claim(s, p) ==
  /\ sub[s].pc = "idle" /\ lock = 0 /\ (s = 1 => p = Home)
  /\ \A t \in Subs : t < s => Started(t) /\ (Att(t) = Att(s) => Over(t))
  /\ IF row[Att(s)].st = "active"
     THEN Moves(s, "ended") /\ UNCHANGED lock
     ELSE sub' = [sub EXCEPT ![s].pc = "claimed", ![s].at = p] /\ lock' = s
  /\ past' = past \cup {a \in Attempts : a < Att(s)}
  /\ UNCHANGED <<op, reg, docker, row, faults, crashed>>

(* The key of the run admits one operation of the process *)
EnterLane(s) ==
  LET p == sub[s].at IN
  /\ sub[s].pc = "claimed"
  /\ IF op[p].sub = 0
     THEN /\ op' = [op EXCEPT ![p] = [sub |-> s, pc |-> "admit", cancelled |-> FALSE]]
          /\ Moves(s, "creating") /\ UNCHANGED lock
     ELSE Moves(s, "ended") /\ Unlocked(s) /\ UNCHANGED op
  /\ UNCHANGED <<reg, docker, row, faults, side>>

(* The waiter accepts the result, or gives up and lets the thread compensate *)
AcceptLease(s) ==
  LET p == sub[s].at IN
  /\ sub[s].pc = "creating" /\ op[p].sub = s /\ op[p].pc = "done"
  /\ sub' = [sub EXCEPT ![s].pc = "created", ![s].held = primary.id]
  /\ op' = [op EXCEPT ![p] = Free]
  /\ UNCHANGED <<lock, reg, docker, row, faults, side>>

CreateRaises(s) ==
  LET p == sub[s].at IN
  /\ sub[s].pc = "creating" /\ op[p].sub = s /\ op[p].pc = "failed"
  /\ Moves(s, "ended") /\ Unlocked(s)
  /\ op' = [op EXCEPT ![p] = Free]
  /\ UNCHANGED <<reg, docker, row, faults, side>>

CancelCreate(s) ==
  LET p == sub[s].at IN
  /\ sub[s].pc = "creating" /\ op[p].sub = s /\ op[p].pc # "failed"
  /\ Moves(s, "cancelling")
  /\ op' = [op EXCEPT ![p].cancelled = TRUE,
                      ![p].pc = IF @ = "done" THEN "compensate" ELSE @]
  /\ UNCHANGED <<lock, reg, docker, row, faults, side>>

(* The thread has compensated, or is stuck and the waiter stops waiting *)
LeaveCancelled(s) ==
  /\ sub[s].pc = "cancelling"
  /\ Moves(s, "ended") /\ Unlocked(s)
  /\ UNCHANGED <<op, reg, docker, row, faults, side>>

-----------------------------------------------------------------------------
(* create_or_reuse, in the thread of the lane *)

At(p, pc)  == op[p].sub # 0 /\ op[p].pc = pc
Mine(p)    == Att(op[p].sub)
OwnLease(p) == IF Cached(p).att = Mine(p) THEN Cached(p) ELSE Boot(Mine(p))
Known(p)   == Cached(p).att = Mine(p)
Superseding(p) == Cached(p).att \notin {0, Mine(p)}

(* _native_tool_reuse_valid: executor and sidecar share their token *)
Paired(p) == Sidecar(Mine(p)) = primary.id

(* A call that returned to a cancelled thread is followed by a checkpoint *)
Goes(p, pc) == op' = [op EXCEPT ![p].pc = IF op[p].cancelled THEN "compensate" ELSE pc]
InThread == UNCHANGED <<lock, sub, row, side>>

(* A lease of another attempt is tracked: its containers go, and so does this call *)
DropSuperseded(p) ==
  LET l == Cached(p)
      foreign == primary.id # 0 /\ ~Owned(l, TRUE)
      n == Sidecar(l.att)
      h == Handle(l, TRUE)
  IN
  /\ At(p, "admit") /\ Superseding(p)
  /\ \E F \in Failures :
       LET G == IF foreign THEN F \cup {"primary", "network"} ELSE F IN
       /\ Costs(F)
       /\ primary' = IF h # 0 /\ PrimaryGone(h, G) THEN NoBox ELSE primary
       /\ native' = [native EXCEPT ![l.att] = NativeAfter(l.att, n, G, TRUE)]
       /\ net' = [net EXCEPT ![l.att] = @ /\ ~NetworkGone(l.att, h, G)]
       /\ reg' = [reg EXCEPT ![p] =
            IF Confirmed(l, h, n, TRUE, G) /\ ~foreign
            THEN ForgetLease(@, l) ELSE Append(ForgetLease(@, l), l)]
  /\ Goes(p, "failed") /\ InThread

Admit(p) ==
  /\ At(p, "admit") /\ ~Superseding(p)
  /\ Bridged(Mine(p))
  /\ Goes(p, "recover")
  /\ InThread /\ UNCHANGED <<reg, primary, native, faults>>

(* The topology is not admitted: what the attempt owns goes *)
AdmissionFails(p) ==
  LET l == OwnLease(p)
      seen == Handle(l, Known(p))
  IN
  /\ At(p, "admit") /\ ~Superseding(p)
  /\ IF Known(p) /\ primary.id # 0 /\ seen = 0
     THEN UNCHANGED <<docker, reg, faults>>
     ELSE IF seen # 0 THEN CleanUp(p, Lease(seen, l.att), seen, Sidecar(l.att), Known(p))
     ELSE DropNetwork(p, l)
  /\ Goes(p, "failed") /\ InThread

(* The tracked lease has another profile of skills or tools *)
ProfileMismatch(p) ==
  LET l == Cached(p) IN
  /\ At(p, "recover") /\ Known(p) /\ (primary.id = 0 \/ Owned(l, TRUE))
  /\ CleanUp(p, l, Handle(l, TRUE), Sidecar(l.att), TRUE)
  /\ Goes(p, "failed") /\ InThread

(* _recover_remote_docker_lease: nothing has the name *)
RecoverNothing(p) ==
  /\ At(p, "recover") /\ primary.id = 0
  /\ Goes(p, IF Known(p) THEN "failed" ELSE "native")
  /\ InThread /\ UNCHANGED <<reg, docker, faults>>

(* The name is taken by what this lease does not own, or cannot be inspected *)
RecoverForeign(p) ==
  LET l == OwnLease(p) IN
  /\ At(p, "recover") /\ primary.id # 0
  /\ \/ UNCHANGED <<reg, docker, faults>>
     \/ /\ ~Owned(l, Known(p))
        /\ IF Known(p)
           THEN /\ reg' = [reg EXCEPT ![p] = ForgetLease(@, l)]
                /\ UNCHANGED <<docker, faults>>
           ELSE DropNetwork(p, l)
  /\ Goes(p, "failed") /\ InThread

(* It is this attempt's, running, with the sidecar of the same token: adopt it *)
Adopt(p) ==
  /\ At(p, "recover") /\ Owned(OwnLease(p), Known(p)) /\ primary.st = "running"
  /\ Paired(p)
  /\ reg' = [reg EXCEPT ![p] = Remember(@, Lease(primary.id, Mine(p)))]
  /\ Goes(p, "done")
  /\ InThread /\ UNCHANGED <<docker, faults>>

(* It is this attempt's and its proof or its probes fail: it goes, the call *)
(* starts cold unless it had remembered the lease                           *)
RecoverUnfit(p) ==
  LET l == Lease(primary.id, Mine(p)) IN
  /\ At(p, "recover") /\ Owned(OwnLease(p), Known(p))
  /\ \E F \in Failures, sidecar \in BOOLEAN :
       LET n == IF sidecar THEN Sidecar(l.att) ELSE 0
           done == IF sidecar THEN Confirmed(l, l.id, n, TRUE, F) ELSE PrimaryGone(l.id, F)
       IN
       /\ RemovePair(l, l.id, n, sidecar, IF sidecar THEN F ELSE F \cup {"network"})
       /\ reg' = [reg EXCEPT ![p] = IF ~done THEN Remember(@, l)
                                    ELSE IF sidecar THEN ForgetLease(@, l) ELSE @]
       /\ Goes(p, IF done /\ ~Known(p) THEN "native" ELSE "failed")
  /\ InThread

(* The sidecar is not the one of this executor, or is not ready *)
AdoptionFails(p) ==
  LET l == Lease(primary.id, Mine(p)) IN
  /\ At(p, "recover") /\ Owned(OwnLease(p), Known(p)) /\ primary.st = "running"
  /\ CleanUp(p, l, l.id, Sidecar(l.att), TRUE)
  /\ Goes(p, "failed") /\ InThread

-----------------------------------------------------------------------------
(* The cold start *)

(* The second admission does not pass *)
ReadmissionFails(p) ==
  /\ At(p, "native")
  /\ DropNetwork(p, Boot(Mine(p)))
  /\ Goes(p, "failed") /\ InThread

(* The old sidecar of the attempt goes, a new one becomes ready *)
StartNative(p) ==
  /\ At(p, "native")
  /\ Bridged(Mine(p))
  /\ native' = [native EXCEPT ![Mine(p)] = [st |-> "up", by |-> op[p].sub]]
  /\ Goes(p, "create")
  /\ InThread /\ UNCHANGED <<reg, primary, faults>>

(* It did not: its bridge goes with it, unless its removal is not confirmed, *)
(* which is tracked by nobody                                                *)
NativeFails(p) ==
  /\ At(p, "native")
  /\ \/ /\ native' = [native EXCEPT ![Mine(p)] = NoNative]
        /\ \E F \in {{}, {"network"}} :
             /\ Costs(F)
             /\ net' = [net EXCEPT ![Mine(p)] = ~NetworkGone(Mine(p), 0, F)]
             /\ reg' = [reg EXCEPT ![p] = IF NetworkGone(Mine(p), 0, F) THEN @
                                          ELSE Remember(@, Boot(Mine(p)))]
     \/ /\ Costs({"native"})
        /\ native' \in {[native EXCEPT ![Mine(p)] = n] :
             n \in {[st |-> "up", by |-> op[p].sub], [st |-> "socket", by |-> 0]}}
        /\ Bridged(Mine(p))
        /\ UNCHANGED reg
  /\ Goes(p, "failed") /\ InThread /\ UNCHANGED primary

CreatePrimary(p) ==
  /\ At(p, "create") /\ primary.id = 0
  /\ primary' = [id |-> op[p].sub, att |-> Mine(p), st |-> "created"]
  /\ Goes(p, "start")
  /\ InThread /\ UNCHANGED <<reg, native, net, faults>>

(* The name is taken, or the call fails before or after the daemon acted *)
CreateFails(p) ==
  LET a == Mine(p)
      s == op[p].sub
  IN
  /\ At(p, "create")
  /\ IF primary.id # 0 /\ ~Owned(Boot(a), FALSE)
     THEN reg' = [reg EXCEPT ![p] = RememberIfAbsent(@, Boot(a))] /\ UNCHANGED <<docker, faults>>
     ELSE CleanUp(p, Lease(primary.id, a), primary.id, s, TRUE)
  /\ Goes(p, "failed") /\ InThread

StartPrimary(p) ==
  /\ At(p, "start") /\ primary.id = op[p].sub
  /\ primary' = [primary EXCEPT !.st = "running"]
  /\ Goes(p, "probe")
  /\ InThread /\ UNCHANGED <<reg, native, net, faults>>

(* The start, the readback of the bridge, the callback, the address, the    *)
(* health, the user or the identity fails                                   *)
StartupFails(p) ==
  LET s == op[p].sub IN
  /\ At(p, "start") \/ At(p, "probe")
  /\ CleanUp(p, Lease(s, Mine(p)), s, s, TRUE)
  /\ Goes(p, "failed") /\ InThread

ProbesPass(p) ==
  LET s == op[p].sub IN
  /\ At(p, "probe") /\ Complete(Lease(s, Mine(p)))
  /\ Goes(p, "done")
  /\ reg' = [reg EXCEPT ![p] = IF op[p].cancelled THEN @ ELSE Remember(@, Lease(s, Mine(p)))]
  /\ InThread /\ UNCHANGED <<docker, faults>>

(* docker_operation_checkpoint *)
Checkpoint(p) ==
  /\ op[p].cancelled /\ op[p].pc \in {"admit", "recover", "native", "create", "start", "probe"}
  /\ op' = [op EXCEPT ![p].pc = "compensate"]
  /\ InThread /\ UNCHANGED <<reg, docker, faults>>

(* _compensate_cancelled_create, then the thread ends and frees the key *)
Compensate(p) ==
  LET l == OwnLease(p)
      seen == Handle(l, Known(p))
      k == IF seen = 0 THEN l ELSE Lease(seen, l.att)
  IN
  /\ At(p, "compensate")
  /\ IF primary.id # 0 /\ seen = 0
     THEN reg' = [reg EXCEPT ![p] = RememberIfAbsent(@, l)] /\ UNCHANGED <<docker, faults>>
     ELSE CleanUp(p, k, seen, Sidecar(l.att), TRUE)
  /\ op' = [op EXCEPT ![p] = Free]
  /\ InThread

-----------------------------------------------------------------------------
(* The provider's stop, by whoever holds the lease *)

Busy(p) == op[p].sub # 0

(* A run whose key is taken is not stopped and stays tracked *)
StopRefused(p, l) ==
  /\ Busy(p)
  /\ reg' = [reg EXCEPT ![p] = RememberIfAbsent(@, l)]
  /\ UNCHANGED <<docker, faults>>

StopSync(p, l, stopped) ==
  LET h == Handle(l, TRUE)
      n == Sidecar(l.att)
  IN
  /\ ~Busy(p)
  /\ \E F \in Failures :
       /\ RemovePair(l, h, n, TRUE, F)
       /\ stopped = Confirmed(l, h, n, TRUE, F)
       /\ reg' = [reg EXCEPT ![p] = IF stopped THEN ForgetLease(@, l) ELSE RememberIfAbsent(@, l)]

Stops(p, l, stopped) == StopSync(p, l, stopped) \/ (~stopped /\ StopRefused(p, l))

-----------------------------------------------------------------------------
(* The submission goes on with its lease *)

HeldLease(s) == Lease(sub[s].held, Att(s))
Ends(s) == Moves(s, "ended") /\ past' = past \cup {Att(s)}

RecordLease(s) ==
  /\ sub[s].pc = "created"
  /\ row' = [row EXCEPT ![Att(s)] = [st |-> "active", id |-> sub[s].held]]
  /\ Moves(s, "recorded")
  /\ UNCHANGED <<lock, op, reg, docker, faults, side>>

(* The insert failed or is unknown, the caller was cancelled, or the claim  *)
(* could not be released: stop, and write the release only if it stopped    *)
UndoLease(s) ==
  /\ sub[s].pc \in {"created", "recorded"}
  /\ \E stopped \in BOOLEAN, written \in BOOLEAN :
       /\ Stops(sub[s].at, HeldLease(s), stopped)
       /\ row' = [row EXCEPT ![Att(s)] =
            [st |-> IF stopped THEN "released" ELSE IF written THEN "active" ELSE @.st,
             id |-> sub[s].held]]
  /\ Ends(s) /\ Unlocked(s)
  /\ UNCHANGED <<op, crashed>>

ReleaseClaim(s) ==
  /\ sub[s].pc = "recorded"
  /\ Moves(s, "running") /\ Unlocked(s)
  /\ UNCHANGED <<op, reg, docker, row, faults, side>>

(* The last look at the lease before the executor is called *)
ValidateForDispatch(s) ==
  LET p == sub[s].at
      l == HeldLease(s)
  IN
  /\ sub[s].pc = "running"
  /\ \/ /\ ~Busy(p) /\ Complete(l)
        /\ Moves(s, "dispatched") /\ UNCHANGED <<reg, docker, faults>>
     \/ /\ ~Busy(p) /\ CleanUp(p, l, Handle(l, TRUE), Sidecar(l.att), TRUE)
        /\ Moves(s, "stopping")
     \/ /\ Busy(p) /\ Moves(s, "stopping") /\ UNCHANGED <<reg, docker, faults>>
  /\ UNCHANGED <<lock, op, row, side>>

(* stop_owned_runtime: the end of the task, a failure or a cancellation *)
StopOwned(s) ==
  /\ sub[s].pc \in {"running", "dispatched", "stopping"}
  /\ \E stopped \in BOOLEAN :
       /\ Stops(sub[s].at, HeldLease(s), stopped)
       /\ row' = IF stopped THEN [row EXCEPT ![Att(s)].st = "released"] ELSE row
  /\ Ends(s)
  /\ UNCHANGED <<lock, op, crashed>>

-----------------------------------------------------------------------------
(* Other processes, deaths and sweeps *)

(* stop_sandbox_leases: a recorded lease is stopped by whichever process *)
StopRecorded(p, a) ==
  /\ row[a].st = "active"
  /\ \E stopped \in BOOLEAN :
       /\ Stops(p, Lease(row[a].id, a), stopped)
       /\ row' = IF stopped THEN [row EXCEPT ![a].st = "released"] ELSE row
  /\ past' = past \cup {a}
  /\ UNCHANGED <<lock, sub, op, crashed>>

Collected == UNCHANGED <<lock, sub, op, reg, row, faults, side>>

(* cleanup_docker_orphan_resources: only a dead executor, *)
SweepPrimary(p) ==
  /\ ~Busy(p) /\ primary.st = "exited"
  /\ primary' = NoBox
  /\ Collected /\ UNCHANGED <<native, net>>

(* a sidecar without a live executor of its attempt, *)
SweepNative(p, a) ==
  /\ ~Busy(p) /\ native[a].st = "up"
  /\ ~(primary.att = a /\ primary.st \in {"created", "running"})
  /\ native' = [native EXCEPT ![a] = [st |-> "socket", by |-> 0]]
  /\ Collected /\ UNCHANGED <<primary, net>>

(* and a bridge nobody is attached to *)
SweepNetwork(p, a) ==
  /\ ~Busy(p) /\ net[a] /\ primary.att # a
  /\ net' = [net EXCEPT ![a] = FALSE]
  /\ Collected /\ UNCHANGED <<primary, native>>

Exit ==
  /\ primary.st = "running"
  /\ primary' = [primary EXCEPT !.st = "exited"]
  /\ past' = past \cup {primary.att}
  /\ UNCHANGED <<lock, sub, op, reg, native, net, row, faults, crashed>>

Dies(p, s) == sub[s].at = p /\ sub[s].pc \notin {"idle", "ended"}

Crash(p) ==
  /\ \E s \in Subs : Dies(p, s)
  /\ sub' = [s \in Subs |-> IF Dies(p, s) THEN Ended ELSE sub[s]]
  /\ lock' = IF \E s \in Subs : lock = s /\ Dies(p, s) THEN 0 ELSE lock
  /\ op' = [op EXCEPT ![p] = Free]
  /\ reg' = [reg EXCEPT ![p] = <<>>]
  /\ past' = past \cup {Att(s) : s \in {t \in Subs : Dies(p, t)}}
  /\ crashed' = TRUE
  /\ UNCHANGED <<docker, row, faults>>

-----------------------------------------------------------------------------
Next ==
  \/ \E s \in Subs :
       \/ \E p \in Procs : Claim(s, p)
       \/ EnterLane(s) \/ AcceptLease(s) \/ CreateRaises(s)
       \/ CancelCreate(s) \/ LeaveCancelled(s)
       \/ RecordLease(s) \/ UndoLease(s) \/ ReleaseClaim(s)
       \/ ValidateForDispatch(s) \/ StopOwned(s)
  \/ \E p \in Procs :
       \/ DropSuperseded(p) \/ Admit(p) \/ AdmissionFails(p)
       \/ ProfileMismatch(p) \/ RecoverNothing(p) \/ RecoverForeign(p) \/ Adopt(p) \/ RecoverUnfit(p)
       \/ AdoptionFails(p) \/ ReadmissionFails(p) \/ StartNative(p) \/ NativeFails(p)
       \/ CreatePrimary(p) \/ CreateFails(p) \/ StartPrimary(p) \/ StartupFails(p)
       \/ ProbesPass(p) \/ Checkpoint(p) \/ Compensate(p)
       \/ \E a \in Attempts : StopRecorded(p, a) \/ SweepNative(p, a) \/ SweepNetwork(p, a)
       \/ SweepPrimary(p) \/ Crash(p)
  \/ Exit

Spec == Init /\ [][Next]_vars

-----------------------------------------------------------------------------
(* The lock, the container and the leases name submissions and attempts. *)
TypeOK ==
  /\ lock \in {0} \cup Subs
  /\ primary.id \in {0} \cup Subs
  /\ primary.id # 0 => primary.att = Att(primary.id)
  /\ \A p \in Procs : op[p].sub \in {0} \cup Subs

(* The executor a submission was given stays the container of the run until *)
(* its own attempt ends it, it dies, or a newer attempt supersedes it: no   *)
(* late thread, stop or sweep of an older attempt removes it                *)
(* (is_exact_owned_remote_container). And as long as no process dies, a     *)
(* live executor always has somebody who will stop it: the thread creating  *)
(* it, the submission holding it, its lease row, or a provider that tracks  *)
(* it (_cleanup_runtime_pair_or_track, _compensate_cancelled_create).       *)
ContainerHasOwner ==
  /\ \A s \in Subs :
       sub[s].pc \in {"created", "recorded", "running", "dispatched"} /\ Att(s) \notin past
         => primary.id = sub[s].held
  /\ primary.st \in {"created", "running"} /\ ~crashed =>
       \/ \E p \in Procs : op[p].sub # 0 /\ Att(op[p].sub) = primary.att
       \/ \E s \in Subs : sub[s].held = primary.id /\ sub[s].pc # "ended"
       \/ row[primary.att].st = "active"
       \/ \E p \in Procs : \E i \in DOMAIN reg[p] : reg[p][i].att = primary.att
=============================================================================
