------------------------------ MODULE RunQueue ------------------------------
(***************************************************************************)
(* The Redis run queue of app/queue.py, at the grain of its Lua scripts:   *)
(* one script is one atomic step, and every Python await between two Redis *)
(* calls is a point where the other actors may run.                        *)
(*                                                                         *)
(* A message stands for one raw payload; message_id_for_raw is a digest of *)
(* it, so message and id are one value.  The two lists are kept as copy    *)
(* counts: no script below looks at the order of a list.  An absent hash   *)
(* field is NoMeta, whose owner token 0 is never issued.  attempt_id and   *)
(* owner_token are drawn together for each lease and always compared       *)
(* together: `owner' is the pair.  leased_at is left out, because every    *)
(* script keeps leased_at =< heartbeat_at and reads only the larger one.   *)
(***************************************************************************)
EXTENDS Integers, Sequences, FiniteSets, Functions

CONSTANTS
  Msg,             \* raw payloads
  Invalid,         \* those among them this release cannot parse
  Run,             \* runs
  RunOf,           \* the run, tenant and user a payload names
  TenantOf,
  UserOf,
  Worker,          \* worker slots, one lease each
  Reclaimer,       \* processes running reclaim_expired_leases
  Reconciler,      \* processes taking reconciliation fences
  None,            \* no worker, no run, no message, no fence
  MaxProcessing,   \* max_active_worker_runs; 0 is unlimited, as for the next two
  TenantLimit,
  UserLimit,
  MaxAttempts,     \* DEFAULT_MAX_ATTEMPTS
  Visibility,      \* queue_lease_visibility_timeout_seconds
  WorkerTtl,       \* worker_heartbeat_ttl_seconds
  ScanLimit,       \* scan_limit of the fence script
  MaxDeadLetters,  \* queue_dead_letter_max_entries
  PassBudget,      \* _CRITICAL_MAINTENANCE_PHASE_BUDGET_SECONDS
  MaxLeases,       \* bounds of the model: leases issued, admissions,
  MaxEnqueues,     \*   the clock, and how often it is set back
  MaxTime,
  MaxSetbacks

ASSUME FiniteAssumption == IsFiniteSet(Msg)

ASSUME SetsAssumption ==
  /\ Invalid \subseteq Msg
  /\ RunOf \in [Msg -> Run]
  /\ None \notin Msg \cup Run \cup Worker \cup Reconciler

ASSUME LimitsAssumption ==
  /\ MaxProcessing \in Nat /\ TenantLimit \in Nat /\ UserLimit \in Nat
  /\ MaxAttempts \in Nat \ {0}
  /\ Visibility \in Nat \ {0}
  /\ WorkerTtl \in Nat \ {0}
  /\ ScanLimit \in Nat \ {0}
  /\ MaxDeadLetters \in Nat \ {0}
  /\ PassBudget \in Nat
  /\ MaxLeases \in Nat /\ MaxEnqueues \in Nat
  /\ MaxTime \in Nat /\ MaxSetbacks \in Nat

VARIABLES
  queued, processing,           \* the two lists: copies of each message
  queued_meta,                  \* messages with a queued-meta field
  queued_run_index,             \* messages their run's index field lists
  queued_order,                 \* members of the queued-order sorted set
  processing_meta, retry_meta,  \* lease metadata by message
  worker_heartbeat,             \* last heartbeat by worker
  dead_letter,                  \* the dead-letter list, newest last
  fence,                        \* reconciliation fence by run: its token
  handle,                       \* the lease each worker works under
  claim,                        \* the run each reconciler believes it fenced
  todo, checked_at, held,       \* a reclaim pass: items left, its clock, the item in hand
  now, setbacks,                \* Redis TIME
  leases, enqueues,             \* owner tokens issued, messages admitted
  accepted                      \* history: admitted and not yet settled

lists == <<queued, processing>>
queuedVars == <<queued_meta, queued_run_index, queued_order>>
metaVars == <<processing_meta, retry_meta>>
reclaimVars == <<todo, checked_at, held>>
clockVars == <<now, setbacks>>
counterVars == <<leases, enqueues>>
vars == <<lists, queuedVars, metaVars, worker_heartbeat, dead_letter, fence,
          handle, claim, reclaimVars, clockVars, counterVars, accepted>>

NoMeta == [owner |-> 0, worker |-> None, attempts |-> 0, heartbeat_at |-> 0]
Meta == [owner : Nat, worker : Worker \cup {None}, attempts : Nat, heartbeat_at : Nat]

NoHandle == [msg |-> None, owner |-> 0]
Handle == [msg : Msg \cup {None}, owner : Nat]

\* The item a reclaim pass has in hand: none; a message whose processing-meta
\* was absent, so that retry-meta is read next; or the metadata it read and where.
NothingHeld == [step |-> "none", msg |-> None, meta |-> NoMeta]
Held == [step : {"none", "lookup", "processing_meta", "retry_meta"},
         msg : Msg \cup {None}, meta : Meta]

NoBeat == -1

MsgsOf(r) == {m \in Msg : RunOf[m] = r}

\* Mutant: the scripts are handed the wrong fence key.
FencedNever(m) == FALSE

Fenced(m) == fence[RunOf[m]] # None

\* LINDEX finds the payload the scan read; LPOS finds it in the processing list.
StillQueued(m) == queued[m] > 0

StillProcessing(m) == processing[m] > 0

Init ==
  /\ queued = [m \in Msg |-> IF m \in Invalid THEN 1 ELSE 0]
  /\ processing = [m \in Msg |-> 0]
  /\ queued_meta = Invalid
  /\ queued_run_index = Invalid
  /\ queued_order = Invalid
  /\ processing_meta = [m \in Msg |-> NoMeta]
  /\ retry_meta = [m \in Msg |-> NoMeta]
  /\ worker_heartbeat = [w \in Worker |-> NoBeat]
  /\ dead_letter = <<>>
  /\ fence = [r \in Run |-> None]
  /\ handle = [w \in Worker |-> NoHandle]
  /\ claim = [c \in Reconciler |-> None]
  /\ todo = [r \in Reclaimer |-> {}]
  /\ checked_at = [r \in Reclaimer |-> 0]
  /\ held = [r \in Reclaimer |-> NothingHeld]
  /\ now = 0
  /\ setbacks = 0
  /\ leases = 0
  /\ enqueues = 0
  /\ accepted = Invalid

-----------------------------------------------------------------------------
(* Admission and removal. *)

AlreadyEnqueued(m) == m \in queued_run_index /\ m \in queued_meta /\ m \in queued_order
\* Mutant: admission does not look for a lease.
AlreadyLeasedNever(m) == FALSE

AlreadyLeased(m) == processing_meta[m] # NoMeta \/ retry_meta[m] # NoMeta

\* enqueue_run_with_metadata; its other outcomes change nothing.
Enqueue(m) ==
  /\ m \notin Invalid
  /\ enqueues < MaxEnqueues
  /\ ~Fenced(m)
  /\ ~AlreadyEnqueued(m)
  /\ ~AlreadyLeased(m)
  /\ queued' = [queued EXCEPT ![m] = @ + 1]
  /\ queued_meta' = queued_meta \cup {m}
  /\ queued_run_index' = queued_run_index \cup {m}
  /\ queued_order' = queued_order \cup {m}
  /\ enqueues' = enqueues + 1
  /\ accepted' = accepted \cup {m}
  /\ UNCHANGED <<processing, metaVars, worker_heartbeat, dead_letter, fence, handle,
                 claim, reclaimVars, clockVars, leases>>

\* remove_queued_run: the indexed messages that have metadata, else whatever the
\* bounded scan of the list finds.  Retry metadata stays behind.
RemoveQueued(r) ==
  LET indexed == queued_run_index \cap MsgsOf(r)
      matched == indexed \cap queued_meta
      removed == IF matched # {} THEN matched
                 ELSE {m \in MsgsOf(r) \ Invalid : queued[m] > 0}
  IN /\ indexed \cup removed # {}
     /\ queued' = [m \in Msg |-> IF m \in removed THEN 0 ELSE queued[m]]
     /\ queued_meta' = queued_meta \ removed
     /\ queued_order' = queued_order \ (indexed \cup removed)
     /\ queued_run_index' = queued_run_index \ (indexed \cup removed)
     /\ accepted' = accepted \ removed
     /\ UNCHANGED <<processing, metaVars, worker_heartbeat, dead_letter, fence, handle,
                    claim, reclaimVars, clockVars, counterVars>>

\* rpush on the dead-letter list, then _trim_dead_letters.
DeadLettered(m) ==
  LET s == Append(dead_letter, m)
  IN IF Len(s) > MaxDeadLetters THEN Tail(s) ELSE s

\* The lease scan meets a payload it cannot parse.
DeadLetterInvalid(w, m) ==
  /\ handle[w] = NoHandle
  /\ m \in Invalid /\ StillQueued(m)
  /\ queued' = [queued EXCEPT ![m] = @ - 1]
  /\ queued_run_index' = IF m \in queued_meta THEN queued_run_index \ {m} ELSE queued_run_index
  /\ queued_meta' = queued_meta \ {m}
  /\ queued_order' = queued_order \ {m}
  /\ dead_letter' = DeadLettered(m)
  /\ retry_meta' = [retry_meta EXCEPT ![m] = NoMeta]
  /\ accepted' = accepted \ {m}
  /\ UNCHANGED <<processing, processing_meta, worker_heartbeat, fence, handle, claim,
                 reclaimVars, clockVars, counterVars>>

-----------------------------------------------------------------------------
(* Workers: lease, heartbeat, settle. *)

\* The copies in a list of the messages of S.
Copies(list, S) == UNION {{m} \X (1..list[m]) : m \in S}

InProcessing(S) == Cardinality(Copies(processing, S))
\* Mutant: off by one.
AtMostLimit(limit, S) == limit > 0 => InProcessing(S) <= limit

BelowLimit(limit, S) == limit > 0 => InProcessing(S) < limit

HasCapacity(m) ==
  LET tenant == {n \in Msg : TenantOf[n] = TenantOf[m]}
  IN /\ BelowLimit(MaxProcessing, Msg)
     /\ BelowLimit(TenantLimit, tenant)
     /\ BelowLimit(UserLimit, {n \in tenant : UserOf[n] = UserOf[m]})

\* The delivery count survives in retry_meta, and failing that in processing_meta.
NextAttempt(m) ==
  (IF retry_meta[m] # NoMeta THEN retry_meta[m] ELSE processing_meta[m]).attempts + 1

\* Mutant: the lease does not refresh retry_meta.
LeaseKeepsRetryMeta(w, m) ==
  /\ handle[w] = NoHandle
  /\ leases < MaxLeases
  /\ m \notin Invalid /\ StillQueued(m)
  /\ ~Fenced(m)
  /\ HasCapacity(m)
  /\ queued' = [queued EXCEPT ![m] = @ - 1]
  /\ processing' = [processing EXCEPT ![m] = @ + 1]
  /\ queued_meta' = queued_meta \ {m}
  /\ queued_run_index' = queued_run_index \ {m}
  /\ queued_order' = queued_order \ {m}
  /\ processing_meta' = [processing_meta EXCEPT ![m] =
       [owner |-> leases + 1, worker |-> w, attempts |-> NextAttempt(m), heartbeat_at |-> now]]
  /\ worker_heartbeat' = [worker_heartbeat EXCEPT ![w] = now]
  /\ handle' = [handle EXCEPT ![w] = [msg |-> m, owner |-> leases + 1]]
  /\ leases' = leases + 1
  /\ UNCHANGED <<retry_meta, dead_letter, fence, claim, reclaimVars, clockVars, enqueues,
                 accepted>>

Lease(w, m) ==
  LET meta == [owner |-> leases + 1, worker |-> w, attempts |-> NextAttempt(m),
               heartbeat_at |-> now]
  IN /\ handle[w] = NoHandle
     /\ leases < MaxLeases
     /\ m \notin Invalid /\ StillQueued(m)
     /\ ~Fenced(m)
     /\ HasCapacity(m)
     /\ queued' = [queued EXCEPT ![m] = @ - 1]
     /\ processing' = [processing EXCEPT ![m] = @ + 1]
     /\ queued_meta' = queued_meta \ {m}
     /\ queued_run_index' = queued_run_index \ {m}
     /\ queued_order' = queued_order \ {m}
     /\ processing_meta' = [processing_meta EXCEPT ![m] = meta]
     /\ retry_meta' = [retry_meta EXCEPT ![m] = meta]
     /\ worker_heartbeat' = [worker_heartbeat EXCEPT ![w] = now]
     /\ handle' = [handle EXCEPT ![w] = [msg |-> m, owner |-> leases + 1]]
     /\ leases' = leases + 1
     /\ UNCHANGED <<dead_letter, fence, claim, reclaimVars, clockVars, enqueues, accepted>>

\* Mutant: any lease on the message will do.
OwnsAnyLease(w) ==
  /\ handle[w] # NoHandle
  /\ processing_meta[handle[w].msg] # NoMeta

\* The processing-meta test that ack, fail and heartbeat share.
OwnsLease(w) ==
  /\ handle[w] # NoHandle
  /\ processing_meta[handle[w].msg].owner = handle[w].owner

\* heartbeat additionally refuses when retry_meta names another owner.
MayHeartbeat(w) ==
  LET m == handle[w].msg
  IN /\ OwnsLease(w)
     /\ retry_meta[m] # NoMeta => retry_meta[m].owner = handle[w].owner
     /\ ~Fenced(m)

\* A timestamp of this lease, or of this worker, lies ahead of Redis TIME.
ClockRegressed(w) ==
  LET m == handle[w].msg
  IN \/ processing_meta[m].heartbeat_at > now
     \/ retry_meta[m] # NoMeta /\ retry_meta[m].heartbeat_at > now
     \/ worker_heartbeat[w] > now

\* heartbeat_run: both hashes take the new time.  After clock_regressed the worker
\* counts the lease as lost, as after every other refusal.
Heartbeat(w) ==
  LET m == handle[w].msg
      beat == [processing_meta[m] EXCEPT !.heartbeat_at = now]
  IN /\ MayHeartbeat(w)
     /\ processing_meta' = [processing_meta EXCEPT ![m] = beat]
     /\ retry_meta' = [retry_meta EXCEPT ![m] = beat]
     /\ worker_heartbeat' = [worker_heartbeat EXCEPT ![w] = now]
     /\ handle' = IF ClockRegressed(w) THEN [handle EXCEPT ![w] = NoHandle] ELSE handle
     /\ UNCHANGED <<lists, queuedVars, dead_letter, fence, claim, reclaimVars, clockVars,
                    counterVars, accepted>>

\* The worker stops without settling: a refused heartbeat, ack or fail, a lost
\* reply, or a crash.
Abandon(w) ==
  /\ handle[w] # NoHandle
  /\ handle' = [handle EXCEPT ![w] = NoHandle]
  /\ UNCHANGED <<lists, queuedVars, metaVars, worker_heartbeat, dead_letter, fence, claim,
                 reclaimVars, clockVars, counterVars, accepted>>

\* Mutant: LREM of something else.
RemoveNone(list, m) == list

\* LREM count 1: at most one copy goes.
RemoveOne(list, m) == [list EXCEPT ![m] = IF @ > 0 THEN @ - 1 ELSE 0]

MaySettle(w) == OwnsLease(w) /\ ~Fenced(handle[w].msg)

Settle(w, letters) ==
  LET m == handle[w].msg
  IN /\ MaySettle(w)
     /\ processing' = RemoveOne(processing, m)
     /\ processing_meta' = [processing_meta EXCEPT ![m] = NoMeta]
     /\ retry_meta' = [retry_meta EXCEPT ![m] = NoMeta]
     /\ dead_letter' = letters
     /\ handle' = [handle EXCEPT ![w] = NoHandle]
     /\ accepted' = accepted \ {m}
     /\ UNCHANGED <<queued, queuedVars, worker_heartbeat, fence, claim, reclaimVars,
                    clockVars, counterVars>>

Ack(w) == Settle(w, dead_letter)
Fail(w) == Settle(w, DeadLettered(handle[w].msg))

PruneHeartbeat(w) ==
  /\ worker_heartbeat[w] # NoBeat
  /\ now - worker_heartbeat[w] > WorkerTtl
  /\ worker_heartbeat' = [worker_heartbeat EXCEPT ![w] = NoBeat]
  /\ UNCHANGED <<lists, queuedVars, metaVars, dead_letter, fence, handle, claim,
                 reclaimVars, clockVars, counterVars, accepted>>

-----------------------------------------------------------------------------
(* reclaim_expired_leases: one LRANGE, then for each item up to two HGETs and *)
(* one script, each a separate Redis call.                                    *)

Idle(r) == held[r].step = "none"

\* Mutant: a pass may take any time.
InBudgetAlways(r) == TRUE

\* maintenance_phase_until_done cancels a pass that overruns its budget.
InBudget(r) == now - checked_at[r] <= PassBudget

InHand(r) == held[r].step \in {"processing_meta", "retry_meta"} /\ InBudget(r)

ReclaimScan(r) ==
  /\ Idle(r) /\ todo[r] = {}
  /\ todo' = [todo EXCEPT ![r] = {m \in Msg : processing[m] > 0}]
  /\ checked_at' = [checked_at EXCEPT ![r] = now]
  /\ UNCHANGED <<lists, queuedVars, metaVars, worker_heartbeat, dead_letter, fence, handle,
                 claim, held, clockVars, counterVars, accepted>>

Take(r, m, item) ==
  /\ todo' = [todo EXCEPT ![r] = @ \ {m}]
  /\ held' = [held EXCEPT ![r] = item]
  /\ UNCHANGED <<lists, queuedVars, metaVars, worker_heartbeat, dead_letter, fence, handle,
                 claim, checked_at, clockVars, counterVars, accepted>>

\* The pass skips a lease that looks alive at the time the pass began.
LooksAlive(r, meta) ==
  LET age == checked_at[r] - meta.heartbeat_at IN 0 <= age /\ age <= Visibility

ReclaimReadProcessing(r, m) ==
  LET meta == processing_meta[m]
  IN /\ Idle(r) /\ m \in todo[r] /\ InBudget(r)
     /\ \/ /\ meta = NoMeta
           /\ Take(r, m, [step |-> "lookup", msg |-> m, meta |-> NoMeta])
        \/ /\ meta # NoMeta
           /\ Take(r, m, IF LooksAlive(r, meta) THEN NothingHeld
                         ELSE [step |-> "processing_meta", msg |-> m, meta |-> meta])

ReclaimReadRetry(r) ==
  LET m == held[r].msg
  IN /\ held[r].step = "lookup" /\ InBudget(r)
     /\ Take(r, m, IF retry_meta[m] = NoMeta THEN NothingHeld
                   ELSE [step |-> "retry_meta", msg |-> m, meta |-> retry_meta[m]])

\* Mutant: off by one.
ExhaustedLate(r) == held[r].meta.attempts > MaxAttempts

Exhausted(r) == held[r].meta.attempts >= MaxAttempts

\* The lease a reclaim script judges: processing_meta, else retry_meta.
CurrentMeta(m) == IF processing_meta[m] # NoMeta THEN processing_meta[m] ELSE retry_meta[m]

\* The fence and owner tests that the requeue and dead-letter scripts begin with.
Inspects(r) ==
  /\ InHand(r)
  /\ ~Fenced(held[r].msg)
  /\ CurrentMeta(held[r].msg).owner = held[r].meta.owner

\* Mutant: off by one.
ExpiredEarly(m) == now - CurrentMeta(m).heartbeat_at >= Visibility

Expired(m) == now - CurrentMeta(m).heartbeat_at > Visibility

\* normalize_matching_future_metadata.
Normalized(hash, m, owner) ==
  [hash EXCEPT ![m].heartbeat_at = IF hash[m].owner = owner /\ @ > now THEN now ELSE @]

\* reconciliation_fenced or stale_owner.
ReclaimRefused(r) ==
  /\ InHand(r) /\ ~Inspects(r)
  /\ held' = [held EXCEPT ![r] = NothingHeld]
  /\ UNCHANGED <<lists, queuedVars, metaVars, worker_heartbeat, dead_letter, fence, handle,
                 claim, todo, checked_at, clockVars, counterVars, accepted>>

\* lease_clock_normalized, lease_active, or (requeue only) processing_missing.
ReclaimTooEarly(r) ==
  LET m == held[r].msg
      owner == held[r].meta.owner
  IN /\ Inspects(r)
     /\ ~Expired(m) \/ (~Exhausted(r) /\ ~StillProcessing(m))
     /\ processing_meta' = Normalized(processing_meta, m, owner)
     /\ retry_meta' = Normalized(retry_meta, m, owner)
     /\ held' = [held EXCEPT ![r] = NothingHeld]
     /\ UNCHANGED <<lists, queuedVars, worker_heartbeat, dead_letter, fence, handle, claim,
                    todo, checked_at, clockVars, counterVars, accepted>>

\* The requeue script writes back, as retry metadata, what the pass read earlier.
Requeue(r) ==
  LET m == held[r].msg
  IN /\ Inspects(r) /\ ~Exhausted(r)
     /\ Expired(m)
     /\ StillProcessing(m)
     /\ processing' = RemoveOne(processing, m)
     /\ processing_meta' = [processing_meta EXCEPT ![m] = NoMeta]
     /\ retry_meta' = [retry_meta EXCEPT ![m] = held[r].meta]
     /\ queued' = [queued EXCEPT ![m] = @ + 1]
     /\ queued_meta' = queued_meta \cup {m}
     /\ queued_run_index' = queued_run_index \cup {m}
     /\ queued_order' = queued_order \cup {m}
     /\ held' = [held EXCEPT ![r] = NothingHeld]
     /\ UNCHANGED <<worker_heartbeat, dead_letter, fence, handle, claim, todo, checked_at,
                    clockVars, counterVars, accepted>>

\* The dead-letter script does not ask whether the message is still in processing,
\* and keeps processing_meta when the pass had read retry_meta.
DeadLetterExpired(r) ==
  LET m == held[r].msg
  IN /\ Inspects(r) /\ Exhausted(r)
     /\ Expired(m)
     /\ processing' = RemoveOne(processing, m)
     /\ processing_meta' = IF held[r].step = "processing_meta"
                           THEN [processing_meta EXCEPT ![m] = NoMeta]
                           ELSE Normalized(processing_meta, m, held[r].meta.owner)
     /\ retry_meta' = [retry_meta EXCEPT ![m] = NoMeta]
     /\ dead_letter' = DeadLettered(m)
     /\ accepted' = accepted \ {m}
     /\ held' = [held EXCEPT ![r] = NothingHeld]
     /\ UNCHANGED <<queued, queuedVars, worker_heartbeat, fence, handle, claim, todo,
                    checked_at, clockVars, counterVars>>

ReclaimTimesOut(r) ==
  /\ ~InBudget(r)
  /\ todo[r] # {} \/ ~Idle(r)
  /\ todo' = [todo EXCEPT ![r] = {}]
  /\ held' = [held EXCEPT ![r] = NothingHeld]
  /\ UNCHANGED <<lists, queuedVars, metaVars, worker_heartbeat, dead_letter, fence, handle,
                 claim, checked_at, clockVars, counterVars, accepted>>

-----------------------------------------------------------------------------
(* Reconciliation fences. *)

\* metadata_state = "absent" for one lease hash entry: it carries no future time,
\* and it is not fresh with an active worker behind it.
Dormant(meta) ==
  LET beat == worker_heartbeat[meta.worker]
  IN meta # NoMeta =>
       /\ meta.heartbeat_at <= now
       /\ beat <= now
       /\ \/ now - meta.heartbeat_at > WorkerTtl
          \/ beat = NoBeat
          \/ now - beat > WorkerTtl

Depth(list) == SumFunction(list)

\* ACQUIRE_RECONCILIATION_FENCE_SCRIPT answers "claimed".
Ownerless(r) ==
  /\ fence[r] = None
  /\ Depth(queued) <= ScanLimit /\ Depth(processing) <= ScanLimit
  /\ \A m \in Invalid : queued[m] = 0 /\ processing[m] = 0
  /\ \A m \in MsgsOf(r) :
       /\ queued[m] = 0 /\ processing[m] = 0
       /\ m \notin queued_run_index /\ m \notin queued_meta
       /\ Dormant(processing_meta[m]) /\ Dormant(retry_meta[m])

AcquireFence(c, r) ==
  /\ claim[c] = None
  /\ Ownerless(r)
  /\ fence' = [fence EXCEPT ![r] = c]
  /\ claim' = [claim EXCEPT ![c] = r]
  /\ UNCHANGED <<lists, queuedVars, metaVars, worker_heartbeat, dead_letter, handle,
                 reclaimVars, clockVars, counterVars, accepted>>

\* A renewal that finds another token, or none, tells the reconciler it lost the fence.
RenewFenceLost(c) ==
  /\ claim[c] # None
  /\ fence[claim[c]] # c
  /\ claim' = [claim EXCEPT ![c] = None]
  /\ UNCHANGED <<lists, queuedVars, metaVars, worker_heartbeat, dead_letter, fence, handle,
                 reclaimVars, clockVars, counterVars, accepted>>

ReleaseFence(c) ==
  /\ claim[c] # None
  /\ fence' = IF fence[claim[c]] = c THEN [fence EXCEPT ![claim[c]] = None] ELSE fence
  /\ claim' = [claim EXCEPT ![c] = None]
  /\ UNCHANGED <<lists, queuedVars, metaVars, worker_heartbeat, dead_letter, handle,
                 reclaimVars, clockVars, counterVars, accepted>>

\* The PX lifetime runs out, whatever its holder is doing.
FenceExpires(r) ==
  /\ fence[r] # None
  /\ fence' = [fence EXCEPT ![r] = None]
  /\ UNCHANGED <<lists, queuedVars, metaVars, worker_heartbeat, dead_letter, handle, claim,
                 reclaimVars, clockVars, counterVars, accepted>>

-----------------------------------------------------------------------------
(* Redis TIME moves on, and now and then is set back. *)

Tick ==
  /\ now < MaxTime
  /\ now' = now + 1
  /\ UNCHANGED <<lists, queuedVars, metaVars, worker_heartbeat, dead_letter, fence, handle,
                 claim, reclaimVars, setbacks, counterVars, accepted>>

SetBack ==
  /\ setbacks < MaxSetbacks /\ now > 0
  /\ now' = now - 1
  /\ setbacks' = setbacks + 1
  /\ UNCHANGED <<lists, queuedVars, metaVars, worker_heartbeat, dead_letter, fence, handle,
                 claim, reclaimVars, counterVars, accepted>>

WorkerNext(w) ==
  \/ \E m \in Msg : Lease(w, m) \/ DeadLetterInvalid(w, m)
  \/ Heartbeat(w) \/ Abandon(w) \/ Ack(w) \/ Fail(w) \/ PruneHeartbeat(w)

\* What a reclaimer does next is always one of these.
ReclaimNext(r) ==
  \/ ReclaimScan(r)
  \/ \E m \in Msg : ReclaimReadProcessing(r, m)
  \/ ReclaimReadRetry(r)
  \/ ReclaimRefused(r) \/ ReclaimTooEarly(r) \/ Requeue(r) \/ DeadLetterExpired(r)
  \/ ReclaimTimesOut(r)

Next ==
  \/ \E m \in Msg : Enqueue(m)
  \/ \E r \in Run : RemoveQueued(r) \/ FenceExpires(r)
  \/ \E w \in Worker : WorkerNext(w)
  \/ \E r \in Reclaimer : ReclaimNext(r)
  \/ \E c \in Reconciler : (\E r \in Run : AcquireFence(c, r)) \/ RenewFenceLost(c) \/ ReleaseFence(c)
  \/ Tick \/ SetBack

Spec == Init /\ [][Next]_vars

\* maintenance_phase_until_done repeats the reclaim pass, and time passes.
Fairness == WF_vars(Tick) /\ \A r \in Reclaimer : WF_vars(ReclaimNext(r))
FairSpec == Spec /\ Fairness

-----------------------------------------------------------------------------
(* Properties. *)

\* The queue structures, the actors' local variables and the clock keep their types;
\* in particular no script drives a list count below zero.
TypeOK ==
  /\ queued \in [Msg -> Nat] /\ processing \in [Msg -> Nat]
  /\ queued_meta \subseteq Msg /\ queued_run_index \subseteq Msg /\ queued_order \subseteq Msg
  /\ processing_meta \in [Msg -> Meta] /\ retry_meta \in [Msg -> Meta]
  /\ worker_heartbeat \in [Worker -> Nat \cup {NoBeat}]
  /\ dead_letter \in Seq(Msg)
  /\ fence \in [Run -> Reconciler \cup {None}]
  /\ handle \in [Worker -> Handle]
  /\ claim \in [Reconciler -> Run \cup {None}]
  /\ todo \in [Reclaimer -> SUBSET Msg]
  /\ checked_at \in [Reclaimer -> Nat]
  /\ held \in [Reclaimer -> Held]
  /\ now \in Nat /\ setbacks \in Nat /\ leases \in Nat /\ enqueues \in Nat
  /\ accepted \subseteq Msg

\* An admitted message is in exactly one list, once, until it is acknowledged,
\* failed, dead-lettered or removed; a message that is not admitted is in neither.
\* Admission, leasing, the two reclaim scripts and settlement all move messages, and
\* none may lose or duplicate one, whichever way they interleave.
HeldOnce ==
  \A m \in Msg : queued[m] + processing[m] = IF m \in accepted THEN 1 ELSE 0

\* While a reconciliation fence stands on a run, no message of the run is queued or
\* leased: the reconciler may write the run's outcome without a worker being started
\* on it.
FencedRunUnowned ==
  \A m \in Msg : fence[RunOf[m]] # None => queued[m] = 0 /\ processing[m] = 0

\* A message is delivered at most MaxAttempts times between admission and settlement:
\* the count survives a requeue that writes back metadata read before it.
AttemptsBounded ==
  \A m \in Msg : processing_meta[m].attempts <= MaxAttempts /\ retry_meta[m].attempts <= MaxAttempts

\* processing_meta and retry_meta never name different owners of one lease, so the
\* owner that processing_meta names is never refused a heartbeat on account of
\* retry_meta.
MetadataAgrees ==
  \A m \in Msg :
    processing_meta[m] # NoMeta /\ retry_meta[m] # NoMeta =>
      processing_meta[m].owner = retry_meta[m].owner

\* The three admission limits of the lease script hold at all times, however many
\* workers lease at once.
LimitsRespected ==
  /\ MaxProcessing > 0 => InProcessing(Msg) <= MaxProcessing
  /\ \A m \in Msg :
       LET tenant == {n \in Msg : TenantOf[n] = TenantOf[m]}
       IN /\ TenantLimit > 0 => InProcessing(tenant) <= TenantLimit
          /\ UserLimit > 0 => InProcessing({n \in tenant : UserOf[n] = UserOf[m]}) <= UserLimit

\* A lease is taken from a worker only once its last heartbeat is older than the
\* visibility timeout on the Redis clock, although the reclaim pass chose it from
\* metadata it had read before.
TakenOnlyWhenExpired ==
  [][\A m \in Msg :
       processing[m] > 0 /\ processing'[m] = 0 /\ handle' = handle =>
         now - processing_meta[m].heartbeat_at > Visibility]_vars

\* When a worker settles a message, no other worker holds a later lease on it: a
\* worker that was presumed dead cannot acknowledge its successor's delivery.
OnlyNewestLeaseSettles ==
  [][\A v, w \in Worker :
       /\ handle[w] # NoHandle /\ handle[v].msg = handle[w].msg
       /\ processing'[handle[w].msg] < processing[handle[w].msg]
       /\ handle' # handle /\ handle'[w] = NoHandle
       => handle[v].owner <= handle[w].owner]_vars

\* A lease no worker works under any more, whose timeout falls within the model's
\* clock, leaves the processing list: reclaim passes requeue or dead-letter it.
Orphaned(m) ==
  /\ processing[m] > 0
  /\ \A w \in Worker : handle[w].msg # m
  /\ processing_meta[m].heartbeat_at + Visibility < MaxTime
OrphanedLeaseReclaimed == \A m \in Msg : Orphaned(m) ~> processing[m] = 0

\* verify_lease_ownership answers "current".
VerifiesCurrent(w) ==
  /\ OwnsLease(w)
  /\ processing_meta[handle[w].msg].worker = w
  /\ ~Fenced(handle[w].msg)

\* "Prove the full attempt/owner/fence lease remains current": a lease that
\* verify_lease_ownership confirms is still in the processing list.
VerifiedLeaseIsHeld ==
  \A w \in Worker : VerifiesCurrent(w) => processing[handle[w].msg] > 0

=============================================================================
