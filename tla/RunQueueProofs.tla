--------------------------- MODULE RunQueueProofs ---------------------------
(***************************************************************************)
(* Reclaim and the remaining steps of RunQueue preserve its invariant;     *)
(* the properties follow for every behaviour of the queue.                 *)
(***************************************************************************)
EXTENDS RunQueueInvariant, FiniteSetTheorems

-----------------------------------------------------------------------------
(* The steps of reclaim_expired_leases preserve the invariant, although    *)
(* every script acts on metadata that an earlier call read.                *)

\* What a step may do to the item a reclaimer has in hand: keep it, drop it, take a
\* message to look up, or read the lease metadata of a message.
Rereads(s) ==
  \/ held'[s] = held[s]
  \/ held'[s].step = "none"
  \/ held'[s].step = "lookup" /\ held'[s].msg \in Msg
  \/ /\ held'[s].msg \in Msg
     /\ held'[s].meta.owner > 0
     /\ held'[s].meta \in {processing_meta[held'[s].msg], retry_meta[held'[s].msg]}

\* A step that moves no message and writes no metadata.
LEMMA QuietStepKeeps ==
  ASSUME Inv, TypeOK', FencedRunUnowned',
         UNCHANGED <<lists, queuedVars, metaVars, leases, accepted>>,
         \A v \in Worker : handle'[v] = handle[v] \/ handle'[v] = NoHandle,
         \A s \in Reclaimer : Rereads(s)
  PROVE  Inv'
  <1> USE NoMetaType, MetaFields DEF Inv, lists, queuedVars, metaVars
  <1>1. HeldOnce' /\ QueuedIndexed' /\ ListsMatchMeta' /\ AttemptsBounded' /\ MetadataAgrees'
    BY DEF HeldOnce, QueuedIndexed, ListsMatchMeta, AttemptsBounded, MetadataAgrees
  <1>2. TokensIssued'
    <2>1. \A n \in Msg : Issued(processing_meta[n])' /\ Issued(retry_meta[n])'
      BY DEF TokensIssued, Issued
    <2>2. \A s \in Reclaimer :
            /\ (held[s].step # "none")' => held'[s].msg \in Msg
            /\ Snapshot(s)' => held'[s].meta.owner > 0 /\ held'[s].meta.owner <= leases
      BY DEF TokensIssued, Issued, Snapshot, Rereads
    <2> QED BY <2>1, <2>2 DEF TokensIssued, Snapshot
  <1>3. TokensAgree'
    <2>1. \A s \in Reclaimer : Snapshot(s)' =>
            /\ held'[s].msg \in Msg
            /\ \/ Snapshot(s) /\ held'[s] = held[s]
               \/ held'[s].meta \in {processing_meta[held'[s].msg], retry_meta[held'[s].msg]}
      BY <1>2 DEF Rereads, Snapshot, TokensIssued
    <2>2. \A n \in Msg : SameLease(processing_meta[n], retry_meta[n])
                         /\ SameLease(retry_meta[n], processing_meta[n])
      BY DEF TokensAgree, SameLease
    <2>3. \A s \in Reclaimer : Snapshot(s)' =>
            /\ SameLease(held'[s].meta, processing_meta[held'[s].msg])
            /\ SameLease(held'[s].meta, retry_meta[held'[s].msg])
      BY <2>1, <2>2 DEF TokensAgree, SameLease
    <2>4. \A r, s \in Reclaimer :
            Snapshot(r)' /\ Snapshot(s)' /\ held'[r].msg = held'[s].msg =>
              SameLease(held'[r].meta, held'[s].meta)
      BY <2>1, <2>3 DEF TokensAgree, SameLease
    <2> QED BY <2>2, <2>3, <2>4 DEF TokensAgree, SameLease
  <1> QED BY <1>1, <1>2, <1>3

\* normalize_matching_future_metadata changes times only, never a token or a count.
LEMMA NormalizedKeeps ==
  ASSUME NEW hash \in [Msg -> Meta], NEW m \in Msg, NEW owner \in Nat \ {0}, now \in Nat
  PROVE  /\ Normalized(hash, m, owner) \in [Msg -> Meta]
         /\ \A n \in Msg : /\ Normalized(hash, m, owner)[n].owner = hash[n].owner
                           /\ Normalized(hash, m, owner)[n].attempts = hash[n].attempts
                           /\ hash[n].owner = 0 => Normalized(hash, m, owner)[n] = hash[n]
  <1> DEFINE at == IF hash[m].owner = owner /\ hash[m].heartbeat_at > now
                   THEN now ELSE hash[m].heartbeat_at
             new == [hash[m] EXCEPT !.heartbeat_at = at]
  <1>1. hash[m] \in Meta /\ at \in Nat
    BY MetaFields
  <1>2. new \in Meta /\ new.owner = hash[m].owner /\ new.attempts = hash[m].attempts
    BY <1>1 DEF Meta
  <1>3. hash[m].owner = 0 => new = hash[m]
    BY <1>1 DEF Meta
  <1>4. Normalized(hash, m, owner) = [hash EXCEPT ![m] = new]
    BY DEF Normalized
  <1> HIDE DEF new
  <1> QED BY <1>2, <1>3, <1>4

\* The two HGETs of a reclaim pass copy metadata that agrees with what is stored.
LEMMA ReclaimReadsKeep ==
  ASSUME Inv, NEW r \in Reclaimer,
         (\E m \in Msg : ReclaimReadProcessing(r, m)) \/ ReclaimReadRetry(r)
  PROVE  Inv'
  <1> USE NoMetaType, MetaFields
  <1>1. PICK m \in Msg, item \in Held :
          /\ Take(r, m, item)
          /\ \/ item = NothingHeld
             \/ item.step = "lookup" /\ item.msg = m
             \/ item.msg = m /\ item.meta = processing_meta[m] /\ item.meta # NoMeta
             \/ item.msg = m /\ item.meta = retry_meta[m] /\ item.meta # NoMeta
    <2>1. CASE \E m \in Msg : ReclaimReadProcessing(r, m)
      <3> PICK m \in Msg : ReclaimReadProcessing(r, m)
        BY <2>1
      <3>1. /\ [step |-> "lookup", msg |-> m, meta |-> NoMeta] \in Held
            /\ [step |-> "processing_meta", msg |-> m, meta |-> processing_meta[m]] \in Held
        BY DEF Inv, TypeOK, Held
      <3> QED BY <3>1 DEF ReclaimReadProcessing
    <2>2. CASE ReclaimReadRetry(r)
      <3> DEFINE m == held[r].msg
      <3>1. m \in Msg
        BY <2>2 DEF Inv, TokensIssued, ReclaimReadRetry
      <3>2. [step |-> "retry_meta", msg |-> m, meta |-> retry_meta[m]] \in Held
        BY <3>1 DEF Inv, TypeOK, Held
      <3> QED BY <2>2, <3>1, <3>2 DEF ReclaimReadRetry
    <2> QED BY <2>1, <2>2
  <1> USE <1>1 DEF Take, lists, queuedVars, metaVars, clockVars, counterVars
  <1>2. TypeOK'
    BY DEF Inv, TypeOK
  <1>3. FencedRunUnowned'
    BY DEF Inv, FencedRunUnowned
  <1>4. \A s \in Reclaimer : Rereads(s)
    <2>1. held'[r] = item /\ \A s \in Reclaimer \ {r} : held'[s] = held[s]
      BY DEF Inv, TypeOK
    <2>2. item.meta # NoMeta /\ item.meta \in {processing_meta[m], retry_meta[m]} => item.meta.owner > 0
      BY DEF Inv, TypeOK, TokensIssued, Issued
    <2> QED BY <2>1, <2>2 DEF Rereads, NothingHeld
  <1> QED BY <1>2, <1>3, <1>4, QuietStepKeeps

\* A reclaim script that answers lease_active or processing_missing moves nothing.
LEMMA ReclaimTooEarlyKeeps ==
  ASSUME Inv, NEW r \in Reclaimer, ReclaimTooEarly(r)
  PROVE  Inv'
  <1> USE NoMetaType, MetaFields DEF Inv, lists, queuedVars, clockVars, counterVars
  <1> DEFINE m == held[r].msg
             owner == held[r].meta.owner
  <1>1. m \in Msg /\ owner \in Nat \ {0}
    BY DEF ReclaimTooEarly, Inspects, InHand, TypeOK, TokensIssued, Snapshot
  <1>2. /\ processing_meta' = Normalized(processing_meta, m, owner)
        /\ retry_meta' = Normalized(retry_meta, m, owner)
        /\ held' = [held EXCEPT ![r] = NothingHeld]
        /\ UNCHANGED <<lists, queuedVars, worker_heartbeat, dead_letter, fence, handle, claim,
                       todo, checked_at, clockVars, counterVars, accepted>>
    BY DEF ReclaimTooEarly
  <1> HIDE DEF m, owner
  <1>3. /\ processing_meta' \in [Msg -> Meta] /\ retry_meta' \in [Msg -> Meta]
        /\ \A n \in Msg :
             /\ processing_meta'[n].owner = processing_meta[n].owner
             /\ processing_meta'[n].attempts = processing_meta[n].attempts
             /\ processing_meta[n].owner = 0 => processing_meta'[n] = processing_meta[n]
             /\ retry_meta'[n].owner = retry_meta[n].owner
             /\ retry_meta'[n].attempts = retry_meta[n].attempts
             /\ retry_meta[n].owner = 0 => retry_meta'[n] = retry_meta[n]
    <2>1. processing_meta \in [Msg -> Meta] /\ retry_meta \in [Msg -> Meta] /\ now \in Nat
      BY DEF TypeOK
    <2> QED BY ONLY <1>1, <1>2, <2>1, NormalizedKeeps
  <1>4. \A n \in Msg : /\ processing_meta'[n] = NoMeta <=> processing_meta[n] = NoMeta
                       /\ retry_meta'[n] = NoMeta <=> retry_meta[n] = NoMeta
    BY <1>3 DEF TokensIssued, Issued
  <1>5. TypeOK'
    BY <1>2, <1>3 DEF TypeOK
  <1>6. HeldOnce' /\ FencedRunUnowned' /\ QueuedIndexed'
    BY <1>2 DEF HeldOnce, FencedRunUnowned, QueuedIndexed
  <1>7. ListsMatchMeta' /\ AttemptsBounded' /\ MetadataAgrees'
    BY <1>2, <1>3, <1>4 DEF ListsMatchMeta, AttemptsBounded, MetadataAgrees
  <1>8. held'[r].step = "none" /\ \A s \in Reclaimer \ {r} : held'[s] = held[s]
    BY <1>2 DEF TypeOK, NothingHeld
  <1>9. TokensIssued'
    BY <1>2, <1>3, <1>4, <1>8 DEF TokensIssued, Issued, Snapshot
  <1>10. TokensAgree'
    BY <1>2, <1>3, <1>8 DEF TokensIssued, TokensAgree, SameLease, Snapshot
  <1> QED BY <1>5, <1>6, <1>7, <1>9, <1>10

\* The requeue script writes back older metadata, but of the same lease and count.
LEMMA RequeueKeeps ==
  ASSUME Inv, NEW r \in Reclaimer, Requeue(r)
  PROVE  Inv'
  <1> USE SetsAssumption, LimitsAssumption, NoMetaType, MetaFields
      DEF Inv, clockVars, counterVars
  <1> DEFINE m == held[r].msg
             meta == held[r].meta
  <1>1. /\ m \in Msg /\ meta \in Meta /\ meta # NoMeta /\ meta.owner > 0
        /\ meta.owner <= leases /\ meta.attempts < MaxAttempts /\ Snapshot(r)
    BY DEF Requeue, Exhausted, Inspects, InHand, TypeOK, TokensIssued, Snapshot
  <1>2. queued[m] = 0 /\ processing[m] = 1 /\ m \in accepted /\ fence[RunOf[m]] = None
    BY <1>1, WhereAMessageIs DEF Requeue, StillProcessing, FencedRunUnowned
  <1>3. /\ processing' = RemoveOne(processing, m)
        /\ processing_meta' = [processing_meta EXCEPT ![m] = NoMeta]
        /\ retry_meta' = [retry_meta EXCEPT ![m] = meta]
        /\ queued' = [queued EXCEPT ![m] = @ + 1]
        /\ queued_meta' = queued_meta \cup {m}
        /\ queued_run_index' = queued_run_index \cup {m}
        /\ queued_order' = queued_order \cup {m}
        /\ held' = [held EXCEPT ![r] = NothingHeld]
        /\ UNCHANGED <<worker_heartbeat, dead_letter, fence, handle, claim, todo, checked_at,
                       clockVars, counterVars, accepted>>
    BY DEF Requeue
  <1> HIDE DEF m, meta
  <1>4. /\ processing' \in [Msg -> Nat] /\ processing'[m] = 0
        /\ \A n \in Msg \ {m} : processing'[n] = processing[n]
        /\ queued' \in [Msg -> Nat] /\ queued'[m] = 1
        /\ \A n \in Msg \ {m} : queued'[n] = queued[n]
    BY <1>1, <1>2, <1>3 DEF TypeOK, RemoveOne
  <1>5. held'[r].step = "none" /\ \A s \in Reclaimer \ {r} : held'[s] = held[s]
    BY <1>3 DEF TypeOK, NothingHeld
  <1>6. TypeOK'
    BY <1>1, <1>3, <1>4 DEF TypeOK
  <1>7. HeldOnce' /\ FencedRunUnowned'
    BY <1>2, <1>3, <1>4 DEF HeldOnce, FencedRunUnowned
  <1>8. QueuedIndexed' /\ ListsMatchMeta'
    BY <1>1, <1>3, <1>4 DEF TypeOK, QueuedIndexed, ListsMatchMeta
  <1>9. TokensIssued'
    BY <1>1, <1>3, <1>5 DEF TypeOK, TokensIssued, Issued, Snapshot
  <1>10. TokensAgree'
    <2>1. \A s \in Reclaimer : Snapshot(s)' => s # r /\ Snapshot(s) /\ held'[s] = held[s]
                                              /\ held[s].meta.owner > 0
      BY <1>5 DEF Snapshot, TokensIssued
    <2>2. \A s \in Reclaimer : Snapshot(s) /\ held[s].msg = m => SameLease(held[s].meta, meta)
      BY <1>1 DEF TokensAgree, m, meta
    <2>3. \A n \in Msg : SameLease(processing_meta[n], retry_meta[n])'
      BY <1>1, <1>3 DEF TypeOK, TokensAgree, SameLease
    <2>4. \A s \in Reclaimer : Snapshot(s)' =>
            /\ SameLease(held[s].meta, processing_meta'[held[s].msg])
            /\ SameLease(held[s].meta, retry_meta'[held[s].msg])
      BY <1>1, <1>3, <2>1, <2>2 DEF TypeOK, TokensAgree, SameLease
    <2> QED BY <2>1, <2>3, <2>4 DEF TokensAgree, SameLease
  <1>11. AttemptsBounded' /\ MetadataAgrees'
    BY <1>1, <1>3 DEF TypeOK, AttemptsBounded, MetadataAgrees
  <1> QED BY <1>6, <1>7, <1>8, <1>9, <1>10, <1>11

\* The dead-letter script, which does not look at the lists, never meets a queued message.
LEMMA DeadLetterExpiredKeeps ==
  ASSUME Inv, NEW r \in Reclaimer, DeadLetterExpired(r)
  PROVE  Inv'
  <1> USE SetsAssumption, LimitsAssumption, NoMetaType, MetaFields
      DEF Inv, queuedVars, clockVars, counterVars
  <1> DEFINE m == held[r].msg
             meta == held[r].meta
  <1>1. /\ m \in Msg /\ meta \in Meta /\ meta.owner > 0 /\ Snapshot(r)
        /\ meta.attempts >= MaxAttempts /\ CurrentMeta(m).owner = meta.owner
    BY DEF DeadLetterExpired, Exhausted, Inspects, InHand, TypeOK, TokensIssued, Snapshot
  <1>2. queued[m] = 0 /\ (processing[m] = 0 \/ processing[m] = 1)
    <2>1. CurrentMeta(m).attempts = meta.attempts
      BY <1>1 DEF CurrentMeta, TokensAgree, SameLease
    <2>2. queued[m] > 0 => FALSE
      BY <1>1, <2>1 DEF CurrentMeta, ListsMatchMeta, TypeOK
    <2> QED BY <1>1, <2>2, WhereAMessageIs
  <1>3. /\ processing' = RemoveOne(processing, m)
        /\ \/ processing_meta' = [processing_meta EXCEPT ![m] = NoMeta]
           \/ processing_meta' = Normalized(processing_meta, m, meta.owner)
        /\ retry_meta' = [retry_meta EXCEPT ![m] = NoMeta]
        /\ dead_letter' = DeadLettered(m)
        /\ accepted' = accepted \ {m}
        /\ held' = [held EXCEPT ![r] = NothingHeld]
        /\ UNCHANGED <<queued, queuedVars, worker_heartbeat, fence, handle, claim, todo,
                       checked_at, clockVars, counterVars>>
    BY DEF DeadLetterExpired
  <1> HIDE DEF m, meta
  <1>4. /\ processing' \in [Msg -> Nat] /\ processing'[m] = 0
        /\ \A n \in Msg \ {m} : processing'[n] = processing[n]
    BY <1>1, <1>2, <1>3 DEF TypeOK, RemoveOne
  <1>5. held'[r].step = "none" /\ \A s \in Reclaimer \ {r} : held'[s] = held[s]
    BY <1>3 DEF TypeOK, NothingHeld
  <1>6. /\ processing_meta' \in [Msg -> Meta]
        /\ \A n \in Msg :
             \/ n = m /\ processing_meta'[n] = NoMeta
             \/ /\ processing_meta'[n].owner = processing_meta[n].owner
                /\ processing_meta'[n].attempts = processing_meta[n].attempts
                /\ processing_meta[n].owner = 0 => processing_meta'[n] = processing_meta[n]
    <2>1. processing_meta \in [Msg -> Meta] /\ now \in Nat /\ meta.owner \in Nat \ {0}
      BY <1>1 DEF TypeOK
    <2>2. CASE processing_meta' = [processing_meta EXCEPT ![m] = NoMeta]
      BY ONLY <1>1, <2>1, <2>2, NoMetaType
    <2>3. CASE processing_meta' = Normalized(processing_meta, m, meta.owner)
      BY ONLY <1>1, <2>1, <2>3, NormalizedKeeps
    <2> QED BY <1>3, <2>2, <2>3
  <1>7. TypeOK'
    BY <1>1, <1>3, <1>4, <1>6, DeadLetteredType DEF TypeOK
  <1>8. HeldOnce' /\ FencedRunUnowned'
    <2>1. \A n \in Msg : n # m =>
            /\ queued'[n] + processing'[n] = queued[n] + processing[n]
            /\ n \in accepted' <=> n \in accepted
      BY <1>3, <1>4
    <2>2. queued'[m] + processing'[m] = 0 /\ m \notin accepted'
      BY <1>2, <1>3, <1>4
    <2>3. HeldOnce'
      BY <2>1, <2>2 DEF HeldOnce
    <2>4. FencedRunUnowned'
      BY <1>3, <1>4 DEF FencedRunUnowned
    <2> QED BY <2>3, <2>4
  <1>9. QueuedIndexed' /\ ListsMatchMeta'
    BY <1>1, <1>2, <1>3, <1>4, <1>6 DEF TypeOK, TokensIssued, Issued, QueuedIndexed, ListsMatchMeta
  <1>10. TokensIssued'
    BY <1>1, <1>3, <1>5, <1>6 DEF TypeOK, TokensIssued, Issued, Snapshot
  <1>11. /\ retry_meta'[m] = NoMeta
         /\ \A n \in Msg \ {m} : retry_meta'[n] = retry_meta[n]
         /\ \A n \in Msg : processing_meta[n] = NoMeta => processing_meta'[n] = NoMeta
         /\ \A n \in Msg : processing_meta'[n].owner = 0 => processing_meta'[n].attempts = 0
    <2>1. retry_meta'[m] = NoMeta /\ \A n \in Msg \ {m} : retry_meta'[n] = retry_meta[n]
      BY <1>1, <1>3 DEF TypeOK
    <2>2. /\ \A n \in Msg : processing_meta[n] = NoMeta => processing_meta'[n] = NoMeta
          /\ \A n \in Msg : processing_meta'[n].owner = 0 => processing_meta'[n].attempts = 0
      BY ONLY TokensIssued, <1>6, MetaFields DEF TokensIssued, Issued
    <2> QED BY <2>1, <2>2
  <1>12. TokensAgree'
    <2>1. \A n \in Msg : SameLease(processing_meta[n], retry_meta[n])'
      BY ONLY TokensAgree, <1>6, <1>11, MetaFields DEF TokensAgree, SameLease
    <2>2. \A s \in Reclaimer : Snapshot(s)' => Snapshot(s) /\ held'[s] = held[s]
                                /\ held[s].msg \in Msg /\ held[s].meta.owner > 0
      BY <1>5 DEF Snapshot, TokensIssued
    <2>3. \A s \in Reclaimer : Snapshot(s)' =>
            /\ SameLease(held[s].meta, processing_meta'[held[s].msg])
            /\ SameLease(held[s].meta, retry_meta'[held[s].msg])
      BY ONLY TokensAgree, <1>6, <1>11, <2>2, MetaFields DEF TokensAgree, SameLease
    <2>4. \A q, s \in Reclaimer :
            Snapshot(q)' /\ Snapshot(s)' /\ held'[q].msg = held'[s].msg =>
              SameLease(held'[q].meta, held'[s].meta)
      BY ONLY TokensAgree, <2>2 DEF TokensAgree
    <2> QED BY ONLY <2>1, <2>2, <2>3, <2>4 DEF TokensAgree, SameLease
  <1>13. AttemptsBounded'
    <2>1. \A n \in Msg : retry_meta'[n].attempts = 0 \/ retry_meta'[n].attempts = retry_meta[n].attempts
      BY <1>11
    <2>2. \A n \in Msg : \/ processing_meta'[n].attempts = 0
                         \/ processing_meta'[n].attempts = processing_meta[n].attempts
      BY <1>6
    <2>3. 0 <= MaxAttempts
      OBVIOUS
    <2> QED BY ONLY Inv, <2>1, <2>2, <2>3 DEF Inv, AttemptsBounded
  <1>14. MetadataAgrees'
    BY <1>6, <1>11 DEF MetadataAgrees
  <1> QED BY <1>7, <1>8, <1>9, <1>10, <1>12, <1>13, <1>14

-----------------------------------------------------------------------------
\* Operations that touch only a worker's handle or heartbeat, a reclaim pass, or the clock.
LEMMA IdleStepsKeep ==
  ASSUME Inv,
         \/ \E w \in Worker : Abandon(w) \/ PruneHeartbeat(w)
         \/ \E r \in Reclaimer : ReclaimScan(r) \/ ReclaimRefused(r) \/ ReclaimTimesOut(r)
         \/ Tick \/ SetBack
  PROVE  Inv'
  <1> USE NoMetaType
      DEF Abandon, PruneHeartbeat, ReclaimScan, ReclaimRefused, ReclaimTimesOut, Tick,
          SetBack, lists, queuedVars, metaVars, reclaimVars, clockVars, counterVars
  <1>1. TypeOK'
    <2>1. CASE \E w \in Worker : Abandon(w) \/ PruneHeartbeat(w)
      BY <2>1 DEF Inv, TypeOK
    <2>2. ASSUME NEW r \in Reclaimer, ReclaimScan(r) PROVE TypeOK'
      <3>1. {m \in Msg : processing[m] > 0} \in SUBSET Msg
        OBVIOUS
      <3> QED BY <2>2, <3>1 DEF Inv, TypeOK
    <2>3. ASSUME NEW r \in Reclaimer, ReclaimRefused(r) \/ ReclaimTimesOut(r) PROVE TypeOK'
      <3>1. held' = [held EXCEPT ![r] = NothingHeld]
        BY <2>3
      <3>2. todo' = todo \/ todo' = [todo EXCEPT ![r] = {}]
        BY <2>3
      <3>3. held' \in [Reclaimer -> Held] /\ todo' \in [Reclaimer -> SUBSET Msg]
        BY ONLY Inv, <3>1, <3>2, NoMetaType DEF Inv, TypeOK
      <3> QED BY <2>3, <3>3 DEF Inv, TypeOK
    <2>4. CASE Tick \/ SetBack
      BY <2>4 DEF Inv, TypeOK
    <2> QED BY <2>1, <2>2, <2>3, <2>4
  <1>2. FencedRunUnowned'
    BY DEF Inv, FencedRunUnowned
  <1>3. UNCHANGED <<lists, queuedVars, metaVars, leases, accepted>>
    OBVIOUS
  <1>4. \A v \in Worker : handle'[v] = handle[v] \/ handle'[v] = NoHandle
    BY DEF Inv, TypeOK
  <1>5. \A s \in Reclaimer : Rereads(s)
    <2>1. held \in [Reclaimer -> Held] /\ NothingHeld.step = "none"
      BY DEF Inv, TypeOK, NothingHeld
    <2>2. held' = held \/ \E r \in Reclaimer : held' = [held EXCEPT ![r] = NothingHeld]
      OBVIOUS
    <2> QED BY ONLY <2>1, <2>2 DEF Rereads
  <1> QED BY ONLY Inv, <1>1, <1>2, <1>3, <1>4, <1>5, QuietStepKeeps

\* Fences come and go only where the run has no message in either list.
LEMMA FenceStepsKeep ==
  ASSUME Inv,
         \/ \E c \in Reconciler : (\E r \in Run : AcquireFence(c, r)) \/ RenewFenceLost(c)
                                  \/ ReleaseFence(c)
         \/ \E r \in Run : FenceExpires(r)
  PROVE  Inv'
  <1> USE SetsAssumption, NoMetaType
      DEF AcquireFence, RenewFenceLost, ReleaseFence, FenceExpires, lists, queuedVars,
          metaVars, reclaimVars, clockVars, counterVars
  <1>1. fence' \in [Run -> Reconciler \cup {None}] /\ claim' \in [Reconciler -> Run \cup {None}]
    <2>1. fence \in [Run -> Reconciler \cup {None}] /\ claim \in [Reconciler -> Run \cup {None}]
      BY DEF Inv, TypeOK
    <2>2. CASE \E c \in Reconciler, r \in Run : AcquireFence(c, r)
      BY ONLY <2>1, <2>2 DEF AcquireFence
    <2>3. CASE \E c \in Reconciler : RenewFenceLost(c)
      BY ONLY <2>1, <2>3 DEF RenewFenceLost
    <2>4. CASE \E c \in Reconciler : ReleaseFence(c)
      BY ONLY <2>1, <2>4 DEF ReleaseFence
    <2>5. CASE \E r \in Run : FenceExpires(r)
      BY ONLY <2>1, <2>5 DEF FenceExpires
    <2> QED BY <2>2, <2>3, <2>4, <2>5
  <1>2. FencedRunUnowned'
    BY DEF Inv, TypeOK, FencedRunUnowned, Ownerless, MsgsOf
  <1>3. UNCHANGED <<lists, queuedVars, metaVars, leases, accepted, handle, held>>
    OBVIOUS
  <1>4. UNCHANGED <<worker_heartbeat, dead_letter, todo, checked_at, now, setbacks, enqueues>>
    OBVIOUS
  <1>5. TypeOK'
    BY ONLY Inv, <1>1, <1>3, <1>4 DEF Inv, TypeOK, lists, queuedVars, metaVars
  <1> QED BY ONLY Inv, <1>2, <1>3, <1>5, QuietStepKeeps DEF Rereads

\* Every step of every actor preserves Inv.
THEOREM NextKeepsInv == Inv /\ [Next]_vars => Inv'
  <1> SUFFICES ASSUME Inv, [Next]_vars PROVE Inv'
    OBVIOUS
  <1>1. CASE \E m \in Msg : Enqueue(m)
    BY <1>1, EnqueueKeeps
  <1>2. CASE \E r \in Run : RemoveQueued(r)
    BY <1>2, RemoveQueuedKeeps
  <1>3. ASSUME NEW w \in Worker, WorkerNext(w) PROVE Inv'
    <2>1. CASE \E m \in Msg : Lease(w, m) \/ DeadLetterInvalid(w, m)
      BY <2>1, LeaseKeeps, DeadLetterInvalidKeeps
    <2>2. CASE Heartbeat(w)
      BY <2>2, HeartbeatKeeps
    <2>3. CASE Ack(w)
      BY <2>3, SettleKeeps DEF Ack, Inv, TypeOK
    <2>4. CASE Fail(w)
      <3>1. handle[w].msg \in Msg /\ dead_letter \in Seq(Msg)
        BY <2>4 DEF Fail, Settle, MaySettle, OwnsLease, Inv, TokensIssued, TypeOK
      <3> QED BY <2>4, <3>1, DeadLetteredType, SettleKeeps DEF Fail
    <2>5. CASE Abandon(w) \/ PruneHeartbeat(w)
      BY <2>5, IdleStepsKeep
    <2> QED BY <1>3, <2>1, <2>2, <2>3, <2>4, <2>5 DEF WorkerNext
  <1>4. ASSUME NEW r \in Reclaimer, ReclaimNext(r) PROVE Inv'
    BY <1>4, IdleStepsKeep, ReclaimReadsKeep, ReclaimTooEarlyKeeps, RequeueKeeps,
       DeadLetterExpiredKeeps DEF ReclaimNext
  <1>5. CASE Tick \/ SetBack
    BY <1>5, IdleStepsKeep
  <1>6. CASE \/ \E c \in Reconciler : (\E r \in Run : AcquireFence(c, r)) \/ RenewFenceLost(c)
                                      \/ ReleaseFence(c)
             \/ \E r \in Run : FenceExpires(r)
    BY <1>6, FenceStepsKeep
  <1>7. CASE UNCHANGED vars
    BY <1>7 DEF vars, lists, queuedVars, metaVars, reclaimVars, clockVars, counterVars, Inv,
         TypeOK, HeldOnce, FencedRunUnowned, QueuedIndexed, ListsMatchMeta, TokensIssued,
         Issued, TokensAgree, SameLease, Snapshot, AttemptsBounded, MetadataAgrees
  <1> QED BY <1>1, <1>2, <1>3, <1>4, <1>5, <1>6, <1>7 DEF Next

\* Inv holds throughout every behaviour of the queue.
THEOREM Invariance == Spec => []Inv
  BY InitInv, NextKeepsInv, PTL DEF Spec

-----------------------------------------------------------------------------
(* The properties. *)

\* Every reachable state of the queue is well typed.
THEOREM TypeCorrect == Spec => []TypeOK
  <1>1. Inv => TypeOK
    BY DEF Inv
  <1> QED BY <1>1, Invariance, PTL

\* No interleaving of admission, leasing, settlement, reclaim passes, fences and clock
\* changes loses an admitted message or puts it in the lists twice.
THEOREM NoLossNoDuplicate == Spec => []HeldOnce
  <1>1. Inv => HeldOnce
    BY DEF Inv
  <1> QED BY <1>1, Invariance, PTL

\* A standing reconciliation fence keeps every message of its run out of both lists.
THEOREM FenceExcludesDelivery == Spec => []FencedRunUnowned
  <1>1. Inv => FencedRunUnowned
    BY DEF Inv
  <1> QED BY <1>1, Invariance, PTL

\* No message is delivered more than MaxAttempts times.
THEOREM DeliveriesBounded == Spec => []AttemptsBounded
  <1>1. Inv => AttemptsBounded
    BY DEF Inv
  <1> QED BY <1>1, Invariance, PTL

\* The two lease hashes never name different owners of a message.
THEOREM LeaseHashesAgree == Spec => []MetadataAgrees
  <1>1. Inv => MetadataAgrees
    BY DEF Inv
  <1> QED BY <1>1, Invariance, PTL

-----------------------------------------------------------------------------
(* What a step may never do. *)

\* The processing hash names the newest lease that any worker still works under.
NewestNamed ==
  \A m \in Msg, v \in Worker :
    processing_meta[m] # NoMeta /\ handle[v].msg = m => handle[v].owner <= processing_meta[m].owner

\* No step but a lease hands out a token or writes a new one.
LEMMA OnlyLeaseWritesTokens ==
  ASSUME Inv, [Next]_vars, \A w \in Worker, m \in Msg : ~Lease(w, m)
  PROVE  /\ \A v \in Worker : handle'[v] = handle[v] \/ handle'[v] = NoHandle
         /\ \A n \in Msg : \/ processing_meta'[n] = NoMeta
                           \/ /\ processing_meta[n] # NoMeta
                              /\ processing_meta'[n].owner = processing_meta[n].owner
  <1> DEFINE Quiet == UNCHANGED <<handle, processing_meta>>
             Good == /\ \A v \in Worker : handle'[v] = handle[v] \/ handle'[v] = NoHandle
                     /\ \A n \in Msg : \/ processing_meta'[n] = NoMeta
                                       \/ /\ processing_meta[n] # NoMeta
                                          /\ processing_meta'[n].owner = processing_meta[n].owner
  <1> USE NoMetaType, MetaFields DEF metaVars
  <1>1. Quiet => Good
    OBVIOUS
  <1>2. ASSUME NEW hash \in [Msg -> Meta], NEW m \in Msg, NEW owner \in Nat \ {0},
               hash = processing_meta, processing_meta' = Normalized(hash, m, owner)
        PROVE  \A n \in Msg : \/ processing_meta'[n] = NoMeta
                              \/ /\ processing_meta[n] # NoMeta
                                 /\ processing_meta'[n].owner = processing_meta[n].owner
    <2>1. now \in Nat
      BY DEF Inv, TypeOK
    <2> QED BY ONLY <1>2, <2>1, NormalizedKeeps, MetaFields
  <1>3. ASSUME NEW w \in Worker, WorkerNext(w) PROVE Good
    <2>1. CASE \E m \in Msg : DeadLetterInvalid(w, m)
      BY <1>1, <2>1 DEF DeadLetterInvalid
    <2>2. CASE Heartbeat(w)
      <3>1. handle[w].msg \in Msg /\ processing_meta[handle[w].msg].owner > 0
        BY <2>2 DEF Heartbeat, MayHeartbeat, OwnsLease, Inv, TokensIssued
      <3>2. [processing_meta[handle[w].msg] EXCEPT !.heartbeat_at = now].owner
              = processing_meta[handle[w].msg].owner
        BY <3>1 DEF Inv, TypeOK, Meta
      <3>3. processing_meta[handle[w].msg] # NoMeta
        BY <3>1
      <3> QED BY <2>2, <3>1, <3>2, <3>3 DEF Heartbeat, Inv, TypeOK
    <2>3. CASE Abandon(w) \/ PruneHeartbeat(w)
      BY <2>3 DEF Abandon, PruneHeartbeat, Inv, TypeOK
    <2>4. CASE Ack(w) \/ Fail(w)
      BY <2>4 DEF Ack, Fail, Settle, Inv, TypeOK
    <2> QED BY <1>3, <2>1, <2>2, <2>3, <2>4 DEF WorkerNext
  <1>4. ASSUME NEW r \in Reclaimer, ReclaimNext(r) PROVE Good
    <2>1. CASE \/ ReclaimScan(r) \/ ReclaimReadRetry(r) \/ ReclaimRefused(r) \/ ReclaimTimesOut(r)
               \/ \E m \in Msg : ReclaimReadProcessing(r, m)
      BY <1>1, <2>1 DEF ReclaimScan, ReclaimReadRetry, ReclaimRefused, ReclaimTimesOut,
                        ReclaimReadProcessing, Take
    <2>2. CASE Requeue(r)
      BY <2>2 DEF Requeue, Inv, TypeOK
    <2>3. Inspects(r) => held[r].msg \in Msg /\ held[r].meta.owner \in Nat \ {0}
      <3>1. held[r] \in Held
        BY DEF Inv, TypeOK
      <3>2. Snapshot(r) => held[r].msg \in Msg /\ held[r].meta.owner > 0
        BY DEF Inv, TokensIssued, Snapshot
      <3>3. Inspects(r) => Snapshot(r)
        BY DEF Inspects, InHand, Snapshot
      <3> QED BY ONLY <3>1, <3>2, <3>3 DEF Held, Meta, Snapshot
    <2>4. processing_meta \in [Msg -> Meta]
      BY DEF Inv, TypeOK
    <2>5. CASE ReclaimTooEarly(r)
      BY <1>2, <2>3, <2>4, <2>5 DEF ReclaimTooEarly
    <2>6. CASE DeadLetterExpired(r)
      BY <1>2, <2>3, <2>4, <2>6 DEF DeadLetterExpired
    <2> QED BY <1>4, <2>1, <2>2, <2>5, <2>6 DEF ReclaimNext
  <1>5. CASE \/ \E m \in Msg : Enqueue(m)
             \/ \E r \in Run : RemoveQueued(r) \/ FenceExpires(r)
             \/ \E c \in Reconciler : (\E r \in Run : AcquireFence(c, r)) \/ RenewFenceLost(c)
                                      \/ ReleaseFence(c)
             \/ Tick \/ SetBack \/ UNCHANGED vars
    BY <1>1, <1>5 DEF Enqueue, RemoveQueued, FenceExpires, AcquireFence, RenewFenceLost,
                      ReleaseFence, Tick, SetBack, vars
  <1> QED BY <1>3, <1>4, <1>5 DEF Next

\* The token in the processing hash is the newest any worker still holds on the message.
LEMMA NewestInvariance == Spec => []NewestNamed
  <1>1. Init => NewestNamed
    BY DEF Init, NewestNamed
  <1>2. ASSUME Inv, NewestNamed, [Next]_vars PROVE NewestNamed'
    <2> USE SetsAssumption, NoMetaType, MetaFields
    <2>1. CASE \A w \in Worker, m \in Msg : ~Lease(w, m)
      <3>1. /\ \A v \in Worker : handle'[v] = handle[v] \/ handle'[v] = NoHandle
            /\ \A n \in Msg : \/ processing_meta'[n] = NoMeta
                              \/ /\ processing_meta[n] # NoMeta
                                 /\ processing_meta'[n].owner = processing_meta[n].owner
        BY <1>2, <2>1, OnlyLeaseWritesTokens
      <3> QED BY <1>2, <3>1 DEF NewestNamed, NoHandle
    <2>2. ASSUME NEW w \in Worker, NEW m \in Msg, Lease(w, m) PROVE NewestNamed'
      <3>1. /\ processing_meta'[m].owner = leases + 1
            /\ \A n \in Msg \ {m} : processing_meta'[n] = processing_meta[n]
            /\ handle'[w] = [msg |-> m, owner |-> leases + 1]
            /\ \A v \in Worker \ {w} : handle'[v] = handle[v]
        BY <1>2, <2>2 DEF Lease, Inv, TypeOK
      <3>2. \A v \in Worker : handle[v].msg = m => handle[v].owner <= leases
        BY <1>2 DEF Inv, TokensIssued, NoHandle
      <3>3. leases \in Nat /\ \A v \in Worker : handle[v].owner \in Nat
        BY <1>2 DEF Inv, TypeOK
      <3> QED BY <1>2, <3>1, <3>2, <3>3 DEF NewestNamed
    <2> QED BY <2>1, <2>2
  <1> QED BY <1>1, <1>2, Invariance, PTL DEF Spec

\* Which steps take a message out of the processing list.
LEMMA WhoShrinksProcessing ==
  ASSUME Inv, [Next]_vars, NEW m \in Msg, processing'[m] < processing[m]
  PROVE  \/ \E w \in Worker : MaySettle(w) /\ m = handle[w].msg
                              /\ handle' = [handle EXCEPT ![w] = NoHandle]
         \/ \E r \in Reclaimer : (Requeue(r) \/ DeadLetterExpired(r)) /\ m = held[r].msg
  <1> USE DEF lists
  <1>1. processing[m] \in Nat
    BY DEF Inv, TypeOK
  <1>2. processing' # processing
    BY <1>1
  <1>3. ASSUME NEW w \in Worker, WorkerNext(w)
        PROVE  MaySettle(w) /\ m = handle[w].msg /\ handle' = [handle EXCEPT ![w] = NoHandle]
    <2>1. ASSUME NEW n \in Msg PROVE ~Lease(w, n) /\ ~DeadLetterInvalid(w, n)
      <3>1. Lease(w, n) => processing'[m] = processing[m] \/ processing'[m] = processing[m] + 1
        BY DEF Lease, Inv, TypeOK
      <3>2. ~Lease(w, n)
        BY <1>1, <3>1
      <3> QED BY <1>2, <3>2 DEF DeadLetterInvalid
    <2>2. Ack(w) \/ Fail(w)
      BY <1>2, <1>3, <2>1 DEF WorkerNext, Heartbeat, Abandon, PruneHeartbeat
    <2>3. MaySettle(w) /\ processing' = RemoveOne(processing, handle[w].msg)
          /\ handle' = [handle EXCEPT ![w] = NoHandle]
      BY <2>2 DEF Ack, Fail, Settle
    <2> QED BY <1>1, <2>3 DEF RemoveOne, Inv, TypeOK
  <1>4. ASSUME NEW r \in Reclaimer, ReclaimNext(r)
        PROVE  (Requeue(r) \/ DeadLetterExpired(r)) /\ m = held[r].msg
    <2>1. Requeue(r) \/ DeadLetterExpired(r)
      BY <1>2, <1>4 DEF ReclaimNext, ReclaimScan, ReclaimReadRetry, ReclaimRefused,
           ReclaimTimesOut, ReclaimReadProcessing, ReclaimTooEarly, Take
    <2>2. processing' = RemoveOne(processing, held[r].msg)
      BY <2>1 DEF Requeue, DeadLetterExpired
    <2> QED BY <1>1, <2>1, <2>2 DEF RemoveOne, Inv, TypeOK
  <1>5. (\E w \in Worker : WorkerNext(w)) \/ (\E r \in Reclaimer : ReclaimNext(r))
    BY <1>2 DEF Next, Enqueue, RemoveQueued, FenceExpires, AcquireFence, RenewFenceLost,
                ReleaseFence, Tick, SetBack, vars
  <1> QED BY <1>3, <1>4, <1>5

\* No reclaim script takes a lease from its worker before its last heartbeat is older
\* than the visibility timeout, whatever stale metadata the pass carries.
THEOREM NoEarlyReclaim == Spec => TakenOnlyWhenExpired
  <1>1. ASSUME Inv, [Next]_vars, NEW m \in Msg,
               processing[m] > 0, processing'[m] = 0, handle' = handle
        PROVE  now - processing_meta[m].heartbeat_at > Visibility
    <2>1. \A w \in Worker : MaySettle(w) => handle' # [handle EXCEPT ![w] = NoHandle]
      BY <1>1 DEF MaySettle, OwnsLease, Inv, TypeOK
    <2>2. PICK r \in Reclaimer : (Requeue(r) \/ DeadLetterExpired(r)) /\ m = held[r].msg
      BY <1>1, <2>1, WhoShrinksProcessing
    <2>3. processing_meta[m] # NoMeta
      BY <1>1 DEF Inv, ListsMatchMeta
    <2>4. Expired(m)
      BY <2>2 DEF Requeue, DeadLetterExpired
    <2> QED BY <2>3, <2>4 DEF Expired, CurrentMeta
  <1>2. Inv /\ [Next]_vars =>
          [\A m \in Msg : processing[m] > 0 /\ processing'[m] = 0 /\ handle' = handle =>
             now - processing_meta[m].heartbeat_at > Visibility]_vars
    BY <1>1
  <1> QED BY <1>2, Invariance, PTL DEF Spec, TakenOnlyWhenExpired

\* Only the newest lease on a message can be acknowledged or failed.
THEOREM NewestLeaseSettles == Spec => OnlyNewestLeaseSettles
  <1>1. ASSUME Inv, NewestNamed, [Next]_vars, NEW v \in Worker, NEW w \in Worker,
               handle[w] # NoHandle, handle[v].msg = handle[w].msg,
               processing'[handle[w].msg] < processing[handle[w].msg],
               handle' # handle, handle'[w] = NoHandle
        PROVE  handle[v].owner <= handle[w].owner
    <2>1. handle[w].msg \in Msg /\ handle[w].owner > 0
      BY <1>1 DEF Inv, TokensIssued
    <2>2. \A r \in Reclaimer : Requeue(r) \/ DeadLetterExpired(r) => handle' = handle
      BY DEF Requeue, DeadLetterExpired
    <2>3. PICK x \in Worker : MaySettle(x) /\ handle' = [handle EXCEPT ![x] = NoHandle]
      BY <1>1, <2>1, <2>2, WhoShrinksProcessing
    <2>4. x = w
      BY <1>1, <2>3 DEF Inv, TypeOK
    <2>5. processing_meta[handle[w].msg].owner = handle[w].owner
      BY <2>3, <2>4 DEF MaySettle, OwnsLease
    <2>6. processing_meta[handle[w].msg] # NoMeta
      BY <2>1, <2>5, MetaFields
    <2> QED BY <1>1, <2>1, <2>5, <2>6 DEF NewestNamed
  <1>2. Inv /\ NewestNamed /\ [Next]_vars =>
          [\A v, w \in Worker :
             /\ handle[w] # NoHandle /\ handle[v].msg = handle[w].msg
             /\ processing'[handle[w].msg] < processing[handle[w].msg]
             /\ handle' # handle /\ handle'[w] = NoHandle
             => handle[v].owner <= handle[w].owner]_vars
    BY <1>1
  <1> QED BY <1>2, Invariance, NewestInvariance, PTL DEF Spec, OnlyNewestLeaseSettles

-----------------------------------------------------------------------------
(* The lease script keeps the global, tenant and user limits of the queue, *)
(* for any limits and any assignment of messages to tenants and users.     *)

\* A list that holds each message at most once has as many copies as messages.
LEMMA SingleCopies ==
  ASSUME NEW p \in [Msg -> {0, 1}], NEW S \in SUBSET Msg
  PROVE  /\ Copies(p, S) = {n \in S : p[n] = 1} \X {1}
         /\ IsFiniteSet(Copies(p, S)) /\ Cardinality(Copies(p, S)) \in Nat
  <1> DEFINE T == {n \in S : p[n] = 1}
  <1>1. \A m \in S : 1..p[m] = IF p[m] = 1 THEN {1} ELSE {}
    <2> TAKE m \in S
    <2>1. p[m] = 0 \/ p[m] = 1
      OBVIOUS
    <2>2. 1..0 = {} /\ 1..1 = {1}
      OBVIOUS
    <2> QED BY <2>1, <2>2
  <1>2. Copies(p, S) = T \X {1}
    BY <1>1 DEF Copies
  <1>3. IsFiniteSet(T) /\ IsFiniteSet({1})
    BY FiniteAssumption, FS_Subset, FS_Singleton
  <1>4. IsFiniteSet(T \X {1})
    BY <1>3, FS_Product
  <1> QED BY <1>2, <1>4, FS_CardinalityType

\* Taking messages out of a list does not raise the number of copies.
LEMMA FewerCopies ==
  ASSUME NEW p \in [Msg -> {0, 1}], NEW q \in [Msg -> {0, 1}], NEW S \in SUBSET Msg,
         \A m \in Msg : q[m] <= p[m]
  PROVE  Cardinality(Copies(q, S)) <= Cardinality(Copies(p, S))
  <1>1. \A m \in Msg : q[m] = 1 => p[m] = 1
    OBVIOUS
  <1>2. Copies(q, S) \subseteq Copies(p, S)
    BY <1>1, SingleCopies
  <1> QED BY <1>2, SingleCopies, FS_Subset

\* Adding a message that was not there raises it by one.
LEMMA OneMoreCopy ==
  ASSUME NEW p \in [Msg -> {0, 1}], NEW q \in [Msg -> {0, 1}], NEW S \in SUBSET Msg,
         NEW m \in Msg, p[m] = 0, q[m] = 1, \A n \in Msg : n # m => q[n] = p[n]
  PROVE  Cardinality(Copies(q, S)) = Cardinality(Copies(p, S)) + IF m \in S THEN 1 ELSE 0
  <1>1. /\ Copies(p, S) = {n \in S : p[n] = 1} \X {1}
        /\ Copies(q, S) = {n \in S : q[n] = 1} \X {1}
        /\ IsFiniteSet(Copies(p, S)) /\ Cardinality(Copies(p, S)) \in Nat
    BY SingleCopies
  <1>2. CASE m \in S
    <2>1. {n \in S : q[n] = 1} = {n \in S : p[n] = 1} \cup {m}
      BY <1>2
    <2>2. Copies(q, S) = Copies(p, S) \cup {<<m, 1>>}
      BY <1>1, <2>1
    <2>3. <<m, 1>> \notin Copies(p, S)
      BY <1>1
    <2> QED BY <1>1, <1>2, <2>2, <2>3, FS_AddElement
  <1>3. CASE m \notin S
    <2>1. {n \in S : q[n] = 1} = {n \in S : p[n] = 1}
      BY <1>3
    <2> QED BY <1>1, <1>3, <2>1
  <1> QED BY <1>2, <1>3

\* Only a lease puts a message into processing.
LEMMA WhoGrowsProcessing ==
  ASSUME Inv, [Next]_vars, ~\E w \in Worker, n \in Msg : Lease(w, n), NEW m \in Msg
  PROVE  processing'[m] <= processing[m]
  <1> USE DEF lists
  <1>1. processing \in [Msg -> Nat]
    BY DEF Inv, TypeOK
  <1>2. ASSUME NEW n, processing' = RemoveOne(processing, n)
        PROVE  processing'[m] <= processing[m]
    BY <1>1, <1>2 DEF RemoveOne
  <1>3. CASE \E w \in Worker : Ack(w) \/ Fail(w)
    BY <1>2, <1>3 DEF Ack, Fail, Settle
  <1>4. CASE \E r \in Reclaimer : Requeue(r) \/ DeadLetterExpired(r)
    BY <1>2, <1>4 DEF Requeue, DeadLetterExpired
  <1>5. CASE processing' = processing
    BY <1>1, <1>5
  <1>6. ASSUME NEW w \in Worker, WorkerNext(w), ~(Ack(w) \/ Fail(w))
        PROVE  processing' = processing
    BY <1>6 DEF WorkerNext, DeadLetterInvalid, Heartbeat, Abandon, PruneHeartbeat
  <1>7. ASSUME NEW r \in Reclaimer, ReclaimNext(r), ~(Requeue(r) \/ DeadLetterExpired(r))
        PROVE  processing' = processing
    BY <1>7 DEF ReclaimNext, ReclaimScan, ReclaimReadRetry, ReclaimRefused, ReclaimTimesOut,
                ReclaimReadProcessing, ReclaimTooEarly, Take
  <1>8. \/ processing' = processing
        \/ \E w \in Worker : WorkerNext(w)
        \/ \E r \in Reclaimer : ReclaimNext(r)
    BY DEF Next, Enqueue, RemoveQueued, FenceExpires, AcquireFence, RenewFenceLost,
           ReleaseFence, Tick, SetBack, vars
  <1> QED BY <1>3, <1>4, <1>5, <1>6, <1>7, <1>8

-----------------------------------------------------------------------------
\* One group of messages under one limit: a lease of a member saw the count below the limit.
LEMMA LimitKept ==
  ASSUME Inv, Inv', [Next]_vars, NEW S \in SUBSET Msg, NEW limit \in Nat, limit > 0,
         InProcessing(S) <= limit,
         \A w \in Worker, m \in S : Lease(w, m) => InProcessing(S) < limit
  PROVE  InProcessing(S)' <= limit
  <1>1. processing \in [Msg -> {0, 1}]
    BY WhereAMessageIs DEF Inv, TypeOK
  <1>2. processing' \in [Msg -> {0, 1}]
    <2>1. \A m \in Msg : processing'[m] \in {0, 1}
      <3> TAKE m \in Msg
      <3>1. processing'[m] \in Nat /\ queued'[m] \in Nat
        BY DEF Inv, TypeOK
      <3>2. queued'[m] + processing'[m] = IF m \in accepted' THEN 1 ELSE 0
        BY DEF Inv, HeldOnce
      <3> QED BY <3>1, <3>2
    <2> QED BY <2>1 DEF Inv, TypeOK
  <1>3. InProcessing(S) \in Nat /\ InProcessing(S)' \in Nat
    BY <1>1, <1>2, SingleCopies DEF InProcessing
  <1>4. ASSUME NEW w \in Worker, NEW m \in Msg, Lease(w, m)
        PROVE  InProcessing(S)' <= limit
    <2>1. processing' = [processing EXCEPT ![m] = @ + 1]
      BY <1>4 DEF Lease
    <2>2. processing'[m] = 1 /\ processing[m] = 0
          /\ \A n \in Msg : n # m => processing'[n] = processing[n]
      BY <1>1, <1>2, <2>1
    <2>3. InProcessing(S)' = InProcessing(S) + IF m \in S THEN 1 ELSE 0
      BY <1>1, <1>2, <2>2, OneMoreCopy DEF InProcessing
    <2> QED BY <1>3, <1>4, <2>3
  <1>5. CASE ~\E w \in Worker, m \in Msg : Lease(w, m)
    <2>1. \A m \in Msg : processing'[m] <= processing[m]
      BY <1>5, WhoGrowsProcessing
    <2>2. InProcessing(S)' <= InProcessing(S)
      BY <1>1, <1>2, <2>1, FewerCopies DEF InProcessing
    <2> QED BY <1>3, <2>2
  <1> QED BY <1>4, <1>5

\* At no time do more messages run than the global limit, the tenant's or the user's
\* allows, however the workers' lease scripts interleave with the reclaim passes.
THEOREM LimitsKept == Spec => []LimitsRespected
  <1>1. Init => LimitsRespected
    <2> SUFFICES ASSUME Init PROVE LimitsRespected
      OBVIOUS
    <2>1. processing \in [Msg -> {0, 1}] /\ \A m \in Msg : processing[m] = 0
      BY DEF Init
    <2>2. \A S \in SUBSET Msg : InProcessing(S) = 0
      <3> TAKE S \in SUBSET Msg
      <3>1. Copies(processing, S) = {}
        BY <2>1, SingleCopies
      <3> QED BY <3>1, FS_EmptySet DEF InProcessing
    <2> QED BY <2>2, LimitsAssumption DEF LimitsRespected
  <1>2. Inv /\ Inv' /\ LimitsRespected /\ [Next]_vars => LimitsRespected'
    <2> SUFFICES ASSUME Inv, Inv', LimitsRespected, [Next]_vars PROVE LimitsRespected'
      OBVIOUS
    <2> DEFINE tenant(m) == {n \in Msg : TenantOf[n] = TenantOf[m]}
               user(m) == {n \in tenant(m) : UserOf[n] = UserOf[m]}
    <2>1. ASSUME NEW w \in Worker, NEW m \in Msg, Lease(w, m)
          PROVE  /\ MaxProcessing > 0 => InProcessing(Msg) < MaxProcessing
                 /\ TenantLimit > 0 => InProcessing(tenant(m)) < TenantLimit
                 /\ UserLimit > 0 => InProcessing(user(m)) < UserLimit
      BY <2>1 DEF Lease, HasCapacity, BelowLimit
    <2>2. ASSUME NEW m \in Msg, NEW n \in tenant(m) PROVE tenant(n) = tenant(m)
      OBVIOUS
    <2>3. ASSUME NEW m \in Msg, NEW n \in user(m) PROVE user(n) = user(m)
      OBVIOUS
    <2>4. MaxProcessing > 0 => InProcessing(Msg)' <= MaxProcessing
      BY <2>1, LimitKept, LimitsAssumption DEF LimitsRespected
    <2>5. ASSUME NEW m \in Msg, TenantLimit > 0 PROVE InProcessing(tenant(m))' <= TenantLimit
      <3>1. InProcessing(tenant(m)) <= TenantLimit
        BY <2>5 DEF LimitsRespected
      <3>2. \A w \in Worker, n \in tenant(m) : Lease(w, n) => InProcessing(tenant(m)) < TenantLimit
        BY <2>1, <2>2, <2>5
      <3> QED BY <2>5, <3>1, <3>2, LimitKept, LimitsAssumption
    <2>6. ASSUME NEW m \in Msg, UserLimit > 0 PROVE InProcessing(user(m))' <= UserLimit
      <3>1. InProcessing(user(m)) <= UserLimit
        BY <2>6 DEF LimitsRespected
      <3>2. \A w \in Worker, n \in user(m) : Lease(w, n) => InProcessing(user(m)) < UserLimit
        BY <2>1, <2>3, <2>6
      <3> QED BY <2>6, <3>1, <3>2, LimitKept, LimitsAssumption
    <2> QED BY <2>4, <2>5, <2>6 DEF LimitsRespected
  <1> QED BY <1>1, <1>2, Invariance, PTL DEF Spec

-----------------------------------------------------------------------------
\* A worker whose verify_lease_ownership answers "current" has its message in the
\* processing list.  The dead-letter script can take the message and leave
\* processing_meta behind, when a lease is made between the two reads of a reclaim pass;
\* that lease must expire before the pass is cancelled, so the answer is right as long as
\* the budget of the pass, and what the clock is set back, fit in the visibility timeout.
THEOREM VerifiedLeaseHeld ==
  ASSUME PassBudget + MaxSetbacks <= Visibility
  PROVE  Spec => []VerifiedLeaseIsHeld
  <1>1. Init => LeaseIsListed
    BY LimitsAssumption DEF Init, LeaseIsListed, LateRead, NothingHeld
  <1>2. Inv /\ LeaseIsListed /\ [Next]_vars => LeaseIsListed'
    <2> SUFFICES ASSUME Inv, LeaseIsListed, [Next]_vars PROVE LeaseIsListed'
      OBVIOUS
    <2>1. CASE \E w \in Worker : WorkerNext(w)
      BY <2>1, WorkerKeepsListed
    <2>2. CASE \E r \in Reclaimer : ReclaimNext(r)
      BY <2>2, ReclaimKeepsListed
    <2>3. CASE Tick \/ SetBack
      BY <2>3, ClockKeepsListed
    <2>4. CASE \/ \E m \in Msg : Enqueue(m)
               \/ \E r \in Run : RemoveQueued(r) \/ FenceExpires(r)
               \/ \E c \in Reconciler : (\E r \in Run : AcquireFence(c, r)) \/ RenewFenceLost(c)
                                        \/ ReleaseFence(c)
               \/ UNCHANGED vars
      <3>1. UNCHANGED <<now, setbacks, checked_at, held, processing, processing_meta>>
        BY <2>4 DEF Enqueue, RemoveQueued, FenceExpires, AcquireFence, RenewFenceLost,
                    ReleaseFence, vars, lists, metaVars, reclaimVars, clockVars
      <3> QED BY <3>1, QuietKeepsListed
    <2> QED BY <2>1, <2>2, <2>3, <2>4 DEF Next
  <1>3. Inv /\ LeaseIsListed => VerifiedLeaseIsHeld
    <2> SUFFICES ASSUME Inv, LeaseIsListed, NEW w \in Worker, OwnsLease(w)
                 PROVE  processing[handle[w].msg] > 0
      BY DEF VerifiedLeaseIsHeld, VerifiesCurrent
    <2>1. handle[w].msg \in Msg /\ handle[w].owner > 0
          /\ processing_meta[handle[w].msg].owner = handle[w].owner
      BY DEF OwnsLease, Inv, TokensIssued
    <2>2. processing_meta[handle[w].msg] # NoMeta
      BY <2>1, MetaFields
    <2> QED BY <2>1, <2>2 DEF LeaseIsListed
  <1> QED BY <1>1, <1>2, <1>3, Invariance, PTL DEF Spec

=============================================================================
