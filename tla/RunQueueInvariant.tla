------------------------- MODULE RunQueueInvariant --------------------------
(***************************************************************************)
(* The inductive invariant of RunQueue, and the proof that admission,      *)
(* removal and the worker's operations preserve it, for any sets           *)
(* of messages, runs, workers, reclaimers, reconcilers and any limits.     *)
(* HeldOnce is not inductive: a message can be duplicated or lost as soon  *)
(* as the queued hashes, the lease hashes and the metadata a reclaim pass  *)
(* carries disagree.  Inv adds what they agree on.                         *)
(* The last lemmas are about a second invariant, LeaseIsListed, on which   *)
(* VerifiedLeaseHeld rests (RunQueueProofs).                               *)
(***************************************************************************)
EXTENDS RunQueue, SequenceTheorems, TLAPS

Snapshot(r) == held[r].step \in {"processing_meta", "retry_meta"}

\* The three queued structures list exactly the queued messages.
QueuedIndexed ==
  \A m \in Msg :
    /\ m \in queued_meta <=> queued[m] > 0
    /\ m \in queued_run_index <=> queued[m] > 0
    /\ m \in queued_order <=> queued[m] > 0

\* A message in processing has its lease metadata; a queued message has none, and
\* deliveries left.
ListsMatchMeta ==
  \A m \in Msg :
    /\ processing[m] > 0 => processing_meta[m] # NoMeta
    /\ queued[m] > 0 => processing_meta[m] = NoMeta /\ retry_meta[m].attempts < MaxAttempts

\* Owner tokens in use were issued, and 0 stands only for an absent field.
Issued(meta) == IF meta.owner = 0 THEN meta = NoMeta ELSE meta.owner <= leases

TokensIssued ==
  /\ \A m \in Msg : Issued(processing_meta[m]) /\ Issued(retry_meta[m])
  /\ \A w \in Worker : handle[w] # NoHandle =>
       handle[w].msg \in Msg /\ handle[w].owner > 0 /\ handle[w].owner <= leases
  /\ \A r \in Reclaimer :
       /\ held[r].step # "none" => held[r].msg \in Msg
       /\ Snapshot(r) => held[r].meta.owner > 0 /\ held[r].meta.owner <= leases

\* One owner token stands for one delivery count, wherever it is written.
SameLease(a, b) == a.owner = b.owner => a.attempts = b.attempts

TokensAgree ==
  /\ \A m \in Msg : SameLease(processing_meta[m], retry_meta[m])
  /\ \A r \in Reclaimer : Snapshot(r) =>
       /\ SameLease(held[r].meta, processing_meta[held[r].msg])
       /\ SameLease(held[r].meta, retry_meta[held[r].msg])
  /\ \A r, s \in Reclaimer :
       Snapshot(r) /\ Snapshot(s) /\ held[r].msg = held[s].msg =>
         SameLease(held[r].meta, held[s].meta)

Inv ==
  /\ TypeOK
  /\ HeldOnce
  /\ FencedRunUnowned
  /\ QueuedIndexed
  /\ ListsMatchMeta
  /\ TokensIssued
  /\ TokensAgree
  /\ AttemptsBounded
  /\ MetadataAgrees

-----------------------------------------------------------------------------

\* The values that stand for an absent hash field, an idle pass and an idle worker are typed.
LEMMA NoMetaType == NoMeta \in Meta /\ NothingHeld \in Held /\ NoHandle \in Handle
  BY DEF NoMeta, Meta, NothingHeld, Held, NoHandle, Handle

\* Pushing onto the dead-letter list and trimming it leaves a sequence of messages.
LEMMA DeadLetteredType ==
  ASSUME NEW m \in Msg, dead_letter \in Seq(Msg)
  PROVE  DeadLettered(m) \in Seq(Msg)
  <1>1. Append(dead_letter, m) \in Seq(Msg) /\ Append(dead_letter, m) # <<>>
    BY AppendProperties
  <1>2. Tail(Append(dead_letter, m)) \in Seq(Msg)
    BY <1>1, HeadTailProperties
  <1> QED BY <1>1, <1>2 DEF DeadLettered

\* The queue as a release finds it, with only unparsable payloads queued, satisfies Inv.
THEOREM InitInv == Init => Inv
  <1> SUFFICES ASSUME Init PROVE Inv
    OBVIOUS
  <1> USE SetsAssumption, LimitsAssumption, NoMetaType DEF Init
  <1>1. TypeOK
    BY DEF TypeOK, NoBeat
  <1>2. HeldOnce /\ FencedRunUnowned /\ QueuedIndexed /\ ListsMatchMeta
    BY DEF HeldOnce, FencedRunUnowned, QueuedIndexed, ListsMatchMeta, NoMeta
  <1>3. TokensIssued /\ TokensAgree
    BY DEF TokensIssued, TokensAgree, Issued, SameLease, Snapshot, NoMeta, NothingHeld
  <1>4. AttemptsBounded /\ MetadataAgrees
    BY DEF AttemptsBounded, MetadataAgrees, NoMeta
  <1> QED BY <1>1, <1>2, <1>3, <1>4 DEF Inv

\* The fields of lease metadata, worker handles and reclaim items have their types.
LEMMA MetaFields ==
  /\ NoMeta.owner = 0 /\ NoMeta.attempts = 0
  /\ \A x \in Meta : x.owner \in Nat /\ x.attempts \in Nat /\ x.heartbeat_at \in Nat
  /\ \A h \in Handle : h.msg \in Msg \cup {None} /\ h.owner \in Nat
  /\ \A h \in Held : h.msg \in Msg \cup {None} /\ h.meta \in Meta
  BY DEF NoMeta, Meta, Handle, Held

\* HeldOnce without arithmetic: a message is nowhere, queued, or in processing.
LEMMA WhereAMessageIs ==
  ASSUME Inv, NEW m \in Msg
  PROVE  \/ queued[m] = 0 /\ processing[m] = 0 /\ m \notin accepted
         \/ queued[m] = 1 /\ processing[m] = 0 /\ m \in accepted
         \/ queued[m] = 0 /\ processing[m] = 1 /\ m \in accepted
  <1>1. queued[m] \in Nat /\ processing[m] \in Nat
    BY DEF Inv, TypeOK
  <1>2. queued[m] + processing[m] = IF m \in accepted THEN 1 ELSE 0
    BY DEF Inv, HeldOnce
  <1> QED BY <1>1, <1>2

-----------------------------------------------------------------------------
(* Admission, removal, and the worker's operations preserve Inv. *)

\* Admission checks index, metadata and both lease hashes, so it adds only absent messages.
LEMMA EnqueueKeeps ==
  ASSUME Inv, NEW m \in Msg, Enqueue(m)
  PROVE  Inv'
  <1> USE SetsAssumption, LimitsAssumption, NoMetaType, MetaFields
      DEF Inv, Enqueue, metaVars, reclaimVars, clockVars
  <1>1. TypeOK'
    BY DEF TypeOK
  <1>2. queued[m] = 0 /\ processing[m] = 0 /\ m \notin accepted
    BY WhereAMessageIs DEF QueuedIndexed, ListsMatchMeta, AlreadyEnqueued, AlreadyLeased
  <1>3. queued'[m] = 1 /\ \A n \in Msg \ {m} : queued'[n] = queued[n]
    BY <1>2 DEF TypeOK
  <1>4. HeldOnce' /\ FencedRunUnowned'
    BY <1>2, <1>3 DEF HeldOnce, FencedRunUnowned, Fenced
  <1>5. QueuedIndexed' /\ ListsMatchMeta'
    BY DEF TypeOK, QueuedIndexed, ListsMatchMeta, AlreadyLeased
  <1>6. TokensIssued' /\ TokensAgree' /\ AttemptsBounded' /\ MetadataAgrees'
    BY DEF TokensIssued, TokensAgree, Issued, SameLease, Snapshot, AttemptsBounded, MetadataAgrees
  <1> QED BY <1>1, <1>4, <1>5, <1>6

\* Removing a run's queued messages takes them from every queued structure at once.
LEMMA RemoveQueuedKeeps ==
  ASSUME Inv, NEW r \in Run, RemoveQueued(r)
  PROVE  Inv'
  <1> USE SetsAssumption, LimitsAssumption, NoMetaType, MetaFields
      DEF Inv, metaVars, reclaimVars, clockVars, counterVars
  <1> DEFINE gone == queued_run_index \cap MsgsOf(r)
  <1>1. /\ queued' = [m \in Msg |-> IF m \in gone THEN 0 ELSE queued[m]]
        /\ queued_meta' = queued_meta \ gone
        /\ queued_order' = queued_order \ gone
        /\ queued_run_index' = queued_run_index \ gone
        /\ accepted' = accepted \ gone
    <2>1. gone \cap queued_meta = gone
      BY DEF QueuedIndexed, TypeOK
    <2>2. gone = {} => {m \in MsgsOf(r) \ Invalid : queued[m] > 0} = {}
      BY DEF QueuedIndexed, MsgsOf
    <2> QED BY <2>1, <2>2 DEF RemoveQueued
  <1>2. UNCHANGED <<processing, metaVars, worker_heartbeat, dead_letter, fence, handle,
                    claim, reclaimVars, clockVars, counterVars>>
    BY DEF RemoveQueued
  <1> HIDE DEF gone
  <1>3. TypeOK'
    BY <1>1, <1>2 DEF TypeOK
  <1>4. HeldOnce' /\ FencedRunUnowned'
    BY <1>1, <1>2 DEF TypeOK, HeldOnce, FencedRunUnowned, QueuedIndexed, gone
  <1>5. QueuedIndexed' /\ ListsMatchMeta'
    BY <1>1, <1>2 DEF TypeOK, QueuedIndexed, ListsMatchMeta
  <1>6. TokensIssued' /\ TokensAgree' /\ AttemptsBounded' /\ MetadataAgrees'
    BY <1>2 DEF TokensIssued, TokensAgree, Issued, SameLease, Snapshot, AttemptsBounded, MetadataAgrees
  <1> QED BY <1>3, <1>4, <1>5, <1>6

\* Dead-lettering an unparsable payload removes it from the queue and its index.
LEMMA DeadLetterInvalidKeeps ==
  ASSUME Inv, NEW w \in Worker, NEW m \in Msg, DeadLetterInvalid(w, m)
  PROVE  Inv'
  <1> USE SetsAssumption, LimitsAssumption, NoMetaType, MetaFields
      DEF Inv, DeadLetterInvalid, StillQueued, reclaimVars, clockVars, counterVars
  <1>1. TypeOK'
    BY DeadLetteredType DEF TypeOK
  <1>2. queued[m] = 1 /\ processing[m] = 0 /\ m \in queued_meta
    BY WhereAMessageIs DEF QueuedIndexed
  <1>3. HeldOnce' /\ FencedRunUnowned'
    BY <1>2 DEF TypeOK, HeldOnce, FencedRunUnowned
  <1>4. QueuedIndexed' /\ ListsMatchMeta'
    BY <1>2 DEF TypeOK, QueuedIndexed, ListsMatchMeta
  <1>5. TokensIssued'
    BY DEF TypeOK, TokensIssued, Issued, Snapshot
  <1>6. TokensAgree'
    <2>1. processing_meta[m] = NoMeta
      BY <1>2 DEF ListsMatchMeta
    <2>2. \A s \in Reclaimer : Snapshot(s) => held[s].meta.owner # 0
      BY DEF TypeOK, TokensIssued
    <2> QED BY <2>1, <2>2 DEF TypeOK, TokensIssued, TokensAgree, SameLease, Snapshot
  <1>7. AttemptsBounded' /\ MetadataAgrees'
    BY DEF TypeOK, AttemptsBounded, MetadataAgrees
  <1> QED BY <1>1, <1>3, <1>4, <1>5, <1>6, <1>7

\* A lease moves a queued message to processing under a token never used before.
LEMMA LeaseKeeps ==
  ASSUME Inv, NEW w \in Worker, NEW m \in Msg, Lease(w, m)
  PROVE  Inv'
  <1> USE SetsAssumption, LimitsAssumption, NoMetaType, MetaFields
      DEF Inv, Lease, StillQueued, reclaimVars, clockVars
  <1> DEFINE meta == [owner |-> leases + 1, worker |-> w, attempts |-> NextAttempt(m),
                      heartbeat_at |-> now]
  <1>1. /\ queued[m] = 1 /\ processing[m] = 0 /\ m \in accepted
        /\ processing_meta[m] = NoMeta /\ retry_meta[m].attempts < MaxAttempts
    BY WhereAMessageIs DEF ListsMatchMeta
  <1>2. NextAttempt(m) \in 1 .. MaxAttempts
    BY <1>1 DEF TypeOK, NextAttempt
  <1>3. meta \in Meta /\ meta # NoMeta /\ meta.owner = leases + 1 /\ meta.attempts <= MaxAttempts
    BY <1>2 DEF TypeOK, Meta, NoMeta
  <1>4. /\ processing_meta' = [processing_meta EXCEPT ![m] = meta]
        /\ retry_meta' = [retry_meta EXCEPT ![m] = meta]
    OBVIOUS
  <1>5. /\ queued'[m] = 0 /\ \A n \in Msg \ {m} : queued'[n] = queued[n]
        /\ processing'[m] = 1 /\ \A n \in Msg \ {m} : processing'[n] = processing[n]
    BY <1>1 DEF TypeOK
  <1> HIDE DEF meta
  <1>6. TypeOK'
    <2>1. [msg |-> m, owner |-> leases + 1] \in Handle
      BY DEF TypeOK, Handle
    <2> QED BY <1>3, <1>4, <2>1 DEF TypeOK
  <1>7. HeldOnce' /\ FencedRunUnowned'
    BY <1>1, <1>5 DEF HeldOnce, FencedRunUnowned, Fenced
  <1>8. QueuedIndexed' /\ ListsMatchMeta'
    BY <1>1, <1>3, <1>4, <1>5 DEF TypeOK, QueuedIndexed, ListsMatchMeta
  <1>9. TokensIssued'
    <2>1. \A n \in Msg : Issued(processing_meta[n])' /\ Issued(retry_meta[n])'
      BY <1>3, <1>4 DEF TypeOK, TokensIssued, Issued
    <2> QED BY <2>1 DEF TypeOK, TokensIssued, Snapshot
  <1>10. TokensAgree'
    BY <1>3, <1>4 DEF TypeOK, TokensIssued, TokensAgree, SameLease, Snapshot
  <1>11. AttemptsBounded' /\ MetadataAgrees'
    BY <1>3, <1>4 DEF TypeOK, AttemptsBounded, MetadataAgrees
  <1> QED BY <1>6, <1>7, <1>8, <1>9, <1>10, <1>11

\* A heartbeat rewrites only the time in the two hash entries of its own lease.
LEMMA HeartbeatKeeps ==
  ASSUME Inv, NEW w \in Worker, Heartbeat(w)
  PROVE  Inv'
  <1> USE SetsAssumption, LimitsAssumption, NoMetaType, MetaFields
      DEF Inv, lists, queuedVars, reclaimVars, clockVars, counterVars
  <1> DEFINE m == handle[w].msg
             beat == [processing_meta[m] EXCEPT !.heartbeat_at = now]
  <1>1. m \in Msg /\ handle[w].owner > 0 /\ processing_meta[m].owner = handle[w].owner
    BY DEF Heartbeat, MayHeartbeat, OwnsLease, TokensIssued
  <1>2. /\ beat \in Meta /\ beat # NoMeta
        /\ beat.owner = processing_meta[m].owner /\ beat.attempts = processing_meta[m].attempts
    <2>1. processing_meta[m] \in Meta /\ now \in Nat /\ processing_meta[m].owner > 0
      BY <1>1 DEF TypeOK
    <2> HIDE DEF m
    <2>2. beat \in Meta
      BY <2>1 DEF Meta
    <2>3. beat.owner = processing_meta[m].owner /\ beat.attempts = processing_meta[m].attempts
      BY <2>1 DEF Meta
    <2> HIDE DEF beat
    <2> QED BY <2>1, <2>2, <2>3
  <1>3. /\ processing_meta' = [processing_meta EXCEPT ![m] = beat]
        /\ retry_meta' = [retry_meta EXCEPT ![m] = beat]
        /\ worker_heartbeat' = [worker_heartbeat EXCEPT ![w] = now]
        /\ handle' = handle \/ handle' = [handle EXCEPT ![w] = NoHandle]
        /\ UNCHANGED <<lists, queuedVars, dead_letter, fence, claim, reclaimVars, clockVars,
                       counterVars, accepted>>
    BY DEF Heartbeat
  <1>4. processing_meta[m] # NoMeta /\ queued[m] = 0
    BY <1>1, WhereAMessageIs DEF TypeOK, ListsMatchMeta
  <1> HIDE DEF m, beat
  <1>5. TypeOK'
    <2>1. handle' \in [Worker -> Handle]
      BY <1>3 DEF TypeOK
    <2> QED BY <1>1, <1>2, <1>3, <2>1 DEF TypeOK
  <1>6. HeldOnce' /\ FencedRunUnowned' /\ QueuedIndexed' /\ ListsMatchMeta'
    BY <1>1, <1>2, <1>3, <1>4 DEF TypeOK, HeldOnce, FencedRunUnowned, QueuedIndexed, ListsMatchMeta
  <1>7. TokensIssued'
    <2>1. \A v \in Worker : handle'[v] = handle[v] \/ handle'[v] = NoHandle
      BY <1>3 DEF TypeOK
    <2>2. \A n \in Msg : Issued(processing_meta[n])' /\ Issued(retry_meta[n])'
      BY <1>1, <1>2, <1>3 DEF TypeOK, TokensIssued, Issued
    <2> QED BY <1>3, <2>1, <2>2 DEF TokensIssued, Snapshot
  <1>8. TokensAgree'
    BY <1>1, <1>2, <1>3 DEF TypeOK, TokensIssued, TokensAgree, SameLease, Snapshot
  <1>9. AttemptsBounded' /\ MetadataAgrees'
    BY <1>1, <1>2, <1>3 DEF TypeOK, AttemptsBounded, MetadataAgrees
  <1> QED BY <1>5, <1>6, <1>7, <1>8, <1>9

\* Ack and fail remove the one processing copy together with both hash entries.
LEMMA SettleKeeps ==
  ASSUME Inv, NEW w \in Worker, NEW letters \in Seq(Msg), Settle(w, letters)
  PROVE  Inv'
  <1> USE SetsAssumption, LimitsAssumption, NoMetaType, MetaFields
      DEF Inv, queuedVars, reclaimVars, clockVars, counterVars
  <1> DEFINE m == handle[w].msg
  <1>1. m \in Msg /\ processing_meta[m].owner > 0
    BY DEF Settle, MaySettle, OwnsLease, TokensIssued
  <1>2. queued[m] = 0 /\ (processing[m] = 0 \/ processing[m] = 1)
    BY <1>1, WhereAMessageIs DEF ListsMatchMeta
  <1>3. /\ processing' = RemoveOne(processing, m)
        /\ processing_meta' = [processing_meta EXCEPT ![m] = NoMeta]
        /\ retry_meta' = [retry_meta EXCEPT ![m] = NoMeta]
        /\ dead_letter' = letters
        /\ handle' = [handle EXCEPT ![w] = NoHandle]
        /\ accepted' = accepted \ {m}
        /\ UNCHANGED <<queued, queuedVars, worker_heartbeat, fence, claim, reclaimVars,
                       clockVars, counterVars>>
    BY DEF Settle
  <1> HIDE DEF m
  <1>4. processing' \in [Msg -> Nat] /\ processing'[m] = 0
        /\ \A n \in Msg \ {m} : processing'[n] = processing[n]
    BY <1>1, <1>2, <1>3 DEF TypeOK, RemoveOne
  <1>5. TypeOK'
    BY <1>1, <1>3, <1>4 DEF TypeOK
  <1>6. HeldOnce' /\ FencedRunUnowned'
    <2>1. \A n \in Msg : n # m =>
            /\ queued'[n] + processing'[n] = queued[n] + processing[n]
            /\ n \in accepted' <=> n \in accepted
      BY <1>3, <1>4
    <2>2. queued'[m] + processing'[m] = 0 /\ m \notin accepted'
      BY <1>2, <1>3, <1>4
    <2>3. HeldOnce'
      BY <2>1, <2>2 DEF HeldOnce
    <2>4. FencedRunUnowned'
      BY <1>1, <1>3, <1>4 DEF FencedRunUnowned
    <2> QED BY <2>3, <2>4
  <1>7. QueuedIndexed' /\ ListsMatchMeta'
    BY <1>1, <1>2, <1>3, <1>4 DEF TypeOK, QueuedIndexed, ListsMatchMeta
  <1>8. TokensIssued'
    BY <1>1, <1>3 DEF TypeOK, TokensIssued, Issued, Snapshot
  <1>9. TokensAgree'
    <2>1. /\ processing_meta'[m] = NoMeta /\ retry_meta'[m] = NoMeta
          /\ \A n \in Msg \ {m} : /\ processing_meta'[n] = processing_meta[n]
                                  /\ retry_meta'[n] = retry_meta[n]
      BY <1>1, <1>3 DEF TypeOK
    <2>2. held' = held /\ \A s \in Reclaimer : Snapshot(s) =>
                             held[s].msg \in Msg /\ held[s].meta.owner # 0
      BY <1>3 DEF TypeOK, TokensIssued, Snapshot
    <2> QED BY ONLY TokensAgree, <2>1, <2>2, MetaFields DEF TokensAgree, SameLease, Snapshot
  <1>10. AttemptsBounded' /\ MetadataAgrees'
    BY <1>1, <1>3 DEF TypeOK, AttemptsBounded, MetadataAgrees
  <1> QED BY <1>5, <1>6, <1>7, <1>8, <1>9, <1>10

-----------------------------------------------------------------------------
(* verify_lease_ownership: the answer "current" is right as long as a      *)
(* reclaim pass is cancelled before a lease made after it began expires.   *)

\* What the dead-letter script relies on without asking: lease metadata stands only for
\* a message in processing, and a lease that appeared after a pass found none is no older
\* than the pass, up to what the clock was set back.
LateRead(r) == held[r].step \in {"lookup", "retry_meta"}

LeaseIsListed ==
  /\ setbacks <= MaxSetbacks
  /\ \A m \in Msg : processing_meta[m] # NoMeta => processing[m] > 0
  /\ \A r \in Reclaimer :
       /\ checked_at[r] <= now + setbacks
       /\ LateRead(r) /\ processing_meta[held[r].msg] # NoMeta =>
            checked_at[r] <= processing_meta[held[r].msg].heartbeat_at + setbacks

\* A step that leaves the clock alone keeps LeaseIsListed when the lease metadata it
\* leaves is of a message in processing and carries the present time or the old one.
LEMMA LeaseWritesKeepListed ==
  ASSUME Inv, LeaseIsListed, UNCHANGED <<now, setbacks, checked_at>>,
         \A r \in Reclaimer : \/ held'[r] = held[r]
                              \/ ~LateRead(r)'
                              \/ LateRead(r) /\ held'[r].msg = held[r].msg
                              \/ processing_meta'[held'[r].msg] = NoMeta,
         \A m \in Msg : \/ processing_meta'[m] = NoMeta
                        \/ /\ processing'[m] > 0
                           /\ \/ processing_meta'[m].heartbeat_at = now
                              \/ /\ processing_meta[m] # NoMeta
                                 /\ processing_meta'[m].heartbeat_at
                                      = processing_meta[m].heartbeat_at
  PROVE  LeaseIsListed'
  <1>1. ASSUME NEW r \in Reclaimer, LateRead(r)', processing_meta'[held'[r].msg] # NoMeta
        PROVE  checked_at[r] <= processing_meta'[held'[r].msg].heartbeat_at + setbacks
    <2>1. LateRead(r) /\ held'[r].msg = held[r].msg
      BY <1>1 DEF LateRead
    <2>2. held[r].msg \in Msg
      BY <2>1 DEF Inv, TokensIssued, LateRead
    <2>3. checked_at[r] <= now + setbacks
      BY DEF LeaseIsListed
    <2>4. processing_meta[held[r].msg] # NoMeta =>
            checked_at[r] <= processing_meta[held[r].msg].heartbeat_at + setbacks
      BY <2>1 DEF LeaseIsListed
    <2> QED BY <1>1, <2>1, <2>2, <2>3, <2>4
  <1>2. \A m \in Msg : processing_meta'[m] # NoMeta => processing'[m] > 0
    OBVIOUS
  <1> QED BY <1>1, <1>2 DEF LeaseIsListed

\* Reads, fences, admission and everything else that leaves lease metadata and the
\* processing list alone.
LEMMA QuietKeepsListed ==
  ASSUME Inv, LeaseIsListed, UNCHANGED <<now, setbacks, checked_at, processing, processing_meta>>,
         \A r \in Reclaimer : \/ held'[r] = held[r]
                              \/ ~LateRead(r)'
                              \/ LateRead(r) /\ held'[r].msg = held[r].msg
                              \/ processing_meta[held'[r].msg] = NoMeta
  PROVE  LeaseIsListed'
  BY LeaseWritesKeepListed DEF LeaseIsListed

\* The worker's operations keep LeaseIsListed.
LEMMA WorkerKeepsListed ==
  ASSUME Inv, LeaseIsListed, NEW w \in Worker, WorkerNext(w)
  PROVE  LeaseIsListed'
  <1> USE DEF reclaimVars, clockVars, lists, metaVars
  <1>1. ASSUME NEW m \in Msg, Lease(w, m) PROVE LeaseIsListed'
    <2>1. /\ processing'[m] = processing[m] + 1 /\ processing[m] \in Nat
          /\ processing_meta'[m].heartbeat_at = now
          /\ \A n \in Msg \ {m} : processing'[n] = processing[n]
                                  /\ processing_meta'[n] = processing_meta[n]
      BY <1>1 DEF Lease, Inv, TypeOK
    <2>2. \A n \in Msg : processing_meta[n] # NoMeta => processing[n] > 0
      BY DEF LeaseIsListed
    <2>3. UNCHANGED <<now, setbacks, checked_at, held>>
      BY <1>1 DEF Lease
    <2>4. \A n \in Msg : \/ processing_meta'[n] = NoMeta
                         \/ /\ processing'[n] > 0
                            /\ \/ processing_meta'[n].heartbeat_at = now
                               \/ /\ processing_meta[n] # NoMeta
                                  /\ processing_meta'[n].heartbeat_at
                                       = processing_meta[n].heartbeat_at
      <3>1. processing'[m] > 0 /\ processing_meta'[m].heartbeat_at = now
        BY <2>1
      <3>2. \A n \in Msg \ {m} : processing'[n] = processing[n]
                                /\ processing_meta'[n] = processing_meta[n]
        BY <2>1
      <3> QED BY <3>1, <3>2, <2>2
    <2> QED BY <2>3, <2>4, LeaseWritesKeepListed
  <1>2. CASE Heartbeat(w)
    <2>1. handle[w] # NoHandle /\ processing_meta[handle[w].msg].owner = handle[w].owner
      BY <1>2 DEF Heartbeat, MayHeartbeat, OwnsLease
    <2>2. handle[w].msg \in Msg /\ handle[w].owner > 0
      BY <2>1 DEF Inv, TokensIssued
    <2>3. processing_meta[handle[w].msg] # NoMeta
      BY <2>1, <2>2, MetaFields
    <2>4. /\ processing' = processing
          /\ processing_meta'[handle[w].msg].heartbeat_at = now
          /\ \A n \in Msg \ {handle[w].msg} : processing_meta'[n] = processing_meta[n]
      BY <1>2, <2>2 DEF Heartbeat, Inv, TypeOK, Meta
    <2>5. \A n \in Msg : processing_meta[n] # NoMeta => processing[n] > 0
      BY DEF LeaseIsListed
    <2>6. UNCHANGED <<now, setbacks, checked_at, held>>
      BY <1>2 DEF Heartbeat
    <2>7. \A n \in Msg : \/ processing_meta'[n] = NoMeta
                         \/ /\ processing'[n] > 0
                            /\ \/ processing_meta'[n].heartbeat_at = now
                               \/ /\ processing_meta[n] # NoMeta
                                  /\ processing_meta'[n].heartbeat_at
                                       = processing_meta[n].heartbeat_at
      BY <2>2, <2>3, <2>4, <2>5
    <2> QED BY <2>6, <2>7, LeaseWritesKeepListed
  <1>3. CASE Ack(w) \/ Fail(w)
    <2>1. handle[w].msg \in Msg
      BY <1>3 DEF Ack, Fail, Settle, MaySettle, OwnsLease, Inv, TokensIssued
    <2>2. /\ processing_meta'[handle[w].msg] = NoMeta
          /\ \A n \in Msg \ {handle[w].msg} : processing'[n] = processing[n]
                                              /\ processing_meta'[n] = processing_meta[n]
      BY <1>3, <2>1 DEF Ack, Fail, Settle, RemoveOne, Inv, TypeOK
    <2>3. \A n \in Msg : processing_meta[n] # NoMeta => processing[n] > 0
      BY DEF LeaseIsListed
    <2>4. UNCHANGED <<now, setbacks, checked_at, held>>
      BY <1>3 DEF Ack, Fail, Settle
    <2>5. \A n \in Msg : \/ processing_meta'[n] = NoMeta
                         \/ /\ processing'[n] > 0
                            /\ \/ processing_meta'[n].heartbeat_at = now
                               \/ /\ processing_meta[n] # NoMeta
                                  /\ processing_meta'[n].heartbeat_at
                                       = processing_meta[n].heartbeat_at
      BY <2>1, <2>2, <2>3
    <2> QED BY <2>4, <2>5, LeaseWritesKeepListed
  <1>4. CASE Abandon(w) \/ PruneHeartbeat(w) \/ \E m \in Msg : DeadLetterInvalid(w, m)
    <2>1. UNCHANGED <<now, setbacks, checked_at, held, processing, processing_meta>>
      BY <1>4 DEF Abandon, PruneHeartbeat, DeadLetterInvalid
    <2> QED BY <2>1, QuietKeepsListed
  <1> QED BY <1>1, <1>2, <1>3, <1>4 DEF WorkerNext

\* The reclaim pass keeps LeaseIsListed: a pass that read retry_meta is cancelled before
\* a lease made meanwhile can expire.
LEMMA ReclaimKeepsListed ==
  ASSUME Inv, LeaseIsListed, PassBudget + MaxSetbacks <= Visibility,
         NEW r \in Reclaimer, ReclaimNext(r)
  PROVE  LeaseIsListed'
  <1> USE DEF clockVars, lists, metaVars
  <1> DEFINE m == held[r].msg
             owner == held[r].meta.owner
  <1>1. /\ processing_meta \in [Msg -> Meta] /\ processing \in [Msg -> Nat]
        /\ held \in [Reclaimer -> Held] /\ now \in Nat
        /\ checked_at \in [Reclaimer -> Nat] /\ setbacks \in Nat
    BY DEF Inv, TypeOK
  <1>2. Snapshot(r) => m \in Msg /\ owner \in Nat \ {0}
    <2>1. Snapshot(r) => m \in Msg /\ owner > 0
      BY DEF Inv, TokensIssued, Snapshot
    <2>2. held[r] \in Held
      BY <1>1
    <2> QED BY ONLY <2>1, <2>2 DEF Held, Meta
  <1>3. \A n \in Msg : processing_meta[n] # NoMeta => processing[n] > 0
    BY DEF LeaseIsListed
  <1>4. ASSUME NEW h, held' = [held EXCEPT ![r] = h], h.step \notin {"lookup", "retry_meta"}
        PROVE  \A q \in Reclaimer : held'[q] = held[q] \/ ~LateRead(q)'
    BY <1>1, <1>4 DEF LateRead
  <1>5. CASE ReclaimScan(r)
    <2>1. UNCHANGED <<now, setbacks, held, processing, processing_meta>>
          /\ Idle(r) /\ checked_at' = [checked_at EXCEPT ![r] = now]
      BY <1>5 DEF ReclaimScan
    <2>2. \A q \in Reclaimer : checked_at'[q] = checked_at[q] \/ (q = r /\ checked_at'[q] = now)
      BY <1>1, <2>1
    <2>3. ~LateRead(r)
      BY <2>1 DEF Idle, LateRead
    <2>4. now <= now + setbacks
      BY <1>1
    <2> QED BY <2>1, <2>2, <2>3, <2>4 DEF LeaseIsListed, LateRead
  <1>6. ASSUME NEW n \in Msg, ReclaimReadProcessing(r, n) PROVE LeaseIsListed'
    <2> DEFINE lookup == [step |-> "lookup", msg |-> n, meta |-> NoMeta]
               found == [step |-> "processing_meta", msg |-> n, meta |-> processing_meta[n]]
    <2>1. \/ processing_meta[n] = NoMeta /\ held' = [held EXCEPT ![r] = lookup]
          \/ held' = [held EXCEPT ![r] = NothingHeld]
          \/ held' = [held EXCEPT ![r] = found]
      BY <1>6 DEF ReclaimReadProcessing, Take
    <2>2. UNCHANGED <<now, setbacks, checked_at, processing, processing_meta>>
      BY <1>6 DEF ReclaimReadProcessing, Take
    <2>3. \A q \in Reclaimer : \/ held'[q] = held[q]
                               \/ ~LateRead(q)'
                               \/ processing_meta[held'[q].msg] = NoMeta
      <3>1. CASE processing_meta[n] = NoMeta /\ held' = [held EXCEPT ![r] = lookup]
        BY <1>1, <3>1
      <3>2. CASE held' = [held EXCEPT ![r] = NothingHeld]
        BY <1>4, <3>2 DEF NothingHeld
      <3>3. CASE held' = [held EXCEPT ![r] = found]
        BY <1>4, <3>3
      <3> QED BY <2>1, <3>1, <3>2, <3>3
    <2> QED BY <2>2, <2>3, QuietKeepsListed
  <1>7. CASE ReclaimReadRetry(r)
    <2>1. \/ held' = [held EXCEPT ![r] = NothingHeld]
          \/ held' = [held EXCEPT ![r] = [step |-> "retry_meta", msg |-> m, meta |-> retry_meta[m]]]
      BY <1>7 DEF ReclaimReadRetry, Take
    <2>2. UNCHANGED <<now, setbacks, checked_at, processing, processing_meta>> /\ LateRead(r)
      BY <1>7 DEF ReclaimReadRetry, Take, LateRead
    <2>3. \A q \in Reclaimer : \/ held'[q] = held[q]
                               \/ ~LateRead(q)'
                               \/ LateRead(q) /\ held'[q].msg = held[q].msg
      BY <1>1, <2>1, <2>2 DEF LateRead, NothingHeld
    <2> QED BY <2>2, <2>3, QuietKeepsListed
  <1>8. CASE ReclaimRefused(r) \/ ReclaimTimesOut(r)
    <2>1. held' = [held EXCEPT ![r] = NothingHeld]
          /\ UNCHANGED <<now, setbacks, checked_at, processing, processing_meta>>
      BY <1>8 DEF ReclaimRefused, ReclaimTimesOut
    <2>2. \A q \in Reclaimer : held'[q] = held[q] \/ ~LateRead(q)'
      BY <1>4, <2>1 DEF NothingHeld
    <2> QED BY <2>1, <2>2, QuietKeepsListed
  <1>9. ASSUME Inspects(r), held' = [held EXCEPT ![r] = NothingHeld],
               UNCHANGED <<now, setbacks, checked_at>>,
               \A n \in Msg : n # m => processing'[n] = processing[n]
                                       /\ processing_meta'[n] = processing_meta[n],
               \/ processing_meta'[m] = NoMeta
               \/ /\ processing'[m] = processing[m] /\ processing_meta[m] # NoMeta
                  /\ \/ processing_meta'[m].heartbeat_at = now
                     \/ processing_meta'[m].heartbeat_at = processing_meta[m].heartbeat_at
        PROVE  LeaseIsListed'
    <2>1. \A q \in Reclaimer : held'[q] = held[q] \/ ~LateRead(q)'
      BY <1>4, <1>9 DEF NothingHeld
    <2>2. m \in Msg
      BY <1>2, <1>9 DEF Inspects, InHand, Snapshot
    <2> HIDE DEF m
    <2>3. \A n \in Msg : \/ processing_meta'[n] = NoMeta
                         \/ /\ processing'[n] > 0
                            /\ \/ processing_meta'[n].heartbeat_at = now
                               \/ /\ processing_meta[n] # NoMeta
                                  /\ processing_meta'[n].heartbeat_at
                                       = processing_meta[n].heartbeat_at
      BY <1>3, <1>9, <2>2
    <2> QED BY <1>9, <2>1, <2>3, LeaseWritesKeepListed
  <1>10. ASSUME Inspects(r), processing_meta' = Normalized(processing_meta, m, owner)
         PROVE  /\ \A n \in Msg : n # m => processing_meta'[n] = processing_meta[n]
                /\ processing_meta[m] = NoMeta => processing_meta'[m] = NoMeta
                /\ \/ processing_meta'[m].heartbeat_at = now
                   \/ processing_meta'[m].heartbeat_at = processing_meta[m].heartbeat_at
    <2>1. m \in Msg /\ owner \in Nat \ {0}
      BY <1>2, <1>10 DEF Inspects, InHand, Snapshot
    <2> HIDE DEF m, owner
    <2>2. processing_meta[m] \in Meta
      BY <1>1, <2>1
    <2>3. processing_meta'[m] = [processing_meta[m] EXCEPT !.heartbeat_at =
             IF processing_meta[m].owner = owner /\ @ > now THEN now ELSE @]
          /\ \A n \in Msg : n # m => processing_meta'[n] = processing_meta[n]
      BY <1>1, <1>10, <2>1 DEF Normalized
    <2>4. processing_meta[m] = NoMeta => processing_meta'[m] = NoMeta
      BY <2>1, <2>3 DEF NoMeta
    <2> QED BY <2>2, <2>3, <2>4 DEF Meta
  <1>11. CASE ReclaimTooEarly(r)
    <2>1. /\ Inspects(r) /\ held' = [held EXCEPT ![r] = NothingHeld]
          /\ UNCHANGED <<now, setbacks, checked_at, processing>>
          /\ processing_meta' = Normalized(processing_meta, m, owner)
      BY <1>11 DEF ReclaimTooEarly
    <2> QED BY <1>9, <1>10, <2>1
  <1>12. CASE Requeue(r)
    <2>1. Inspects(r) /\ held' = [held EXCEPT ![r] = NothingHeld]
          /\ UNCHANGED <<now, setbacks, checked_at>>
      BY <1>12 DEF Requeue
    <2>2. m \in Msg
      BY <1>2, <2>1 DEF Inspects, InHand, Snapshot
    <2>3. processing_meta'[m] = NoMeta
          /\ \A n \in Msg : n # m => processing'[n] = processing[n]
                                     /\ processing_meta'[n] = processing_meta[n]
      BY <1>1, <1>12, <2>2 DEF Requeue, RemoveOne
    <2> QED BY <1>9, <2>1, <2>3
  <1>13. CASE DeadLetterExpired(r)
    <2>1. Inspects(r) /\ Expired(m) /\ held' = [held EXCEPT ![r] = NothingHeld]
          /\ UNCHANGED <<now, setbacks, checked_at>>
          /\ processing' = RemoveOne(processing, m)
      BY <1>13 DEF DeadLetterExpired
    <2>2. m \in Msg /\ InBudget(r)
      BY <1>2, <2>1 DEF Inspects, InHand, Snapshot
    <2>3. \A n \in Msg : n # m => processing'[n] = processing[n]
      BY <1>1, <2>1, <2>2 DEF RemoveOne
    <2>4. CASE held[r].step = "processing_meta"
      <3>1. processing_meta'[m] = NoMeta
            /\ \A n \in Msg : n # m => processing_meta'[n] = processing_meta[n]
        BY <1>1, <1>13, <2>2, <2>4 DEF DeadLetterExpired
      <3> QED BY <1>9, <2>1, <2>3, <3>1
    <2>5. CASE held[r].step # "processing_meta"
      <3>1. LateRead(r)
        BY <2>1, <2>5 DEF LateRead, Inspects, InHand
      <3>2. processing_meta[m] # NoMeta =>
              /\ now - processing_meta[m].heartbeat_at > Visibility
              /\ checked_at[r] <= processing_meta[m].heartbeat_at + setbacks
        BY <2>1, <3>1 DEF Expired, CurrentMeta, LeaseIsListed
      <3>3. processing_meta[m].heartbeat_at \in Nat /\ checked_at[r] \in Nat
        BY <1>1, <2>2, MetaFields
      <3>4. now - checked_at[r] <= PassBudget /\ setbacks <= MaxSetbacks
        BY <2>2 DEF InBudget, LeaseIsListed
      <3>5. processing_meta[m] = NoMeta
        <4> HIDE DEF m
        <4> QED BY <1>1, <3>2, <3>3, <3>4, LimitsAssumption
      <3>6. processing_meta' = Normalized(processing_meta, m, owner)
        BY <1>13, <2>5 DEF DeadLetterExpired
      <3>7. processing_meta'[m] = NoMeta
            /\ \A n \in Msg : n # m => processing_meta'[n] = processing_meta[n]
        BY <1>10, <2>1, <3>5, <3>6
      <3> QED BY <1>9, <2>1, <2>3, <3>7
    <2> QED BY <2>4, <2>5
  <1> QED BY <1>5, <1>6, <1>7, <1>8, <1>11, <1>12, <1>13 DEF ReclaimNext

\* Time passing, or set back by one, keeps LeaseIsListed: a set-back is counted.
LEMMA ClockKeepsListed ==
  ASSUME Inv, LeaseIsListed, Tick \/ SetBack
  PROVE  LeaseIsListed'
  <1>1. UNCHANGED <<held, checked_at, processing, processing_meta>>
    BY DEF Tick, SetBack, lists, metaVars, reclaimVars
  <1>2. now \in Nat /\ setbacks \in Nat /\ MaxSetbacks \in Nat
    BY LimitsAssumption DEF Inv, TypeOK
  <1>3. \/ now' = now + 1 /\ setbacks' = setbacks
        \/ now > 0 /\ now' = now - 1 /\ setbacks' = setbacks + 1 /\ setbacks < MaxSetbacks
    BY DEF Tick, SetBack
  <1>4. \A r \in Reclaimer : checked_at[r] <= now + setbacks /\ checked_at[r] \in Nat
    BY DEF LeaseIsListed, Inv, TypeOK
  <1>5. \A r \in Reclaimer : checked_at[r] <= now' + setbacks'
    BY <1>2, <1>3, <1>4
  <1>6. ASSUME NEW r \in Reclaimer, LateRead(r), processing_meta[held[r].msg] # NoMeta
        PROVE  checked_at[r] <= processing_meta[held[r].msg].heartbeat_at + setbacks'
    <2>1. held[r].msg \in Msg
      BY <1>6 DEF LateRead, Inv, TokensIssued
    <2>2. processing_meta[held[r].msg].heartbeat_at \in Nat
      BY <2>1, MetaFields DEF Inv, TypeOK
    <2>3. checked_at[r] <= processing_meta[held[r].msg].heartbeat_at + setbacks
      BY <1>6 DEF LeaseIsListed
    <2> QED BY <1>2, <1>3, <1>4, <2>2, <2>3
  <1>7. setbacks' <= MaxSetbacks
    BY <1>2, <1>3 DEF LeaseIsListed
  <1> QED BY <1>1, <1>5, <1>6, <1>7 DEF LeaseIsListed, LateRead

=============================================================================
