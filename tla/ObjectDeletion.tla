---------------------------- MODULE ObjectDeletion ----------------------------
(***************************************************************************)
(* One object in the bucket, the row that owns it and its row in           *)
(* object_deletion_outbox (app/persistence/object_deletions.py,            *)
(* artifacts.py, file_deletions.py, app/data_retention.py,                 *)
(* app/context/infrastructure/provider_images.py).                         *)
(*                                                                         *)
(* The object is an artifact, an uploaded file or a private provider       *)
(* image; `kind` is chosen in the initial state.  Artifacts and images are *)
(* written under a reservation: a provisional row that is already queued   *)
(* for deletion and is retired in the transaction that commits the result. *)
(* The key of an artifact is derived from the attempt and the content, so  *)
(* the worker and each reconciler claim of one attempt write the same key. *)
(*                                                                         *)
(* A deletion claim is an outbox row in "processing" under a new           *)
(* lease_generation.  A deleter works on one claim at a time, so           *)
(* "generation equals the current one" is "the row's holder is me".        *)
(* Storage calls run in threads that go on after their 120 s limit: `late` *)
(* is a delete request, "straying" a put, that its caller gave up on.      *)
(***************************************************************************)
EXTENDS Naturals, TLAPS

CONSTANTS Writers,      \* processes that collect the attempt's result
          Deleters,     \* maintenance workers
          MaxAttempts   \* OBJECT_DELETE_MAX_ATTEMPTS

VARIABLES kind, row, bound, box, revived, stored, late, writer, owner, deleter

vars == <<kind, row, bound, box, revived, stored, late, writer, owner, deleter>>
database == <<row, bound, box, revived>>

None == "none"
NoBox == [state |-> None, attempts |-> 0, due |-> FALSE, stale |-> FALSE, holder |-> None]
Queue(due) == [NoBox EXCEPT !.state = "pending", !.due = due]

(* The target is delete_pending, under a reservation or after a request *)
Doomed == row \in {"provisional", "delete_pending"}

-----------------------------------------------------------------------------
(* Writing under a reservation.                                            *)

(* reserve_provisional_artifact_cleanup, reserve_provider_images: the row   *)
(* is inserted or found again.  storage_key is unique over all artifacts,   *)
(* so the key of a committed or retired artifact cannot be reserved; a row  *)
(* whose deletion is in progress refuses too.  A superseded writer's thread *)
(* may still get here; an image key has one writer and is never reused.     *)
Reserve(w) ==
  /\ writer[w] = "idle"
  /\ kind = "artifact" \/ (kind = "image" /\ owner = w)
  /\ IF /\ row \in {None, "provisional"}
        /\ box.state # "processing"
       THEN /\ row' = "provisional"
            /\ box' = [Queue(FALSE) EXCEPT !.holder = box.holder]
            /\ revived' = (revived \/ box.state \in {"failed", "dead_letter", "deleted"})
            /\ writer' = [writer EXCEPT ![w] = "reserved"]
       ELSE /\ writer' = [writer EXCEPT ![w] = "stopped"]
            /\ UNCHANGED <<row, box, revived>>
  /\ UNCHANGED <<kind, bound, stored, late, owner, deleter>>

(* put_bytes: sent, then answered *)
Put(w) ==
  /\ writer[w] = "reserved"
  /\ writer' = [writer EXCEPT ![w] = "writing"]
  /\ UNCHANGED <<kind, database, stored, late, owner, deleter>>
PutLands(w) ==
  /\ writer[w] \in {"writing", "straying"}
  /\ stored' = TRUE
  /\ writer' = [writer EXCEPT ![w] = IF @ = "writing" THEN "written" ELSE "stopped"]
  /\ UNCHANGED <<kind, database, late, owner, deleter>>

(* The collection times out, is cancelled or its process dies: the thread  *)
(* sees `abandoned` before its next call, a put already sent goes on       *)
Abandon(w) ==
  /\ writer[w] \in {"reserved", "writing", "written"}
  /\ writer' = [writer EXCEPT ![w] = IF @ = "writing" THEN "straying" ELSE "stopped"]
  /\ UNCHANGED <<kind, database, stored, late, owner, deleter>>

PromotableWhateverState == row = "provisional"

(* promote_provisional_artifact_cleanup, promote_provider_images: inside    *)
(* the committing transaction, which verifies the writer's claim; an image  *)
(* is promoted only before its reservation falls due                        *)
Promotable ==
  /\ row = "provisional"
  /\ box.state = "pending"
  /\ kind = "image" => box.attempts = 0 /\ ~box.due
Promote(w) ==
  /\ writer[w] = "written" /\ owner = w
  /\ IF Promotable
       THEN /\ row' = "active" /\ bound' = TRUE /\ box' = NoBox
            /\ writer' = [writer EXCEPT ![w] = "done"]
       ELSE /\ writer' = [writer EXCEPT ![w] = "stopped"]
            /\ UNCHANGED <<row, bound, box>>
  /\ UNCHANGED <<kind, revived, stored, late, owner, deleter>>

(* The next reconciler claim takes the attempt over *)
TakeOver(w) ==
  /\ kind = "artifact" /\ writer[owner] # "done" /\ writer[w] = "idle" /\ owner # w
  /\ owner' = w
  /\ UNCHANGED <<kind, database, stored, late, writer, deleter>>

-----------------------------------------------------------------------------
(* Retiring a committed object.                                            *)

(* bind_files_to_run, in the transaction that creates the run *)
BindFile ==
  /\ kind = "file" /\ row = "active" /\ ~bound
  /\ bound' = TRUE
  /\ UNCHANGED <<kind, row, box, revived, stored, late, writer, owner, deleter>>

(* The artifact's retention period ends with its session closed and no      *)
(* snapshot naming it; the last entry naming an image goes with its session *)
Unbind ==
  /\ kind \in {"artifact", "image"} /\ bound
  /\ \A w \in Writers : writer[w] \in {"idle", "stopped", "done"}
  /\ bound' = FALSE
  /\ UNCHANGED <<kind, row, box, revived, stored, late, writer, owner, deleter>>

(* queue_expired_artifacts_for_deletion, queue_unbound_file_for_deletion,   *)
(* queue_provider_images_for_deletion: tombstone and outbox row together    *)
Retire ==
  /\ row = "active" /\ ~bound
  /\ row' = "delete_pending" /\ box' = Queue(TRUE)
  /\ UNCHANGED <<kind, bound, revived, stored, late, writer, owner, deleter>>

-----------------------------------------------------------------------------
(* Deleting.                                                               *)

Available ==
  \/ box.state \in {"pending", "failed"} /\ box.due
  \/ box.state = "processing" /\ box.stale

ClaimFinishedNever == Doomed /\ Available /\ box.attempts < MaxAttempts

(* claim_object_deletions: an exhausted row is dead-lettered; a provisional *)
(* row already deleted is claimed again a day later, for a late put         *)
Claimable ==
  /\ Doomed
  /\ \/ Available /\ box.attempts < MaxAttempts
     \/ box.state = "deleted" /\ row = "provisional" /\ box.due
Claim(d) ==
  /\ deleter[d] = "idle" /\ Claimable
  /\ box' = [state |-> "processing", due |-> FALSE, stale |-> FALSE, holder |-> d,
             attempts |-> IF box.state = "deleted" THEN 1 ELSE box.attempts + 1]
  /\ deleter' = [deleter EXCEPT ![d] = "claimed"]
  /\ UNCHANGED <<kind, row, bound, revived, stored, late, writer, owner>>
DeadLetter ==
  /\ Available /\ box.attempts >= MaxAttempts
  /\ box' = [box EXCEPT !.state = "dead_letter", !.stale = FALSE]
  /\ UNCHANGED <<kind, row, bound, revived, stored, late, writer, owner, deleter>>

(* delete_object answers *)
Delete(d) ==
  /\ deleter[d] = "claimed"
  /\ stored' = FALSE
  /\ deleter' = [deleter EXCEPT ![d] = "deleted"]
  /\ UNCHANGED <<kind, database, late, writer, owner>>

Holds(d) == box.state = "processing" /\ box.holder = d

(* complete_object_deletion: target and receipt in one statement *)
Complete(d) ==
  /\ deleter[d] = "deleted"
  /\ deleter' = [deleter EXCEPT ![d] = "idle"]
  /\ IF Holds(d) /\ Doomed
       THEN /\ row' = IF row = "provisional" THEN row ELSE "deleted"
            /\ box' = [box EXCEPT !.state = "deleted", !.due = FALSE, !.stale = FALSE]
       ELSE UNCHANGED <<row, box>>
  /\ UNCHANGED <<kind, bound, revived, stored, late, writer, owner>>

(* fail_object_deletion after an error or a timeout; after a timeout the    *)
(* request is still on its way                                              *)
Fail(d) ==
  /\ deleter[d] = "claimed"
  /\ deleter' = [deleter EXCEPT ![d] = "idle"]
  /\ late' \in {late, TRUE}
  /\ box' = IF ~Holds(d) THEN box ELSE
              [box EXCEPT !.state = IF box.attempts >= MaxAttempts THEN "dead_letter" ELSE "failed",
                          !.due = FALSE, !.stale = FALSE]
  /\ UNCHANGED <<kind, row, bound, revived, stored, writer, owner>>

(* The maintenance budget cancels the phase, or the worker dies *)
Interrupted(d) ==
  /\ deleter[d] \in {"claimed", "deleted"}
  /\ deleter' = [deleter EXCEPT ![d] = "idle"]
  /\ late' \in IF deleter[d] = "claimed" THEN {late, TRUE} ELSE {late}
  /\ UNCHANGED <<kind, database, stored, writer, owner>>

LateDelete ==
  /\ late
  /\ late' = FALSE /\ stored' = FALSE
  /\ UNCHANGED <<kind, database, writer, owner, deleter>>

(* requeue_dead_letter_object_deletion, by an operator *)
Requeue ==
  /\ box.state = "dead_letter" /\ Doomed
  /\ box' = [Queue(TRUE) EXCEPT !.holder = box.holder]
  /\ revived' = TRUE
  /\ UNCHANGED <<kind, row, bound, stored, late, writer, owner, deleter>>

(* available_at (15 minutes, the backoff, a day after "deleted") passes, or *)
(* the five minutes of a lease                                              *)
FallsDue ==
  /\ \/ box.state \in {"pending", "failed", "deleted"} /\ ~box.due
        /\ box' = [box EXCEPT !.due = TRUE]
     \/ box.state = "processing" /\ ~box.stale
        /\ box' = [box EXCEPT !.stale = TRUE]
  /\ UNCHANGED <<kind, row, bound, revived, stored, late, writer, owner, deleter>>

-----------------------------------------------------------------------------
Init ==
  /\ kind \in {"artifact", "file", "image"}
  /\ row = IF kind = "file" THEN "active" ELSE None
  /\ stored = (kind = "file")
  /\ bound = FALSE /\ box = NoBox /\ revived = FALSE /\ late = FALSE
  /\ writer = [w \in Writers |-> "idle"]
  /\ owner \in Writers
  /\ deleter = [d \in Deleters |-> "idle"]

Next ==
  \/ \E w \in Writers : Reserve(w) \/ Put(w) \/ PutLands(w)
                        \/ Abandon(w) \/ Promote(w) \/ TakeOver(w)
  \/ BindFile \/ Unbind \/ Retire
  \/ \E d \in Deleters : Claim(d) \/ Delete(d) \/ Complete(d) \/ Fail(d) \/ Interrupted(d)
  \/ DeadLetter \/ LateDelete \/ Requeue \/ FallsDue

Spec == Init /\ [][Next]_vars

-----------------------------------------------------------------------------
TypeOK ==
  /\ kind \in {"artifact", "file", "image"}
  /\ row \in {None, "provisional", "active", "delete_pending", "deleted"}
  /\ box \in [state : {None, "pending", "processing", "failed", "dead_letter", "deleted"},
              attempts : 0..MaxAttempts, due : BOOLEAN, stale : BOOLEAN,
              holder : Deleters \cup {None}]
  /\ {bound, revived, stored, late} \subseteq BOOLEAN
  /\ writer \in [Writers -> {"idle", "reserved", "writing", "straying", "written", "stopped", "done"}]
  /\ owner \in Writers
  /\ deleter \in [Deleters -> {"idle", "claimed", "deleted"}]

(* "a claimed cleanup can never be revived": the object of a committed      *)
(* artifact, file or image is there, whatever late deletes, expired leases  *)
(* and slow writers do, and nothing a run or a session still names is       *)
(* queued for deletion.  The one exception is an artifact whose reservation *)
(* was armed again, by a second writer or by an operator, after a deletion  *)
(* of it had been claimed.  A receipt of a deletion is never false.         *)
ObjectMatchesRow ==
  /\ bound => row = "active"
  /\ row = "active" => stored \/ (kind = "artifact" /\ revived)
  /\ row = "deleted" => ~stored

(* "unresolved uploads retain repeated cleanup to catch late writes": an    *)
(* object whose reservation was never promoted, and one queued for          *)
(* deletion, is deleted in the end or left to an operator as a dead letter. *)
Collected == row = "deleted" \/ box.state = "dead_letter"
Orphan == row = "provisional" /\ stored /\ box.state # "dead_letter"
OrphanCollected == (row = "delete_pending" ~> Collected) /\ (Orphan ~> ~Orphan)

-----------------------------------------------------------------------------
(***************************************************************************)
(* A committed object is there and a deletion receipt is true, for any     *)
(* number of writers, maintenance workers and attempts.  ObjectMatchesRow  *)
(* is not inductive: that a promotion finds the object follows from there  *)
(* being no deletion under way as long as no claim was taken, and that a   *)
(* receipt is true from no writer being left once the object is retired.   *)
(* Inv adds these.                                                         *)
(***************************************************************************)

Box == [state : {None, "pending", "processing", "failed", "dead_letter", "deleted"},
        attempts : Nat, due : BOOLEAN, stale : BOOLEAN, holder : Deleters \cup {None}]

TypeInv ==
  /\ kind \in {"artifact", "file", "image"}
  /\ row \in {None, "provisional", "active", "delete_pending", "deleted"}
  /\ box \in Box
  /\ bound \in BOOLEAN /\ revived \in BOOLEAN /\ stored \in BOOLEAN /\ late \in BOOLEAN
  /\ writer \in [Writers -> {"idle", "reserved", "writing", "straying", "written", "stopped", "done"}]
  /\ owner \in Writers
  /\ deleter \in [Deleters -> {"idle", "claimed", "deleted"}]

\* No delete request is under way.
Calm == ~late /\ \A d \in Deleters : deleter[d] = "idle"

\* The object is not committed yet and no deletion of it was ever claimed.  A reservation
\* that was armed again does not count, except an image's while it is not due.
Unclaimed ==
  /\ row \in {None, "provisional"} /\ box.state \in {None, "pending"}
  /\ ~revived \/ (kind = "image" /\ ~box.due)

WritersQuiet == \A w \in Writers : writer[w] \in {"idle", "stopped", "done"}

\* What was written under a reservation nobody claimed is there, and nobody deletes it.
ReservationHolds ==
  Unclaimed => Calm /\ \A w \in Writers : writer[w] = "written" => stored

\* So is what was committed, with the exception ObjectMatchesRow names.
CommitHolds == row = "active" => (stored /\ Calm) \/ (kind = "artifact" /\ revived)

\* Who writes: nobody an uploaded file, its one writer an image, nobody a retired object.
WritersInOrder ==
  /\ kind = "file" => \A w \in Writers : writer[w] = "idle"
  /\ kind = "image" /\ writer[owner] = "idle" => row = None /\ ~revived
  /\ (row = "active" /\ ~bound) \/ row \in {"delete_pending", "deleted"} => WritersQuiet

\* An outbox row has a target, a named object is committed, and the holder of the claim on
\* a retired object that is past its delete request has deleted the object.
ReceiptHolds ==
  /\ row = None => box = NoBox
  /\ bound => row = "active"
  /\ row = "deleted" => ~stored
  /\ row = "delete_pending" => \A d \in Deleters : deleter[d] = "deleted" /\ Holds(d) => ~stored

Inv == TypeInv /\ ReservationHolds /\ CommitHolds /\ WritersInOrder /\ ReceiptHolds

-----------------------------------------------------------------------------
\* A queued row is pending, under no claim.
LEMMA QueueRow ==
  ASSUME NEW due \in BOOLEAN
  PROVE  /\ NoBox \in Box /\ NoBox.state = None
         /\ Queue(due) \in Box /\ Queue(due).state = "pending" /\ Queue(due).due = due
         /\ \A h \in Deleters \cup {None} :
              LET q == [Queue(due) EXCEPT !.holder = h] IN
                q \in Box /\ q.state = "pending" /\ q.due = due
  BY DEF Box, NoBox, Queue, None

\* Before the first reservation there is no row, no object and no deletion.
LEMMA InitInv == Init => Inv
  <1> SUFFICES ASSUME Init PROVE Inv
    OBVIOUS
  <1>1. TypeInv
    BY DEF Init, TypeInv, NoBox, Box, None
  <1>2. ReservationHolds /\ CommitHolds /\ WritersInOrder /\ ReceiptHolds
    BY DEF Init, ReservationHolds, CommitHolds, WritersInOrder, ReceiptHolds, WritersQuiet, Calm,
           Unclaimed, None, NoBox
  <1> QED BY <1>1, <1>2 DEF Inv

\* The writers' steps.
LEMMA WriterSteps ==
  ASSUME Inv, NEW w \in Writers,
         Reserve(w) \/ Put(w) \/ PutLands(w) \/ Abandon(w) \/ Promote(w) \/ TakeOver(w)
  PROVE  Inv'
  <1> USE DEF Inv
  <1>1. CASE Reserve(w)
    <2> DEFINE q == [Queue(FALSE) EXCEPT !.holder = box.holder]
    <2>0. q \in Box /\ q.state = "pending" /\ q.due = FALSE
      <3>1. box.holder \in Deleters \cup {None}
        BY DEF TypeInv, Box
      <3> QED BY <3>1, QueueRow
    <2>1. ASSUME row \in {None, "provisional"}, box.state # "processing",
                 row' = "provisional", box' = q,
                 revived' = (revived \/ box.state \in {"failed", "dead_letter", "deleted"}),
                 writer' = [writer EXCEPT ![w] = "reserved"]
          PROVE  TypeInv' /\ ReservationHolds'
      <3> HIDE DEF q
      <3>1. UNCHANGED <<kind, bound, stored, late, owner, deleter>>
        BY <1>1 DEF Reserve
      <3>2. revived' \in BOOLEAN
        BY <2>1, Zenon
      <3>3. TypeInv'
        BY <2>0, <2>1, <3>1, <3>2 DEF TypeInv
      <3>4. Unclaimed' => Unclaimed
        <4>1. CASE kind = "image"
          <5>1. writer[owner] = "idle"
            BY <1>1, <4>1 DEF Reserve
          <5>2. row = None /\ box = NoBox /\ ~revived
            BY <4>1, <5>1 DEF WritersInOrder, ReceiptHolds
          <5> QED BY <5>2, QueueRow DEF Unclaimed
        <4>2. CASE kind # "image"
          <5>1. box.state \in {None, "pending"} \/ revived'
            BY <2>1 DEF TypeInv, Box
          <5>2. revived => revived'
            BY <2>1
          <5> QED BY <2>1, <3>1, <4>2, <5>1, <5>2 DEF Unclaimed
        <4> QED BY <4>1, <4>2
      <3>5. ReservationHolds'
        BY <2>1, <3>1, <3>4 DEF ReservationHolds, Calm, TypeInv
      <3> QED BY <3>3, <3>5
    <2>2. ASSUME UNCHANGED <<row, box, revived>>, writer' = [writer EXCEPT ![w] = "stopped"]
          PROVE  TypeInv' /\ ReservationHolds'
      <3>1. UNCHANGED <<kind, bound, stored, late, owner, deleter>>
        BY <1>1 DEF Reserve
      <3>2. TypeInv'
        BY <2>2, <3>1 DEF TypeInv
      <3>3. ReservationHolds'
        BY <2>2, <3>1 DEF ReservationHolds, Calm, Unclaimed, TypeInv
      <3> QED BY <3>2, <3>3
    <2>6. TypeInv' /\ ReservationHolds'
      BY <1>1, <2>1, <2>2 DEF Reserve
    <2>3. CommitHolds'
      BY <1>1 DEF Reserve, CommitHolds, Calm, None
    <2>4. WritersInOrder'
      BY <1>1 DEF TypeInv, Reserve, WritersInOrder, WritersQuiet, None
    <2>5. ReceiptHolds'
      BY <1>1 DEF Reserve, ReceiptHolds, Holds, None
    <2> QED BY <2>3, <2>4, <2>5, <2>6
  <1>2. CASE Put(w)
    <2>1. TypeInv'
      BY <1>2 DEF TypeInv, Put, database
    <2>2. ReservationHolds' /\ CommitHolds' /\ ReceiptHolds'
      BY <1>2 DEF TypeInv, Put, database, ReservationHolds, CommitHolds, ReceiptHolds, Calm, Unclaimed, Holds
    <2>3. WritersInOrder'
      BY <1>2 DEF TypeInv, Put, database, WritersInOrder, WritersQuiet
    <2> QED BY <2>1, <2>2, <2>3
  <1>3. CASE PutLands(w)
    <2>1. TypeInv'
      BY <1>3 DEF TypeInv, PutLands, database
    <2>2. ReservationHolds' /\ CommitHolds'
      BY <1>3 DEF TypeInv, PutLands, database, ReservationHolds, CommitHolds, Calm, Unclaimed
    <2>3. WritersInOrder'
      BY <1>3 DEF TypeInv, PutLands, database, WritersInOrder, WritersQuiet
    <2>4. ReceiptHolds'
      BY <1>3 DEF PutLands, database, ReceiptHolds, WritersInOrder, WritersQuiet
    <2> QED BY <2>1, <2>2, <2>3, <2>4
  <1>4. CASE Abandon(w)
    <2>1. TypeInv'
      BY <1>4 DEF TypeInv, Abandon, database
    <2>2. ReservationHolds' /\ CommitHolds' /\ ReceiptHolds'
      BY <1>4 DEF TypeInv, Abandon, database, ReservationHolds, CommitHolds, ReceiptHolds, Calm, Unclaimed, Holds
    <2>3. WritersInOrder'
      BY <1>4 DEF TypeInv, Abandon, database, WritersInOrder, WritersQuiet
    <2> QED BY <2>1, <2>2, <2>3
  <1>5. CASE Promote(w)
    <2>1. TypeInv'
      <3>1. row' \in {None, "provisional", "active", "delete_pending", "deleted"} /\ box' \in Box
        BY <1>5, QueueRow DEF TypeInv, Promote
      <3>2. bound' \in BOOLEAN
        BY <1>5, Zenon DEF TypeInv, Promote
      <3> QED BY <1>5, <3>1, <3>2 DEF TypeInv, Promote
    <2>2. ReservationHolds'
      BY <1>5 DEF TypeInv, Promote, ReservationHolds, Calm, Unclaimed, None
    <2>3. CommitHolds'
      BY <1>5 DEF TypeInv, Promote, Promotable, CommitHolds, ReservationHolds, Calm, Unclaimed,
                  WritersInOrder
    <2>4. WritersInOrder'
      BY <1>5 DEF TypeInv, Promote, WritersInOrder, WritersQuiet, None
    <2>5. ReceiptHolds'
      BY <1>5 DEF Promote, ReceiptHolds, Holds, None
    <2> QED BY <2>1, <2>2, <2>3, <2>4, <2>5
  <1>6. CASE TakeOver(w)
    <2>1. TypeInv'
      BY <1>6 DEF TypeInv, TakeOver, database
    <2>2. ReservationHolds' /\ CommitHolds' /\ ReceiptHolds'
      BY <1>6 DEF TakeOver, database, ReservationHolds, CommitHolds, ReceiptHolds, Calm, Unclaimed, Holds
    <2>3. WritersInOrder'
      BY <1>6 DEF TakeOver, database, WritersInOrder, WritersQuiet
    <2> QED BY <2>1, <2>2, <2>3
  <1> QED BY <1>1, <1>2, <1>3, <1>4, <1>5, <1>6

\* Binding, releasing and retiring a committed object.
LEMMA RetireSteps ==
  ASSUME Inv, BindFile \/ Unbind \/ Retire
  PROVE  Inv'
  <1> USE DEF Inv
  <1>0. /\ row' = row \/ (row = "active" /\ ~bound /\ row' = "delete_pending")
        /\ (row' = row /\ box' = box) \/ (row' # row /\ box' = Queue(TRUE) /\ bound' = bound)
        /\ bound' = bound \/ (kind = "file" /\ row = "active" /\ bound' = TRUE) \/ (WritersQuiet /\ bound' = FALSE)
        /\ UNCHANGED <<kind, revived, stored, late, writer, owner, deleter>>
    <2>1. CASE BindFile
      BY <2>1 DEF BindFile
    <2>2. CASE Unbind
      BY <2>2 DEF Unbind, WritersQuiet
    <2>3. CASE Retire
      BY <2>3 DEF Retire
    <2> QED BY <2>1, <2>2, <2>3
  <1>1. TypeInv'
    BY <1>0, QueueRow DEF TypeInv
  <1>2. ReservationHolds' /\ CommitHolds'
    BY <1>0 DEF ReservationHolds, CommitHolds, Calm, Unclaimed, None
  <1>3. WritersInOrder'
    <2>1. WritersQuiet' <=> WritersQuiet
      BY <1>0 DEF WritersQuiet
    <2>2. kind = "image" /\ writer[owner] = "idle" => row' = row
      BY <1>0 DEF WritersInOrder, None
    <2>3. (row' = "active" /\ ~bound') \/ row' \in {"delete_pending", "deleted"} => WritersQuiet
      BY <1>0 DEF WritersInOrder
    <2> QED BY <1>0, <2>1, <2>2, <2>3 DEF WritersInOrder
  <1>4. ReceiptHolds'
    <2>1. CASE row' = row /\ box' = box
      <3>1. bound' => row' = "active"
        BY <1>0, <2>1 DEF ReceiptHolds
      <3> QED BY <1>0, <2>1, <3>1 DEF ReceiptHolds, Holds
    <2>2. CASE row' # row /\ box' = Queue(TRUE) /\ bound' = bound
      <3>1. row' = "delete_pending" /\ box'.state = "pending" /\ ~bound'
        BY <1>0, <2>2, QueueRow
      <3> QED BY <3>1 DEF ReceiptHolds, Holds, None
    <2> QED BY <1>0, <2>1, <2>2
  <1> QED BY <1>1, <1>2, <1>3, <1>4

\* A step of the outbox row alone, that takes no claim over and leaves a row a claim was
\* taken of out of "pending", or marks it as armed again.
LEMMA BoxMoves ==
  ASSUME Inv, UNCHANGED <<kind, row, bound, stored, writer, owner>>,
         box' \in Box, revived' \in BOOLEAN, late' \in BOOLEAN,
         deleter' \in [Deleters -> {"idle", "claimed", "deleted"}],
         revived => revived',
         Unclaimed' => Unclaimed /\ UNCHANGED <<late, deleter>>,
         row = "active" /\ Calm => Calm',
         \A d \in Deleters : deleter'[d] = "deleted" /\ Holds(d)' => deleter[d] = "deleted" /\ Holds(d),
         row = None => UNCHANGED <<box, revived>>
  PROVE  Inv'
  <1> USE DEF Inv
  <1>1. TypeInv'
    BY DEF TypeInv
  <1>2. ReservationHolds'
    BY DEF ReservationHolds, Calm
  <1>3. CommitHolds'
    BY DEF CommitHolds
  <1>4. WritersInOrder'
    BY DEF WritersInOrder, WritersQuiet
  <1>5. ReceiptHolds'
    BY DEF ReceiptHolds
  <1> QED BY <1>1, <1>2, <1>3, <1>4, <1>5

\* A maintenance worker's claim, delete request and settlement, in any order the lease
\* allows, keep the invariant.
LEMMA DeleterSteps ==
  ASSUME Inv, NEW d \in Deleters,
         Claim(d) \/ Delete(d) \/ Complete(d) \/ Fail(d) \/ Interrupted(d)
  PROVE  Inv'
  <1> USE DEF Inv
  <1>0. /\ box \in Box /\ deleter \in [Deleters -> {"idle", "claimed", "deleted"}]
        /\ late \in BOOLEAN /\ revived \in BOOLEAN
    BY DEF TypeInv
  <1>a. ASSUME deleter[d] # "idle" PROVE ~Calm
    BY <1>a DEF Calm
  <1>1. CASE Claim(d)
    <2>1. box' \in Box /\ box'.state = "processing" /\ box'.holder = d
      BY <1>0, <1>1 DEF Claim, Box
    <2>2. deleter' = [deleter EXCEPT ![d] = "claimed"] /\ UNCHANGED <<kind, row, bound, revived, stored, late, writer, owner>>
          /\ row \in {"provisional", "delete_pending"}
      BY <1>1 DEF Claim, Claimable, Doomed
    <2>3. ~Unclaimed'
      BY <2>1 DEF Unclaimed, None
    <2>4. ASSUME NEW e \in Deleters, deleter'[e] = "deleted", Holds(e)' PROVE FALSE
      BY <1>0, <2>1, <2>2, <2>4 DEF Holds
    <2> QED BY <1>0, <2>1, <2>2, <2>3, <2>4, BoxMoves DEF None
  <1>2. CASE Delete(d)
    <2>1. deleter[d] = "claimed" /\ stored' = FALSE /\ deleter' = [deleter EXCEPT ![d] = "deleted"]
          /\ UNCHANGED <<kind, row, bound, box, revived, late, writer, owner>>
      BY <1>2 DEF Delete, database
    <2>2. ~Calm /\ ~Unclaimed
      BY <1>a, <2>1 DEF ReservationHolds
    <2>3. TypeInv'
      BY <2>1 DEF TypeInv
    <2>4. ReservationHolds'
      BY <2>1, <2>2 DEF ReservationHolds, Unclaimed
    <2>5. CommitHolds'
      BY <2>1, <2>2 DEF CommitHolds
    <2>6. WritersInOrder'
      BY <2>1 DEF WritersInOrder, WritersQuiet
    <2>7. ReceiptHolds'
      BY <2>1 DEF ReceiptHolds
    <2> QED BY <2>3, <2>4, <2>5, <2>6, <2>7
  <1>3. CASE Complete(d)
    <2>1. /\ deleter[d] = "deleted" /\ deleter' = [deleter EXCEPT ![d] = "idle"]
          /\ UNCHANGED <<kind, bound, revived, stored, late, writer, owner>>
      BY <1>3 DEF Complete
    <2>2. ~Calm /\ ~Unclaimed
      BY <1>a, <2>1 DEF ReservationHolds
    <2>3. ASSUME UNCHANGED <<row, box>> PROVE Inv'
      <3>1. ~Unclaimed'
        BY <2>1, <2>2, <2>3 DEF Unclaimed
      <3>2. \A e \in Deleters : (deleter'[e] = "deleted" => deleter[e] = "deleted") /\ (Holds(e)' <=> Holds(e))
        BY <1>0, <2>1, <2>3 DEF Holds
      <3> QED BY <1>0, <2>1, <2>2, <2>3, <3>1, <3>2, BoxMoves
    <2>4. ASSUME Holds(d), row = "provisional", row' = row,
                 box' = [box EXCEPT !.state = "deleted", !.due = FALSE, !.stale = FALSE]
          PROVE  Inv'
      <3>1. box' \in Box /\ box'.state = "deleted"
        BY <1>0, <2>4 DEF Box
      <3>2. ~Unclaimed' /\ \A e \in Deleters : ~Holds(e)'
        BY <3>1 DEF Unclaimed, Holds, None
      <3> QED BY <1>0, <2>1, <2>4, <3>1, <3>2, BoxMoves DEF None
    <2>5. ASSUME Holds(d), row = "delete_pending", row' = "deleted",
                 box' = [box EXCEPT !.state = "deleted", !.due = FALSE, !.stale = FALSE]
          PROVE  Inv'
      <3>1. box' \in Box
        BY <1>0, <2>5 DEF Box
      <3>2. ~stored
        BY <2>1, <2>5 DEF ReceiptHolds
      <3>3. TypeInv'
        BY <2>1, <2>5, <3>1 DEF TypeInv
      <3>4. ReservationHolds' /\ CommitHolds'
        BY <2>5 DEF ReservationHolds, Unclaimed, CommitHolds, None
      <3>5. WritersInOrder'
        BY <2>1, <2>5 DEF WritersInOrder, WritersQuiet, None
      <3>6. ReceiptHolds'
        BY <2>1, <2>5, <3>2 DEF ReceiptHolds, None
      <3> QED BY <3>3, <3>4, <3>5, <3>6
    <2> QED BY <1>3, <2>3, <2>4, <2>5 DEF Complete, Doomed
  <1>4. CASE Fail(d) \/ Interrupted(d)
    <2>1. /\ deleter[d] # "idle" /\ deleter' = [deleter EXCEPT ![d] = "idle"]
          /\ UNCHANGED <<kind, row, bound, revived, stored, writer, owner>>
          /\ late' \in BOOLEAN
      BY <1>0, <1>4 DEF Fail, Interrupted, database
    <2>2. ~Calm /\ ~Unclaimed
      BY <1>a, <2>1 DEF ReservationHolds
    <2>3. \/ box' = box
          \/ /\ box' \in Box /\ box'.state \in {"dead_letter", "failed"}
      <3> DEFINE f(s) == [box EXCEPT !.state = s, !.due = FALSE, !.stale = FALSE]
      <3>1. box' = box \/ \E s \in {"dead_letter", "failed"} : box' = f(s)
        BY <1>4 DEF Fail, Interrupted, database
      <3>2. \A s \in {"dead_letter", "failed"} : f(s) \in Box /\ f(s).state = s
        BY <1>0 DEF Box
      <3> QED BY <3>1, <3>2
    <2>4. ~Unclaimed' /\ (row = None => box' = box)
      <3>1. box' # box => box.state = "processing"
        BY <1>4 DEF Fail, Interrupted, database, Holds
      <3> QED BY <2>1, <2>2, <2>3, <3>1, QueueRow DEF Unclaimed, ReceiptHolds, None
    <2>5. \A e \in Deleters : deleter'[e] = "deleted" /\ Holds(e)' => deleter[e] = "deleted" /\ Holds(e)
      BY <1>0, <2>1, <2>3 DEF Holds
    <2> QED BY <1>0, <2>1, <2>2, <2>3, <2>4, <2>5, BoxMoves
  <1> QED BY <1>1, <1>2, <1>3, <1>4

\* The outbox by itself: dead letters, a late delete, an operator's requeue, time.
LEMMA OutboxSteps ==
  ASSUME Inv, DeadLetter \/ LateDelete \/ Requeue \/ FallsDue
  PROVE  Inv'
  <1> USE DEF Inv
  <1>0. /\ box \in Box /\ deleter \in [Deleters -> {"idle", "claimed", "deleted"}]
        /\ late \in BOOLEAN /\ revived \in BOOLEAN
    BY DEF TypeInv
  <1>1. CASE DeadLetter
    <2>1. box' \in Box /\ box'.state = "dead_letter"
          /\ UNCHANGED <<kind, row, bound, revived, stored, late, writer, owner, deleter>>
      BY <1>0, <1>1 DEF DeadLetter, Box
    <2>2. ~Unclaimed' /\ \A d \in Deleters : ~Holds(d)'
      BY <2>1 DEF Unclaimed, Holds, None
    <2>3. Calm => Calm'
      BY <2>1 DEF Calm
    <2>4. row # None
      BY <1>1, QueueRow DEF ReceiptHolds, DeadLetter, Available, None
    <2> QED BY <1>0, <2>1, <2>2, <2>3, <2>4, BoxMoves
  <1>2. CASE LateDelete
    <2>1. late /\ late' = FALSE /\ stored' = FALSE
          /\ UNCHANGED <<kind, row, bound, box, revived, writer, owner, deleter>>
      BY <1>2 DEF LateDelete, database
    <2>2. ~Calm /\ ~Unclaimed
      BY <2>1 DEF Calm, ReservationHolds
    <2>3. TypeInv'
      BY <2>1 DEF TypeInv
    <2>4. ReservationHolds'
      BY <2>1, <2>2 DEF ReservationHolds, Unclaimed
    <2>5. CommitHolds'
      BY <2>1, <2>2 DEF CommitHolds
    <2>6. WritersInOrder' /\ ReceiptHolds'
      BY <2>1 DEF WritersInOrder, WritersQuiet, ReceiptHolds
    <2> QED BY <2>3, <2>4, <2>5, <2>6
  <1>3. CASE Requeue
    <2>1. /\ box.state = "dead_letter" /\ Doomed
          /\ box' = [Queue(TRUE) EXCEPT !.holder = box.holder] /\ revived' = TRUE
          /\ UNCHANGED <<kind, row, bound, stored, late, writer, owner, deleter>>
      BY <1>3 DEF Requeue
    <2>2. box' \in Box /\ box'.state = "pending" /\ box'.due = TRUE
      <3>1. box.holder \in Deleters \cup {None}
        BY <1>0 DEF Box
      <3> QED BY <2>1, <3>1, QueueRow
    <2>3. ~Unclaimed' /\ \A d \in Deleters : ~Holds(d)'
      BY <2>1, <2>2 DEF Unclaimed, Holds
    <2>4. Calm => Calm'
      BY <2>1 DEF Calm
    <2> QED BY <1>0, <2>1, <2>2, <2>3, <2>4, BoxMoves DEF Doomed, None
  <1>4. CASE FallsDue
    <2>1. /\ box.state # None
          /\ box' = [box EXCEPT !.due = TRUE] \/ box' = [box EXCEPT !.stale = TRUE]
          /\ UNCHANGED <<kind, row, bound, revived, stored, late, writer, owner, deleter>>
      BY <1>4 DEF FallsDue, None
    <2>2. box' \in Box /\ box'.state = box.state /\ box'.holder = box.holder /\ (box.due => box'.due)
      BY <1>0, <2>1 DEF Box
    <2>3. Unclaimed' => Unclaimed
      BY <2>1, <2>2 DEF Unclaimed
    <2>4. (Calm => Calm') /\ \A d \in Deleters : Holds(d)' <=> Holds(d)
      BY <2>1, <2>2 DEF Calm, Holds
    <2>5. row # None
      BY <2>1, QueueRow DEF ReceiptHolds
    <2> QED BY <1>0, <2>1, <2>2, <2>3, <2>4, <2>5, BoxMoves
  <1> QED BY <1>1, <1>2, <1>3, <1>4

-----------------------------------------------------------------------------
(* The results.                                                            *)

\* Inv holds in every state of the object, its row and its outbox row.
THEOREM DeletionInvariance == Spec => []Inv
  <1>1. Inv /\ [Next]_vars => Inv'
    <2> SUFFICES ASSUME Inv, [Next]_vars PROVE Inv'
      OBVIOUS
    <2>1. ASSUME NEW w \in Writers,
                 Reserve(w) \/ Put(w) \/ PutLands(w) \/ Abandon(w) \/ Promote(w) \/ TakeOver(w)
          PROVE  Inv'
      BY <2>1, WriterSteps
    <2>2. CASE BindFile \/ Unbind \/ Retire
      BY <2>2, RetireSteps
    <2>3. ASSUME NEW d \in Deleters,
                 Claim(d) \/ Delete(d) \/ Complete(d) \/ Fail(d) \/ Interrupted(d)
          PROVE  Inv'
      BY <2>3, DeleterSteps
    <2>4. CASE DeadLetter \/ LateDelete \/ Requeue \/ FallsDue
      BY <2>4, OutboxSteps
    <2>5. CASE UNCHANGED vars
      BY <2>5 DEF vars, Inv, TypeInv, ReservationHolds, CommitHolds, WritersInOrder, WritersQuiet,
                  ReceiptHolds, Calm, Unclaimed, Holds
    <2> QED BY <2>1, <2>2, <2>3, <2>4, <2>5 DEF Next
  <1> QED BY <1>1, InitInv, PTL DEF Spec

\* A committed object is there, nothing named is queued for deletion and no receipt is
\* false, whatever late puts, late deletes and expired claims do, for any number of writers,
\* maintenance workers and delivery attempts.
THEOREM ObjectAlwaysMatchesRow == Spec => []ObjectMatchesRow
  <1>1. Inv => ObjectMatchesRow
    BY DEF Inv, ObjectMatchesRow, CommitHolds, ReceiptHolds
  <1> QED BY <1>1, DeletionInvariance, PTL

=============================================================================
