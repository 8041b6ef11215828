----------------------------- MODULE FileUploads -----------------------------
(***************************************************************************)
(* A user's files on their way into object storage.                        *)
(*                                                                         *)
(* Two requests run at once, each of one kind: "direct" uploads the same   *)
(* small content (its file id is a hash of the content), "drive" imports a *)
(* file from the profile drive, "complete" completes the one multipart     *)
(* upload.  Beside them run the clean-up of expired upload sessions, the   *)
(* abort of the multipart upload, the deletion of files and their binding  *)
(* to runs.  A put runs in a thread that outlives the request that gave    *)
(* it up.                                                                  *)
(*                                                                         *)
(* An upload session d0, d1 belongs to the first and second generation of  *)
(* the direct upload's file id, m to the multipart upload, vp and vq to    *)
(* the drive imports of p and q; each makes the file of the same name.     *)
(***************************************************************************)
EXTENDS Naturals, FiniteSets

CONSTANTS
  Quotas,       \* values of file_storage_quota_bytes, in files
  MaxSessions,  \* file_upload_max_active_sessions
  MaxFaults     \* storage and database failures, cancellations, crashes

VARIABLES
  sess,       \* file_upload_sessions
  files,      \* files
  objects,    \* keys that hold an object
  mpu,        \* the multipart upload in storage: "none", "open", "full", "gone"
  initiate,   \* initiate_multipart_upload: "none", "reserved", "created", "active", "failed"
  req,        \* the two requests
  writer,     \* the putting thread of each: "none", "writing", "landed", "done"
  abandoned,  \* its request gave it up
  clean,      \* _cleanup_expired_upload_sessions at work on one session
  abort,      \* abort_multipart_upload: "none", "storage", "row", "done"
  flags,      \* [valid, quota, late, busy]: content is acceptable; the owner's
              \* quota; a completion was under way when its session expired;
              \* a validation found storage busy
  faults

vars == <<sess, files, objects, mpu, initiate, req, writer, abandoned, clean, abort, flags, faults>>

Requests == {"p", "q"}
Kinds == {"direct", "drive", "complete"}
Sids == {"d0", "d1", "m", "vp", "vq"}
Keys == Requests \cup {"m"}
NoKey == "-"
NoRow == [state |-> "none", key |-> NoKey, overdue |-> FALSE, init |-> FALSE]
NoFile == [state |-> "none", key |-> NoKey, bound |-> FALSE]
Idle == [sid |-> NoKey, key |-> NoKey, init |-> FALSE, pc |-> "none"]

TypeOK ==
  /\ sess \in [Sids -> [state : {"none", "pending", "expired", "completed", "aborted"},
                        key : Keys \cup {NoKey}, overdue : BOOLEAN, init : BOOLEAN]]
  /\ files \in [Sids -> [state : {"none", "active", "delete_pending", "deleted"},
                         key : Keys \cup {NoKey}, bound : BOOLEAN]]
  /\ objects \subseteq Keys
  /\ mpu \in {"none", "open", "full", "gone"}
  /\ initiate \in {"none", "reserved", "created", "active", "failed"}
  /\ \A r \in Requests :
       /\ req[r].kind \in Kinds /\ req[r].sid \in Sids \cup {NoKey}
       /\ req[r].answer \in {"-", "ok", "refused", "lost"}
  /\ writer \in [Requests -> {"none", "writing", "landed", "done"}]
  /\ abandoned \in [Requests -> BOOLEAN]
  /\ clean.pc \in {"none", "storage", "row"} /\ abort \in {"none", "storage", "row", "done"}
  /\ flags \in [valid : BOOLEAN, quota : Quotas, late : BOOLEAN, busy : BOOLEAN]
  /\ faults \in 0..MaxFaults

Init ==
  /\ sess = [s \in Sids |-> NoRow]
  /\ files = [s \in Sids |-> NoFile]
  /\ objects = {} /\ mpu = "none" /\ initiate = "none"
  /\ \E k \in [Requests -> Kinds] :
       /\ k["p"] = "drive" => k["q"] # "direct"
       /\ k["p"] = "complete" => k["q"] = "complete"
       /\ req = [r \in Requests |-> [kind |-> k[r], pc |-> "new", sid |-> NoKey, answer |-> "-"]]
       /\ flags \in [valid : BOOLEAN, quota : Quotas, late : {FALSE}, busy : {FALSE}]
       /\ ~flags.valid => k["q"] = "complete"
  /\ writer = [r \in Requests |-> "none"]
  /\ abandoned = [r \in Requests |-> FALSE]
  /\ clean = Idle /\ abort = "none"
  /\ faults = 0

-----------------------------------------------------------------------------
(* Rows and quota. *)

Live(r) == req[r].pc \notin {"new", "done"}
Fault == faults < MaxFaults /\ faults' = faults + 1

PendingRows == {s \in Sids : sess[s].state = "pending" /\ ~sess[s].overdue}
Stored == {s \in Sids : files[s].state = "active"}

StoredOnly == Cardinality(Stored)

\* get_file_storage_usage under the owner's advisory lock: what is stored and
\* what unexpired sessions have reserved.
Usage == Cardinality(Stored) + Cardinality(PendingRows)

Fits == Cardinality(PendingRows) < MaxSessions /\ Usage + 1 <= flags.quota

Goto(r, p) == req' = [req EXCEPT ![r].pc = p]
Answer(r, a) == req' = [req EXCEPT ![r].pc = "done", ![r].answer = a]

\* abort_file_upload_session: only an open session is closed.
Closed(row, state) == IF row.state = "pending" THEN [row EXCEPT !.state = state] ELSE row
\* delete_expired_file_upload_session
Forgotten(row) == IF row.state = "expired" THEN NoRow ELSE row
\* retry_expired_file_upload_session
Retried(row) == IF row.state = "expired" THEN [row EXCEPT !.overdue = FALSE] ELSE row

CompletedAny(s) == TRUE

\* _completed_upload_file: the row's file is still active under its key.
CompletedHolds(s) == files[s].state = "active" /\ files[s].key = sess[s].key

\* create_file and complete_file_upload_session in one transaction.
Committed(s, key) ==
  /\ files' = [files EXCEPT ![s] = [state |-> "active", key |-> key, bound |-> FALSE]]
  /\ sess' = [sess EXCEPT ![s].state = "completed"]

-----------------------------------------------------------------------------
(* Direct uploads and drive imports. *)

\* upload_file's walk over the generations of the content's file id.
Generation ==
  IF files["d0"].state \in {"delete_pending", "deleted"}
  THEN IF files["d1"].state \in {"delete_pending", "deleted"} THEN NoKey ELSE "d1"
  ELSE "d0"

Lookup(r) ==
  /\ req[r].pc = "new" /\ req[r].kind \in {"direct", "drive"}
  /\ LET s == IF req[r].kind = "drive" THEN (IF r = "p" THEN "vp" ELSE "vq") ELSE Generation
     IN /\ s # NoKey
        /\ req' = [req EXCEPT ![r] =
             IF files[s].state = "active" THEN [@ EXCEPT !.pc = "done", !.sid = s, !.answer = "ok"]
             ELSE [@ EXCEPT !.pc = "reserve", !.sid = s]]
  /\ UNCHANGED <<sess, files, objects, mpu, initiate, writer, abandoned, clean, abort, flags, faults>>

\* The reservation: one per file id, within the quota; whoever finds one
\* either returns its result or is told to come back.
Reserve(r) ==
  LET s == req[r].sid IN
  /\ req[r].pc = "reserve"
  /\ \/ /\ sess[s].state = "none" /\ Fits
        /\ sess' = [sess EXCEPT ![s] = [NoRow EXCEPT !.state = "pending", !.key = r]]
        /\ writer' = [writer EXCEPT ![r] = "writing"]
        /\ Goto(r, "put")
     \/ /\ sess[s].state = "none" /\ ~Fits
        /\ Answer(r, "refused") /\ UNCHANGED <<sess, writer>>
     \/ /\ sess[s].state # "none"
        /\ Answer(r, IF sess[s].state = "completed" /\ CompletedHolds(s) THEN "ok" ELSE "refused")
        /\ UNCHANGED <<sess, writer>>
  /\ UNCHANGED <<files, objects, mpu, initiate, abandoned, clean, abort, flags, faults>>

\* _put_direct_upload, _put_profile_drive_import: the thread writes, then
\* takes the object back if its request is gone.
WriterLands(r) ==
  /\ writer[r] = "writing"
  /\ writer' = [writer EXCEPT ![r] = "landed"]
  /\ objects' = objects \cup {r}
  /\ UNCHANGED <<sess, files, mpu, initiate, req, abandoned, clean, abort, flags, faults>>

WriterKeeps(r) == objects

TakenBack(r) == IF abandoned[r] THEN objects \ {r} ELSE objects

WriterChecks(r) ==
  /\ writer[r] = "landed"
  /\ writer' = [writer EXCEPT ![r] = "done"]
  /\ objects' = TakenBack(r)
  /\ UNCHANGED <<sess, files, mpu, initiate, req, abandoned, clean, abort, flags, faults>>

PutReturns(r) ==
  /\ req[r].pc = "put" /\ writer[r] = "done"
  /\ Goto(r, "commit")
  /\ UNCHANGED <<sess, files, objects, mpu, initiate, writer, abandoned, clean, abort, flags, faults>>

\* Storage has no slot for the direct upload: nothing was written.
PutBusy(r) ==
  /\ req[r].pc = "put" /\ req[r].kind = "direct" /\ writer[r] = "writing" /\ Fault
  /\ writer' = [writer EXCEPT ![r] = "none"]
  /\ sess' = [sess EXCEPT ![req[r].sid] = Forgotten(Closed(@, "expired"))]
  /\ Answer(r, "refused")
  /\ UNCHANGED <<files, objects, mpu, initiate, abandoned, clean, abort, flags>>

\* open_profile_drive_file, download_profile_drive_file: the transfer from
\* the drive fails or overruns its budget, or storage has no slot; nothing
\* was written.
TransferFails(r) ==
  /\ req[r].pc = "put" /\ req[r].kind = "drive" /\ writer[r] = "writing" /\ Fault
  /\ writer' = [writer EXCEPT ![r] = "none"]
  /\ Goto(r, "undo")
  /\ UNCHANGED <<sess, files, objects, mpu, initiate, abandoned, clean, abort, flags>>

\* The wait ends before the thread does.  A direct upload leaves its durable
\* reservation; an import closes it and leaves a tombstone for the clean-up.
PutTimesOut(r) ==
  /\ req[r].pc = "put" /\ Fault
  /\ abandoned' = [abandoned EXCEPT ![r] = TRUE]
  /\ sess' = IF req[r].kind = "direct" THEN sess
             ELSE [sess EXCEPT ![req[r].sid] = Retried(Closed(@, "expired"))]
  /\ Answer(r, "refused")
  /\ UNCHANGED <<files, objects, mpu, initiate, writer, clean, abort, flags>>

\* The committing transaction needs its reservation still pending.  Its COMMIT
\* can fail, or land with its acknowledgement lost.
CommitPut(r) ==
  LET s == req[r].sid IN
  /\ req[r].pc = "commit" /\ req[r].kind \in {"direct", "drive"}
  /\ \/ /\ sess[s].state = "pending"
        /\ Committed(s, r)
        /\ Answer(r, "ok") /\ UNCHANGED faults
     \/ /\ sess[s].state = "pending" /\ Fault
        /\ Committed(s, r) \/ UNCHANGED <<sess, files>>
        /\ Goto(r, "undo")
     \/ /\ sess[s].state # "pending"
        /\ Goto(r, "undo") /\ UNCHANGED <<sess, files, faults>>
  /\ UNCHANGED <<objects, mpu, initiate, writer, abandoned, clean, abort, flags>>

UndoBlind(s) == FALSE

\* The failure's first question: did the commit land after all?
UndoSees(s) == sess[s].state = "completed"

\* upload_file's except clause and _reconcile_profile_drive_import: return
\* what was committed, else close the session before its object goes.
Undo(r) ==
  LET s == req[r].sid IN
  /\ req[r].pc = "undo"
  /\ \/ /\ UndoSees(s)
        /\ Answer(r, IF CompletedHolds(s) THEN "ok" ELSE "refused")
        /\ UNCHANGED sess
     \/ /\ ~UndoSees(s)
        /\ IF sess[s].state = "none" /\ req[r].kind = "drive"
           THEN Answer(r, "refused") /\ UNCHANGED sess
           ELSE /\ sess' = [sess EXCEPT ![s] =
                     IF req[r].kind = "drive" THEN Retried(Closed(@, "expired")) ELSE Closed(@, "expired")]
                /\ Goto(r, "undo_object")
  /\ UNCHANGED <<files, objects, mpu, initiate, writer, abandoned, clean, abort, flags, faults>>

UndoObject(r) ==
  /\ req[r].pc = "undo_object"
  /\ \/ objects' = objects \ {r} /\ Goto(r, "undo_row") /\ UNCHANGED faults
     \/ Fault /\ Answer(r, "refused") /\ UNCHANGED objects
  /\ UNCHANGED <<sess, files, mpu, initiate, writer, abandoned, clean, abort, flags>>

UndoRow(r) ==
  /\ req[r].pc = "undo_row"
  /\ sess' = [sess EXCEPT ![req[r].sid] = Forgotten(@)]
  /\ Answer(r, "refused")
  /\ UNCHANGED <<files, objects, mpu, initiate, writer, abandoned, clean, abort, flags, faults>>

\* The API process dies with its thread, at any await.
Crash(r) ==
  /\ Live(r) /\ Fault
  /\ Answer(r, "lost")
  /\ writer' = [writer EXCEPT ![r] = IF @ = "none" THEN @ ELSE "done"]
  /\ UNCHANGED <<sess, files, objects, mpu, initiate, abandoned, clean, abort, flags>>

-----------------------------------------------------------------------------
(* The multipart upload. *)

InitReserve ==
  /\ initiate = "none" /\ Fits
  /\ sess' = [sess EXCEPT !["m"] = [NoRow EXCEPT !.state = "pending", !.key = "m", !.init = TRUE]]
  /\ initiate' = "reserved"
  /\ UNCHANGED <<files, objects, mpu, req, writer, abandoned, clean, abort, flags, faults>>

\* Storage opens the upload, or is busy or fails (the session is expired),
\* or the wait ends with the opening unknown.
InitCreate ==
  /\ initiate = "reserved"
  /\ \/ mpu' = "open" /\ initiate' = "created" /\ UNCHANGED <<sess, faults>>
     \/ /\ Fault /\ initiate' = "failed" /\ UNCHANGED mpu
        /\ sess' = [sess EXCEPT !["m"] = Closed(@, "expired")]
     \/ Fault /\ initiate' = "failed" /\ mpu' \in {"none", "open"} /\ UNCHANGED sess
  /\ UNCHANGED <<files, objects, req, writer, abandoned, clean, abort, flags>>

\* activate_file_upload_session: only a session still initialising takes the
\* upload's identity.
InitActivate ==
  /\ initiate = "created"
  /\ IF sess["m"].state = "pending"
     THEN initiate' = "active" /\ sess' = [sess EXCEPT !["m"].init = FALSE]
     ELSE initiate' = "failed" /\ UNCHANGED sess
  /\ UNCHANGED <<files, objects, mpu, req, writer, abandoned, clean, abort, flags, faults>>

\* The browser uploads every part.
upload_multipart_part ==
  /\ initiate = "active" /\ mpu = "open"
  /\ sess["m"].state = "pending" /\ ~sess["m"].overdue
  /\ mpu' = "full"
  /\ UNCHANGED <<sess, files, objects, initiate, req, writer, abandoned, clean, abort, flags, faults>>

CompleteStart(r) ==
  LET row == sess["m"] IN
  /\ req[r].pc = "new" /\ req[r].kind = "complete"
  /\ initiate = "active" /\ mpu \in {"full", "gone"}
  /\ \/ row.state = "pending" /\ req' = [req EXCEPT ![r].pc = IF row.overdue THEN "late" ELSE "merge",
                                                   ![r].sid = "m"]
     \/ row.state # "pending"
        /\ req' = [req EXCEPT ![r].pc = "done", ![r].sid = "m", ![r].answer =
             IF row.state = "completed" /\ CompletedHolds("m") THEN "ok" ELSE "refused"]
  /\ UNCHANGED <<sess, files, objects, mpu, initiate, writer, abandoned, clean, abort, flags, faults>>

\* The session had expired when the request read it: storage first, row after.
LateCleanup(r) ==
  /\ req[r].pc = "late"
  /\ objects' = objects \ {"m"} /\ mpu' = "gone"
  /\ Goto(r, "late_row")
  /\ UNCHANGED <<sess, files, initiate, writer, abandoned, clean, abort, flags, faults>>

LateRow(r) ==
  /\ req[r].pc = "late_row"
  /\ sess' = [sess EXCEPT !["m"] = Closed(@, "expired")]
  /\ Answer(r, "refused")
  /\ UNCHANGED <<files, objects, mpu, initiate, writer, abandoned, clean, abort, flags, faults>>

\* Storage merges the parts; an error is only remembered, since an earlier
\* attempt may have merged them.
Merge(r) ==
  /\ req[r].pc = "merge"
  /\ \/ /\ mpu = "full" /\ mpu' = "gone" /\ objects' = objects \cup {"m"} /\ UNCHANGED faults
     \/ mpu # "full" /\ UNCHANGED <<mpu, objects, faults>>
     \/ Fault /\ UNCHANGED <<mpu, objects>>
  /\ Goto(r, "download")
  /\ UNCHANGED <<sess, files, initiate, writer, abandoned, clean, abort, flags>>

Download(r) ==
  /\ req[r].pc = "download"
  /\ \/ "m" \in objects /\ Goto(r, "validate") /\ UNCHANGED faults
     \/ "m" \notin objects /\ Answer(r, "refused") /\ UNCHANGED faults
     \/ Fault /\ Answer(r, "refused")
  /\ UNCHANGED <<sess, files, objects, mpu, initiate, writer, abandoned, clean, abort, flags>>

\* _validate_upload_file: name, declared type, active content, archive bounds.
Acceptable == flags.valid

\* A busy storage lane raises the same HTTPException as unacceptable content.
Validate(r) ==
  /\ req[r].pc = "validate"
  /\ \/ Goto(r, IF Acceptable THEN "commit" ELSE "discard") /\ UNCHANGED <<faults, flags>>
     \/ Fault /\ Goto(r, "discard") /\ flags' = [flags EXCEPT !.busy = TRUE]
  /\ UNCHANGED <<sess, files, objects, mpu, initiate, writer, abandoned, clean, abort>>

Discard(r) ==
  /\ req[r].pc = "discard"
  /\ \/ objects' = objects \ {"m"} /\ Goto(r, "discard_row") /\ UNCHANGED faults
     \/ Fault /\ Answer(r, "refused") /\ UNCHANGED objects
  /\ UNCHANGED <<sess, files, mpu, initiate, writer, abandoned, clean, abort, flags>>

DiscardRow(r) ==
  /\ req[r].pc = "discard_row"
  /\ sess' = [sess EXCEPT !["m"] = Closed(@, "aborted")]
  /\ Answer(r, "refused")
  /\ UNCHANGED <<files, objects, mpu, initiate, writer, abandoned, clean, abort, flags, faults>>

StillAnything == TRUE

\* The final transaction locks the session and needs it still open.
StillOpen == sess["m"].state = "pending"

CommitMultipart(r) ==
  /\ req[r].pc = "commit" /\ req[r].kind = "complete"
  /\ \/ /\ sess["m"].state = "completed"
        /\ Answer(r, IF CompletedHolds("m") THEN "ok" ELSE "refused")
        /\ UNCHANGED <<sess, files, faults>>
     \/ /\ sess["m"].state # "completed" /\ StillOpen
        /\ Committed("m", "m")
        /\ Answer(r, "ok") /\ UNCHANGED faults
     \/ /\ sess["m"].state # "completed" /\ StillOpen /\ Fault
        /\ \/ Committed("m", "m") /\ Answer(r, "ok")
           \/ UNCHANGED <<sess, files>> /\ Answer(r, "refused")
     \/ /\ sess["m"].state # "completed" /\ ~StillOpen
        /\ Goto(r, "drop") /\ UNCHANGED <<sess, files, faults>>
  /\ UNCHANGED <<objects, mpu, initiate, writer, abandoned, clean, abort, flags>>

\* The session was lost: the merged object goes.
Drop(r) ==
  /\ req[r].pc = "drop"
  /\ objects' = objects \ {"m"}
  /\ Answer(r, "refused")
  /\ UNCHANGED <<sess, files, mpu, initiate, writer, abandoned, clean, abort, flags, faults>>

\* abort_multipart_upload: an open session expires before its storage is
\* cleaned, a completed one's unbound file is queued for deletion.
AbortRow ==
  LET row == sess["m"] IN
  /\ abort = "none" /\ initiate = "active" /\ row.state # "none"
  /\ sess' = [sess EXCEPT !["m"] = Closed(@, "expired")]
  /\ abort' = IF row.state \in {"pending", "expired"} THEN "storage" ELSE "done"
  /\ files' = IF row.state = "completed" /\ files["m"].state = "active" /\ ~files["m"].bound
              THEN [files EXCEPT !["m"].state = "delete_pending"] ELSE files
  /\ UNCHANGED <<objects, mpu, initiate, req, writer, abandoned, clean, flags, faults>>

AbortStorage ==
  /\ abort = "storage"
  /\ \/ objects' = objects \ {"m"} /\ mpu' = "gone" /\ abort' = "row" /\ UNCHANGED faults
     \/ Fault /\ abort' = "done" /\ UNCHANGED <<objects, mpu>>
  /\ UNCHANGED <<sess, files, initiate, req, writer, abandoned, clean, flags>>

AbortForgets ==
  /\ abort = "row"
  /\ sess' = [sess EXCEPT !["m"] = Forgotten(@)]
  /\ abort' = "done"
  /\ UNCHANGED <<files, objects, mpu, initiate, req, writer, abandoned, clean, flags, faults>>

-----------------------------------------------------------------------------
(* Expiry and clean-up. *)

\* Three hours pass, or the delay of a retried clean-up.  A direct upload or
\* an import is over long before (its waits are bounded by minutes); a
\* multipart upload may be completed at any moment of them.
Overdue(s) ==
  /\ sess[s].state \in {"pending", "expired"} /\ ~sess[s].overdue
  /\ s # "m" => \A r \in Requests : ~(Live(r) /\ req[r].sid = s)
  /\ s = "m" => initiate \in {"active", "failed"}
  /\ sess' = [sess EXCEPT ![s].overdue = TRUE]
  /\ flags' = [flags EXCEPT !.late = @ \/ (s = "m" /\ \E r \in Requests : req[r].kind = "complete" /\ Live(r))]
  /\ UNCHANGED <<files, objects, mpu, initiate, req, writer, abandoned, clean, abort, faults>>

\* expire_file_upload_sessions: expire first, so no commit can follow.
CleanExpire(s) ==
  /\ clean.pc = "none"
  /\ sess[s].state \in {"pending", "expired"} /\ sess[s].overdue
  /\ sess' = [sess EXCEPT ![s].state = "expired"]
  /\ clean' = [sid |-> s, key |-> sess[s].key, init |-> sess[s].init, pc |-> "storage"]
  /\ UNCHANGED <<files, objects, mpu, initiate, req, writer, abandoned, abort, flags, faults>>

\* The object of a direct session, the uploads of a key whose initialisation
\* is unknown, the upload and object of a multipart session; or a failure.
CleanStorage ==
  /\ clean.pc = "storage"
  /\ \/ /\ objects' = (IF clean.init THEN objects ELSE objects \ {clean.key})
        /\ mpu' = (IF clean.sid = "m" /\ mpu # "none" THEN "gone" ELSE mpu)
        /\ clean' = [clean EXCEPT !.pc = "row"]
        /\ UNCHANGED <<sess, faults>>
     \/ /\ Fault
        /\ sess' = [sess EXCEPT ![clean.sid] = Retried(@)]
        /\ clean' = Idle
        /\ UNCHANGED <<objects, mpu>>
  /\ UNCHANGED <<files, initiate, req, writer, abandoned, abort, flags>>

CleanRow ==
  /\ clean.pc = "row"
  /\ sess' = [sess EXCEPT ![clean.sid] = IF clean.init THEN Retried(@) ELSE Forgotten(@)]
  /\ clean' = Idle
  /\ UNCHANGED <<files, objects, mpu, initiate, req, writer, abandoned, abort, flags, faults>>

-----------------------------------------------------------------------------
(* Files in use. *)

\* authorize_files_for_run and bind_files_to_run under the file's row lock.
bind_files_to_run(f) ==
  /\ files[f].state = "active" /\ ~files[f].bound
  /\ files' = [files EXCEPT ![f].bound = TRUE]
  /\ UNCHANGED <<sess, objects, mpu, initiate, req, writer, abandoned, clean, abort, flags, faults>>

DeletableAlways(f) == files[f].state = "active"

\* queue_unbound_file_for_deletion: nothing durable refers to the file.
Deletable(f) == files[f].state = "active" /\ ~files[f].bound

delete_unbound_file(f) ==
  /\ Deletable(f)
  /\ files' = [files EXCEPT ![f].state = "delete_pending"]
  /\ UNCHANGED <<sess, objects, mpu, initiate, req, writer, abandoned, clean, abort, flags, faults>>

\* The object deletion outbox delivers (module ObjectDeletion).
OutboxDeletes(f) ==
  /\ files[f].state = "delete_pending"
  /\ objects' = objects \ {files[f].key}
  /\ files' = [files EXCEPT ![f].state = "deleted"]
  /\ UNCHANGED <<sess, mpu, initiate, req, writer, abandoned, clean, abort, flags, faults>>

Next ==
  \/ \E r \in Requests :
       \/ Lookup(r) \/ Reserve(r) \/ WriterLands(r) \/ WriterChecks(r) \/ PutReturns(r)
       \/ PutBusy(r) \/ TransferFails(r) \/ PutTimesOut(r) \/ CommitPut(r) \/ Undo(r) \/ UndoObject(r) \/ UndoRow(r)
       \/ Crash(r)
       \/ CompleteStart(r) \/ LateCleanup(r) \/ LateRow(r) \/ Merge(r) \/ Download(r) \/ Validate(r)
       \/ Discard(r) \/ DiscardRow(r) \/ CommitMultipart(r) \/ Drop(r)
  \/ InitReserve \/ InitCreate \/ InitActivate \/ upload_multipart_part
  \/ AbortRow \/ AbortStorage \/ AbortForgets
  \/ CleanStorage \/ CleanRow
  \/ \E s \in Sids :
       Overdue(s) \/ CleanExpire(s) \/ bind_files_to_run(s) \/ delete_unbound_file(s) \/ OutboxDeletes(s)

Spec == Init /\ [][Next]_vars

-----------------------------------------------------------------------------
\* An active file always has its object, whatever clean-ups, retries, aborts
\* and abandoned writers run beside its upload.  Two ends of a multipart
\* completion are excepted: one that was under way when its session expired
\* (a second request's 410 path deletes storage before it looks at the row
\* again), and one whose validation found storage busy (it is handled like
\* unacceptable content and deletes the object another request committed).
FileHasObject ==
  ~flags.late /\ ~flags.busy =>
    \A s \in Sids : files[s].state = "active" => files[s].key \in objects

\* Nothing is left behind: a key whose session is gone or settled, and that
\* no request, thread or clean-up still handles, holds an object only for a
\* file that is not deleted; the same for the multipart upload in storage.
NothingLeftBehind ==
  /\ \A r \in Requests :
       /\ r \in objects /\ ~Live(r) /\ writer[r] \in {"none", "done"}
       /\ \A s \in Sids : sess[s].key = r => sess[s].state \notin {"pending", "expired"}
       => \E s \in Sids : files[s].key = r /\ files[s].state \in {"active", "delete_pending"}
  /\ "m" \in objects /\ sess["m"].state \notin {"pending", "expired"}
     /\ (\A r \in Requests : req[r].kind = "complete" => ~Live(r))
     => files["m"].state \in {"active", "delete_pending"}
  /\ mpu \in {"open", "full"} => sess["m"].state \in {"pending", "expired"}

\* What is stored stays within the owner's quota under concurrent uploads,
\* except after a completion that outlived its session's reservation.
QuotaHolds == ~flags.late => Cardinality(Stored) <= flags.quota

\* A request is told of success only while its file is active, and a file
\* bound to a run is never deleted (_completed_upload_file,
\* queue_unbound_file_for_deletion).
UploadStep ==
  /\ \A r \in Requests : req'[r].answer = "ok" /\ req[r].answer # "ok" => files'[req'[r].sid].state = "active"
  /\ \A s \in Sids : files[s].bound => files'[s].bound /\ files'[s].state = "active"
=============================================================================
