------------------------- MODULE DeliverySnapshots -------------------------
(***************************************************************************)
(* The files a terminal result declares, on their way from the sandbox's   *)
(* workspace to object storage.  A collector copies them, under the        *)
(* attempt's file lock, to a snapshot beside the workspace, which the      *)
(* sandbox may still be writing; the snapshot and its manifest are two     *)
(* renames.  A thread then stores the files of a snapshot one by one; its  *)
(* caller may abandon it.  A file is two halves written one after the      *)
(* other, each holding the number of the write.                            *)
(***************************************************************************)
EXTENDS Naturals, Sequences, FiniteSets

CONSTANTS
  Files,
  Collectors,
  MaxWrites,  \* half-file writes of the sandbox
  MaxFaults   \* kills and failed calls

VARIABLES
  file,       \* of each file in the workspace: its two halves
  stamp,      \* of each file: its modification time
  collector,  \* of each collector: where it is, its request and its temporary
  snapshot,   \* the snapshot directory: file contents, and whether it is there
  manifest,   \* the manifest: the paths it lists, and whether it is there
  returned,   \* requests and contents handed to callers
  upload,     \* the uploading thread
  objects,    \* files whose object is in storage
  reserved,   \* files whose object has a provisional cleanup row
  abandoned,  \* the caller gave the thread up
  used        \* writes and faults so far

vars == <<file, stamp, collector, snapshot, manifest, returned, upload, objects,
          reserved, abandoned, used>>

Nothing == [f \in Files |-> <<0, 0>>]
Requests == {Files} \cup {{f} : f \in Files}
Resting == [at |-> "idle", want |-> {}, done |-> {}, now |-> CHOOSE f \in Files : TRUE,
            seen |-> 0, data |-> Nothing]
NoSnapshot == [there |-> FALSE, data |-> Nothing]
NoManifest == [there |-> FALSE, paths |-> {}]
NoUpload == [at |-> "idle", reserve |-> FALSE, todo |-> {}, stored |-> {}, broken |-> {}, unsure |-> {}]

TypeOK ==
  /\ \A f \in Files : file[f] \in (0..MaxWrites) \X (0..MaxWrites) /\ stamp[f] \in 0..MaxWrites
  /\ \A c \in Collectors : collector[c].at \in {"idle", "copying", "reading", "copied", "renamed"}
  /\ snapshot.there \in BOOLEAN /\ manifest.there \in BOOLEAN /\ manifest.paths \subseteq Files
  /\ Cardinality(returned) <= Cardinality(Collectors) + MaxFaults + 1
  /\ upload.at \in {"idle", "checking", "putting", "cleaning", "returned", "failed", "cleanup_failed"}
  /\ objects \subseteq Files /\ reserved \subseteq Files /\ abandoned \in BOOLEAN
  /\ used.writes \in 0..MaxWrites /\ used.faults \in 0..MaxFaults

Init ==
  /\ file = Nothing /\ stamp = [f \in Files |-> 0]
  /\ collector = [c \in Collectors |-> Resting]
  /\ snapshot = NoSnapshot /\ manifest = NoManifest
  /\ returned = {} /\ upload = NoUpload
  /\ objects = {} /\ reserved = {} /\ abandoned = FALSE
  /\ used = [writes |-> 0, faults |-> 0]

Fault == used.faults < MaxFaults /\ used' = [used EXCEPT !.faults = @ + 1]
uploadUnchanged == UNCHANGED <<upload, objects, reserved, abandoned>>
collectUnchanged == UNCHANGED <<file, stamp, collector, snapshot, manifest, returned>>

-----------------------------------------------------------------------------
(* The sandbox, which nothing stops before the snapshot is recorded. *)

sandbox_writes(f) ==
  LET n == file[f][1]
  IN /\ used.writes < MaxWrites
     /\ used' = [used EXCEPT !.writes = @ + 1]
     /\ file' = [file EXCEPT ![f] = IF n = @[2] THEN <<n + 1, n>> ELSE <<n, n>>]
     /\ stamp' = [stamp EXCEPT ![f] = @ + 1]
     /\ UNCHANGED <<collector, snapshot, manifest, returned>> /\ uploadUnchanged

-----------------------------------------------------------------------------
(* snapshot_host_bind_delivery_files. *)

LockAlwaysFree == TRUE

\* _open_snapshot_lock.
LockFree == \A c \in Collectors : collector[c].at = "idle"

Return(c, want, data) ==
  /\ returned' = returned \cup {[want |-> want, data |-> data]}
  /\ collector' = [collector EXCEPT ![c] = Resting]

ManifestFound(want) == manifest.there

\* _validate_existing_snapshot: the manifest lists exactly the paths asked for.
ExistingFits(want) == manifest.there /\ manifest.paths = want

\* A snapshot with its manifest is validated and returned as it is.
snapshot_exists(c, want) ==
  /\ collector[c].at = "idle" /\ LockFree
  /\ snapshot.there /\ ExistingFits(want)
  /\ Return(c, want, [f \in Files |-> IF f \in want THEN snapshot.data[f] ELSE <<0, 0>>])
  /\ UNCHANGED <<file, stamp, snapshot, manifest, used>> /\ uploadUnchanged

\* One without a manifest is removed, and so is a manifest without a snapshot;
\* _cleanup_snapshot_temporaries has removed what a killed collector left.
snapshot_begins(c, want) ==
  /\ collector[c].at = "idle" /\ LockFree
  /\ ~(snapshot.there /\ manifest.there)
  /\ snapshot' = NoSnapshot /\ manifest' = NoManifest
  /\ collector' = [collector EXCEPT ![c] = [Resting EXCEPT !.at = "copying", !.want = want]]
  /\ UNCHANGED <<file, stamp, returned, used>> /\ uploadUnchanged

\* _open_delivery_file, and the first half of the copy.
copy_begins(c, f) ==
  /\ collector[c].at = "copying" /\ f \in collector[c].want \ collector[c].done
  /\ collector' = [collector EXCEPT ![c].at = "reading", ![c].now = f,
                     ![c].seen = stamp[f], ![c].data[f] = <<file[f][1], 0>>]
  /\ UNCHANGED <<file, stamp, snapshot, manifest, returned, used>> /\ uploadUnchanged

AnyIdentity(c) == TRUE

\* _copy_stable_delivery_file: the identity of the open file, and what a second
\* reading gives, are the same after the copy as before it.
SameIdentity(c) == stamp[collector[c].now] = collector[c].seen

copy_ends(c) ==
  LET f == collector[c].now
  IN /\ collector[c].at = "reading" /\ SameIdentity(c)
     /\ collector' = [collector EXCEPT ![c].at = "copying", ![c].done = @ \cup {f},
                        ![c].data[f][2] = file[f][2]]
     /\ UNCHANGED <<file, stamp, snapshot, manifest, returned, used>> /\ uploadUnchanged

\* "workspace response file changed": the temporary goes, the call fails.
copy_changed(c) ==
  /\ collector[c].at = "reading" /\ ~SameIdentity(c)
  /\ collector' = [collector EXCEPT ![c] = Resting]
  /\ UNCHANGED <<file, stamp, snapshot, manifest, returned, used>> /\ uploadUnchanged

rename_snapshot(c) ==
  /\ collector[c].at = "copying" /\ collector[c].done = collector[c].want
  /\ snapshot' = [there |-> TRUE, data |-> collector[c].data]
  /\ collector' = [collector EXCEPT ![c].at = "renamed"]
  /\ UNCHANGED <<file, stamp, manifest, returned, used>> /\ uploadUnchanged

rename_manifest(c) ==
  /\ collector[c].at = "renamed"
  /\ manifest' = [there |-> TRUE, paths |-> collector[c].want]
  /\ Return(c, collector[c].want, collector[c].data)
  /\ UNCHANGED <<file, stamp, snapshot, used>> /\ uploadUnchanged

\* The process is killed, or a call fails; what was renamed stays.
collector_dies(c) ==
  /\ collector[c].at # "idle" /\ Fault
  /\ collector' = [collector EXCEPT ![c] = Resting]
  /\ UNCHANGED <<file, stamp, snapshot, manifest, returned>> /\ uploadUnchanged

-----------------------------------------------------------------------------
(* collect_workspace_artifacts. *)

\* The checks of the declared paths are done before the first object.
upload_begins(reserve) ==
  /\ upload.at = "idle"
  /\ \E r \in returned : upload' = [NoUpload EXCEPT !.at = "checking", !.reserve = reserve, !.todo = r.want]
  /\ collectUnchanged /\ UNCHANGED <<objects, reserved, abandoned, used>>

\* run_storage_io's caller is cancelled or times out.
abandon ==
  /\ upload.at \notin {"idle", "returned"} /\ ~abandoned
  /\ abandoned' = TRUE
  /\ collectUnchanged /\ UNCHANGED <<upload, objects, reserved, used>>

\* With reservations the outbox owns what was stored; else it is deleted here.
Failing == IF upload.reserve THEN [upload EXCEPT !.at = "failed"] ELSE [upload EXCEPT !.at = "cleaning"]

ReserveLater(f) == UNCHANGED reserved

\* _reserve_reconciliation_artifact_cleanup commits before the object is put.
Reserve(f) == reserved' = IF upload.reserve THEN reserved \cup {f} ELSE reserved

\* The abandoned check at the head of the loop, the reading and the reservation.
upload_reserves(f) ==
  /\ upload.at = "checking" /\ f \in upload.todo
  /\ \/ abandoned /\ upload' = Failing /\ UNCHANGED reserved
     \/ ~abandoned /\ Reserve(f)
        /\ upload' = [upload EXCEPT !.at = "putting", !.todo = @ \ {f}, !.unsure = {f}]
  /\ collectUnchanged /\ UNCHANGED <<objects, abandoned, used>>

\* storage.put_bytes, and the row appended; checked once more before and after.
put_bytes(f) ==
  /\ upload.at = "putting" /\ f \in upload.unsure
  /\ \/ abandoned /\ upload' = [Failing EXCEPT !.unsure = {}] /\ UNCHANGED objects
     \/ ~abandoned /\ objects' = objects \cup {f}
        /\ upload' = [upload EXCEPT !.at = "checking", !.stored = @ \cup {f}, !.unsure = {}]
  /\ collectUnchanged /\ UNCHANGED <<reserved, abandoned, used>>

\* It raises, and the object may be there all the same.
put_fails(f) ==
  /\ upload.at = "putting" /\ f \in upload.unsure /\ Fault
  /\ objects' \in {objects, objects \cup {f}}
  /\ upload' = Failing
  /\ collectUnchanged /\ UNCHANGED <<reserved, abandoned>>

upload_returns ==
  /\ upload.at = "checking" /\ upload.todo = {}
  /\ upload' = IF abandoned THEN Failing ELSE [upload EXCEPT !.at = "returned"]
  /\ collectUnchanged /\ UNCHANGED <<objects, reserved, abandoned, used>>

StopAtFirstError(f) == [upload EXCEPT !.stored = {}, !.broken = @ \cup {f}]

\* A delete that fails is remembered; the others are still tried.
DeleteError(f) == [upload EXCEPT !.stored = @ \ {f}, !.broken = @ \cup {f}]

clean_up(f) ==
  /\ upload.at = "cleaning" /\ f \in upload.stored
  /\ \/ /\ objects' = objects \ {f}
        /\ upload' = [upload EXCEPT !.stored = @ \ {f}] /\ UNCHANGED used
     \/ Fault /\ upload' = DeleteError(f) /\ UNCHANGED objects
  /\ collectUnchanged /\ UNCHANGED <<reserved, abandoned>>

cleaned_up ==
  /\ upload.at = "cleaning" /\ upload.stored = {}
  /\ upload' = [upload EXCEPT !.at = IF upload.broken = {} THEN "failed" ELSE "cleanup_failed"]
  /\ collectUnchanged /\ UNCHANGED <<objects, reserved, abandoned, used>>

Next ==
  \/ \E f \in Files : sandbox_writes(f)
  \/ \E c \in Collectors :
       \/ \E want \in Requests : snapshot_exists(c, want) \/ snapshot_begins(c, want)
       \/ \E f \in Files : copy_begins(c, f)
       \/ copy_ends(c) \/ copy_changed(c)
       \/ rename_snapshot(c) \/ rename_manifest(c) \/ collector_dies(c)
  \/ \E reserve \in BOOLEAN : upload_begins(reserve)
  \/ abandon \/ upload_returns \/ cleaned_up
  \/ \E f \in Files : \/ upload_reserves(f) \/ put_bytes(f) \/ put_fails(f) \/ clean_up(f)

Spec == Init /\ [][Next]_vars

-----------------------------------------------------------------------------
\* A moment of a file: the second half is that of the same write as the first,
\* or of the one before while the first is written.
Moment(d) == d[1] = d[2] \/ d[1] = d[2] + 1

\* Every snapshot that snapshot_host_bind_delivery_files returned holds all the
\* files asked for, each as it was at one moment although the sandbox went on
\* writing, and is still on disk unchanged.
SnapshotsAreWhole ==
  \A r \in returned :
    /\ \A f \in r.want : Moment(r.data[f])
    /\ snapshot.there /\ manifest.there /\ manifest.paths = r.want
    /\ \A f \in r.want : snapshot.data[f] = r.data[f]

\* No object is left without an owner when collect_workspace_artifacts fails: it
\* has a provisional cleanup row, or it was deleted again, unless its own put
\* raised after storing it or its deletion failed and that was reported.
NoObjectLeft ==
  /\ upload.reserve => objects \subseteq reserved
  /\ upload.at = "failed" /\ ~upload.reserve => objects \subseteq upload.unsure
  /\ upload.at = "cleanup_failed" => objects \subseteq upload.unsure \cup upload.broken
=============================================================================
