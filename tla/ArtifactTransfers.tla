------------------------- MODULE ArtifactTransfers -------------------------
(***************************************************************************)
(* Restoring an earlier run's artifact in the workspace of a later run.    *)
(* The executor asks the platform, which authorises the call, downloads    *)
(* the object outside any transaction, authorises it again and streams it  *)
(* back; the executor, or a worker that restores inline, writes it beside  *)
(* its target and links it there.  Several tool calls of one attempt run   *)
(* at a time, and the tools of the run edit the workspace meanwhile.  An   *)
(* artifact is numbered by its source run.                                 *)
(***************************************************************************)
EXTENDS Naturals, FiniteSets

CONSTANTS
  Calls,
  Artifacts,  \* 1..n
  MaxEdits    \* changes the run's own tools make

VARIABLES
  expired,    \* artifacts past expires_at
  run,        \* "new", "running", "cancelling" or "over"
  frozen,     \* included_artifact_ids of the run's bound snapshot
  lease,      \* the attempt whose lease is active
  call,       \* of each call: where it is, its artifact, attempt and kind
  temp,       \* of each call: its download thread's file, "none", "coming" or "there"
  parts,      \* calls whose .part file exists in the workspace
  lock,       \* the call that holds the target's lock, or "free"
  target,     \* of each artifact: "none", "whole", "edited", "foreign"
  published,  \* targets this attempt's owner has published
  edits

vars == <<expired, run, frozen, lease, call, temp, parts, lock, target, published, edits>>

Idle == [at |-> "idle", art |-> 0, lease |-> 0, inline |-> FALSE]
Places == {"idle", "downloading", "abandoned", "downloaded", "sending", "writing", "verified"}

TypeOK ==
  /\ expired \subseteq Artifacts
  /\ run \in {"new", "running", "cancelling", "over"}
  /\ frozen \subseteq Artifacts
  /\ lease \in 1..2
  /\ \A c \in Calls : call[c].at \in Places
  /\ temp \in [Calls -> {"none", "coming", "there"}]
  /\ parts \subseteq Calls
  /\ \A a \in Artifacts : lock[a] \in Calls \cup {"free"}
  /\ target \in [Artifacts -> {"none", "whole", "edited", "foreign"}]
  /\ published \subseteq Artifacts
  /\ edits \in 0..MaxEdits

Init ==
  /\ expired \in SUBSET Artifacts
  /\ run = "new" /\ frozen = {} /\ lease = 1
  /\ call = [c \in Calls |-> Idle]
  /\ temp = [c \in Calls |-> "none"] /\ parts = {}
  /\ lock = [a \in Artifacts |-> "free"]
  /\ target = [a \in Artifacts |-> "none"]
  /\ published = {} /\ edits = 0

-----------------------------------------------------------------------------
(* The run, its lease and the artifacts' rows. *)

\* list_session_context_artifacts: those of the latest run that has any left.
SessionArtifacts ==
  LET S == Artifacts \ expired IN {a \in S : \A b \in S : b <= a}

\* list_run_artifacts of a copied run's source, whatever their state.
SourceArtifacts(source) == Artifacts \cap source

\* create_context_snapshot refuses one that is not active any more.
admit(source) ==
  LET included == SessionArtifacts \cup SourceArtifacts(source)
  IN /\ run = "new"
     /\ included \cap expired = {}
     /\ frozen' = included /\ run' = "running"
     /\ UNCHANGED <<expired, lease, call, temp, parts, lock, target, published, edits>>

expire(a) ==
  /\ a \notin expired /\ run # "new"
  /\ expired' = expired \cup {a}
  /\ UNCHANGED <<run, frozen, lease, call, temp, parts, lock, target, published, edits>>

request_cancel ==
  /\ run = "running" /\ run' = "cancelling"
  /\ UNCHANGED <<expired, frozen, lease, call, temp, parts, lock, target, published, edits>>

end_run ==
  /\ run \in {"running", "cancelling"} /\ run' = "over"
  /\ UNCHANGED <<expired, frozen, lease, call, temp, parts, lock, target, published, edits>>

\* A new attempt's lease takes the place of this one's.
supersede ==
  /\ run = "running" /\ lease = 1
  /\ lease' = 2
  /\ UNCHANGED <<expired, run, frozen, call, temp, parts, lock, target, published, edits>>

-----------------------------------------------------------------------------
(* The platform's side of a transfer. *)

\* get_scoped_context_artifact.
Scoped(a) == a \in frozen /\ a \notin expired

\* authorize: the callback's attempt holds the lease and no cancel was asked.
Authorized(attempt, a) == run = "running" /\ lease = attempt /\ Scoped(a)

Rest(c) == call' = [call EXCEPT ![c] = Idle]
Discard(c) == temp' = [temp EXCEPT ![c] = "none"]
Goes(c, at) == call' = [call EXCEPT ![c].at = at]

\* executor_context_retrieval_callback: the first transaction of a broker.
broker_begins(c, a) ==
  /\ call[c].at = "idle" /\ Authorized(1, a)
  /\ call' = [call EXCEPT ![c] = [at |-> "downloading", art |-> a, lease |-> 1, inline |-> FALSE]]
  /\ temp' = [temp EXCEPT ![c] = "coming"]
  /\ UNCHANGED <<expired, run, frozen, lease, parts, lock, target, published, edits>>

\* stage_run_artifact_to_workspace takes the target's lock before it downloads.
inline_begins(c, a) ==
  /\ call[c].at = "idle" /\ Scoped(a) /\ run # "over"
  /\ lock[a] = "free"
  /\ call' = [call EXCEPT ![c] = [at |-> "downloading", art |-> a, lease |-> 1, inline |-> TRUE]]
  /\ lock' = [lock EXCEPT ![a] = c] /\ temp' = [temp EXCEPT ![c] = "coming"]
  /\ UNCHANGED <<expired, run, frozen, lease, parts, target, published, edits>>

Unlocked(c) == [a \in Artifacts |-> IF lock[a] = c THEN "free" ELSE lock[a]]

\* The storage thread returns a file of the recorded size and digest.
downloaded(c) ==
  /\ call[c].at = "downloading"
  /\ Goes(c, "downloaded") /\ temp' = [temp EXCEPT ![c] = "there"]
  /\ UNCHANGED <<expired, run, frozen, lease, parts, lock, target, published, edits>>

\* It fails, or the file is another one and is unlinked.
download_fails(c) ==
  /\ call[c].at = "downloading"
  /\ Rest(c) /\ Discard(c) /\ lock' = Unlocked(c)
  /\ UNCHANGED <<expired, run, frozen, lease, parts, target, published, edits>>

LetGo(c) == Rest(c) /\ lock' = Unlocked(c)

\* StorageIOCompletion.settle: the caller waits for the thread it gave up.
Settle(c) == Goes(c, "abandoned") /\ UNCHANGED lock

abandon(c) ==
  /\ call[c].at = "downloading"
  /\ Settle(c)
  /\ UNCHANGED <<expired, run, frozen, lease, temp, parts, target, published, edits>>

\* The thread ends after all; what it returned is discarded.
late_download(c) ==
  /\ call[c].at = "abandoned"
  /\ Rest(c) /\ Discard(c) /\ lock' = Unlocked(c)
  /\ UNCHANGED <<expired, run, frozen, lease, parts, target, published, edits>>

AuthorizedOnce(c) == TRUE

\* What the second transaction checks, or prepare_artifact_transfer inline.
StillAuthorized(c) ==
  IF call[c].inline THEN Scoped(call[c].art)
  ELSE Authorized(call[c].lease, call[c].art)

\* The event is recorded and the response begins, or the file is unlinked.
reauthorize(c) ==
  /\ call[c].at = "downloaded"
  /\ \/ /\ StillAuthorized(c)
        /\ Goes(c, "sending") /\ UNCHANGED <<temp, lock>>
     \/ /\ ~StillAuthorized(c)
        /\ Rest(c) /\ Discard(c) /\ lock' = Unlocked(c)
  /\ UNCHANGED <<expired, run, frozen, lease, parts, target, published, edits>>

-----------------------------------------------------------------------------
(* The workspace. *)

\* The lock of ArtifactWorkspace: an inline call has it already.
MayTake(c) == lock[call[c].art] \in {"free", c}

\* The call ends: the part, the downloaded file and the lock go.
Over(c) ==
  /\ Rest(c)
  /\ Discard(c) /\ parts' = parts \ {c} /\ lock' = Unlocked(c)
  /\ UNCHANGED <<expired, run, frozen, lease, edits>>

take_target(c) ==
  /\ call[c].at = "sending" /\ MayTake(c)
  /\ LET a == call[c].art
     IN \/ /\ target[a] # "none"      \* reused, or context_artifact_target_conflict
           /\ Over(c) /\ UNCHANGED <<target, published>>
        \/ /\ target[a] = "none"
           /\ Goes(c, "writing") /\ parts' = parts \cup {c}
           /\ lock' = [lock EXCEPT ![a] = c]
           /\ UNCHANGED <<expired, run, frozen, lease, temp, target, published, edits>>

\* The stream ends and its length and digest are the announced ones.
stream_ends(c) ==
  /\ call[c].at = "writing"
  /\ Goes(c, "verified")
  /\ UNCHANGED <<expired, run, frozen, lease, temp, parts, lock, target, published, edits>>

\* It is cut short, garbled or cancelled.
transfer_fails(c) ==
  /\ call[c].at \in {"sending", "writing", "verified"}
  /\ Over(c) /\ UNCHANGED <<target, published>>

LinkedOver(c) == [target EXCEPT ![call[c].art] = "whole"]

\* publish: a link to the verified file, refused when the name is taken.
Linked(c) ==
  IF target[call[c].art] = "none" THEN [target EXCEPT ![call[c].art] = "whole"] ELSE target

publish(c) ==
  /\ call[c].at = "verified"
  /\ target' = Linked(c)
  /\ published' = IF target[call[c].art] = "none" THEN published \cup {call[c].art} ELSE published
  /\ Over(c)

\* The run's own tools change the workspace.
edit(a) ==
  /\ edits < MaxEdits /\ run # "new"
  /\ edits' = edits + 1
  /\ \/ target[a] \in {"whole", "edited"} /\ target' = [target EXCEPT ![a] = "edited"]
     \/ target[a] = "none" /\ target' = [target EXCEPT ![a] = "foreign"]
     \/ target[a] # "none" /\ target' = [target EXCEPT ![a] = "none"]
  /\ UNCHANGED <<expired, run, frozen, lease, call, temp, parts, lock, published>>

Next ==
  \/ \E source \in {{}} \cup {{a} : a \in Artifacts} : admit(source)
  \/ request_cancel \/ end_run \/ supersede
  \/ \E a \in Artifacts : expire(a) \/ edit(a)
  \/ \E c \in Calls, a \in Artifacts : broker_begins(c, a) \/ inline_begins(c, a)
  \/ \E c \in Calls :
       \/ downloaded(c) \/ download_fails(c) \/ abandon(c) \/ late_download(c)
       \/ reauthorize(c) \/ take_target(c) \/ stream_ends(c) \/ transfer_fails(c) \/ publish(c)

Spec == Init /\ [][Next]_vars

-----------------------------------------------------------------------------
(* Properties. *)

\* A downloading thread, its file and a partial copy belong to a call that
\* will wait for it or remove it, and the writer of a target holds its lock
\* (artifact_download.py, artifact_workspace.py).
NothingIsLeft ==
  /\ \A c \in Calls :
       /\ temp[c] = "coming" => call[c].at \in {"downloading", "abandoned"}
       /\ temp[c] = "there" => call[c].at \in {"downloaded", "sending", "writing", "verified"}
  /\ \A c \in parts : call[c].at \in {"writing", "verified"} /\ lock[call[c].art] = c

\* An object leaves the platform only for an attempt that may have it at that
\* moment (broker_artifact_transfer).
HandedOver ==
  \A c \in Calls :
    (call[c].at = "downloaded" /\ call'[c].at = "sending") =>
      /\ call[c].art \in frozen \ expired
      /\ call[c].inline \/ (run = "running" /\ lease = call[c].lease)

\* A restore never touches a file that is already there: only the run's own
\* tools change it (ArtifactWorkspaceTarget).
EditsStay ==
  \A a \in Artifacts : (target[a] # "none" /\ edits' = edits) => target'[a] = target[a]
=============================================================================
