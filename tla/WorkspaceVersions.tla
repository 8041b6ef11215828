------------------------- MODULE WorkspaceVersions -------------------------
(***************************************************************************)
(* The workspace a stopped attempt leaves to the next one.  Its files are  *)
(* sealed in a version beside the workspace, under the attempt's file      *)
(* lock; a later attempt copies the version into its own new workspace,    *)
(* lets the skills be staged, and then publishes the saved output of each  *)
(* skill that is still authorised, keeping a journal.  A process may be    *)
(* killed, an I/O call may fail and the host may lose power at every step: *)
(* a directory entry that was not synced may then be gone.                 *)
(* The contents of a part of a workspace are a number; 0 is no such part.  *)
(***************************************************************************)
EXTENDS Naturals, FiniteSets

CONSTANTS
  Savers,     \* callers of save_workspace_version
  Skills,     \* skills whose output directory the first attempt wrote
  MaxEdits,   \* changes the first attempt's container makes
  MaxFaults   \* kills, failures and power losses

VARIABLES
  running,    \* the first attempt's container may still write
  work,       \* its workspace
  version,    \* the sealed version on its disk
  receipt,    \* the version id of a receipt handed out, 0 for none
  saver,      \* of each caller: where it is and what its temporary holds
  target,     \* the next attempt's workspace
  staged,     \* of each skill: the identity of its staged directory, 0 for none
  journal,    \* the restore binding
  finisher,   \* the caller of restore_workspace_skill_outputs
  allowed,    \* skills the next attempt is authorised for
  started,    \* the skills granted to the executor's workspace, once it starts
  used        \* edits and faults so far

vars == <<running, work, version, receipt, saver, target, staged, journal,
          finisher, allowed, started, used>>

Parts == {"files"} \cup Skills
Shipped == MaxEdits + 2     \* an output directory that came with the skill's package
Empty == [p \in Parts |-> 0]
NoVersion == [id |-> 0, data |-> Empty, durable |-> FALSE]
Idle == [at |-> "idle", data |-> Empty]
NoPlan == [id |-> 0, published |-> FALSE]
NoJournal == [state |-> "none", pending |-> {}, plans |-> [s \in Skills |-> NoPlan]]
AtRest == [at |-> "idle", todo |-> {}, granted |-> {}]
NotStarted == [yes |-> FALSE, skills |-> {}]

TypeOK ==
  /\ running \in BOOLEAN
  /\ work \in [Parts -> 0..MaxEdits + 1]
  /\ version.id \in 0..MaxFaults + 1 /\ version.durable \in BOOLEAN
  /\ receipt \in 0..MaxFaults + 1
  /\ \A c \in Savers : saver[c].at \in {"idle", "copying", "copied", "renamed", "existing"}
  /\ target \in [Parts -> 0..Shipped]
  /\ staged \in [Skills -> 0..2]
  /\ journal.state \in {"none", "awaiting", "publishing", "complete"}
  /\ journal.pending \subseteq Skills
  /\ finisher.at \in {"idle", "checked", "planned", "renamed", "done"}
  /\ allowed \subseteq Skills
  /\ started.skills \subseteq Skills
  /\ used.edits \in 0..MaxEdits /\ used.faults \in 0..MaxFaults

Init ==
  /\ running = TRUE
  /\ work = [p \in Parts |-> 1]
  /\ version = NoVersion /\ receipt = 0
  /\ saver = [c \in Savers |-> Idle]
  /\ target = Empty /\ staged = [s \in Skills |-> 0]
  /\ journal = NoJournal /\ finisher = AtRest
  /\ allowed = Skills /\ started = NotStarted
  /\ used = [edits |-> 0, faults |-> 0]

nextUnchanged == UNCHANGED <<target, staged, journal, finisher, allowed, started>>
saveUnchanged == UNCHANGED <<running, work, version, receipt, saver>>

Fault == used.faults < MaxFaults /\ used' = [used EXCEPT !.faults = @ + 1]

-----------------------------------------------------------------------------
(* The first attempt's container. *)

\* It changes its files, or an output, or removes an output.
container_writes(p, n) ==
  /\ running /\ used.edits < MaxEdits
  /\ used' = [used EXCEPT !.edits = @ + 1]
  /\ work' = [work EXCEPT ![p] = n]
  /\ UNCHANGED <<running, version, receipt, saver>> /\ nextUnchanged

\* The provider reports that exactly this attempt's container is gone.
provider_stops ==
  /\ running /\ running' = FALSE
  /\ UNCHANGED <<work, version, receipt, saver, used>> /\ nextUnchanged

-----------------------------------------------------------------------------
(* Saving. *)

AnyEvidence == TRUE

\* save_workspace_version: "provider_stopped" or "provider_not_found" of the
\* attempt itself, else workspace_writer_unverified.
StopEvidence == ~running

\* _open_snapshot_lock: an exclusive lock on the attempt's directory.
LockFree == \A c \in Savers : saver[c].at = "idle"

Moves(c, at) == saver' = [saver EXCEPT ![c].at = at]
Leaves(c) == saver' = [saver EXCEPT ![c] = Idle]

\* The first half of _copy_tree, or the validation of the version found.  An
\* attempt whose receipt is used was settled: no one saves it again.
save_begins(c) ==
  /\ StopEvidence /\ LockFree /\ target["files"] = 0
  /\ IF version.id # 0
     THEN Moves(c, "existing")
     ELSE saver' = [saver EXCEPT ![c] = [at |-> "copying",
                      data |-> [Empty EXCEPT !["files"] = work["files"]]]]
  /\ UNCHANGED <<running, work, version, receipt, used>> /\ nextUnchanged

\* The rest of it: outputs of the skills, manifest, every file and directory
\* of the temporary synced.
copy_tree(c) ==
  /\ saver[c].at = "copying"
  /\ saver' = [saver EXCEPT ![c] = [at |-> "copied",
                 data |-> [work EXCEPT !["files"] = saver[c].data["files"]]]]
  /\ UNCHANGED <<running, work, version, receipt, used>> /\ nextUnchanged

\* os.rename of the temporary; a version_id is fresh, and a version is made
\* again only after a power loss.
save_renames(c) ==
  /\ saver[c].at = "copied"
  /\ version' = [id |-> used.faults + 1,
                 data |-> saver[c].data, durable |-> FALSE]
  /\ Moves(c, "renamed")
  /\ UNCHANGED <<running, work, receipt, used>> /\ nextUnchanged

TrustsTheEntry(c) == UNCHANGED version

\* _validate_inventory and _fsync_directory(attempt) of a version already there.
SyncsTheEntry(c) == version' = [version EXCEPT !.durable = TRUE]

save_returns_existing(c) ==
  /\ saver[c].at = "existing"
  /\ SyncsTheEntry(c)
  /\ receipt' = version.id /\ Leaves(c)
  /\ UNCHANGED <<running, work, used>> /\ nextUnchanged

save_returns(c) ==
  /\ saver[c].at = "renamed"
  /\ version' = [version EXCEPT !.durable = TRUE]
  /\ receipt' = version.id /\ Leaves(c)
  /\ UNCHANGED <<running, work, used>> /\ nextUnchanged

\* A call fails or its process is killed: what was renamed stays in place.
save_fails(c) ==
  /\ saver[c].at # "idle" /\ Fault
  /\ Leaves(c)
  /\ UNCHANGED <<running, work, version, receipt>> /\ nextUnchanged

\* Every process ends; the worker that was preparing the next attempt is gone
\* and its workspace with it (a later attempt starts from an absent one).
power_loss ==
  /\ Fault
  /\ running' = FALSE
  /\ saver' = [c \in Savers |-> Idle]
  /\ version' \in IF version.durable THEN {version}
                  ELSE {NoVersion, [version EXCEPT !.durable = version.id # 0]}
  /\ target' = Empty /\ staged' = [s \in Skills |-> 0]
  /\ journal' = NoJournal /\ finisher' = AtRest
  /\ started' = NotStarted
  /\ UNCHANGED <<work, receipt, allowed>>

-----------------------------------------------------------------------------
(* Restoring into the next attempt. *)

\* _source_version: the receipt handed in is that of the version on disk.
SourceVersion == receipt # 0 /\ version.id = receipt

\* workspace_version_exclusion: the output of a skill not authorised is left out.
Pending == {s \in Skills : version.data[s] # 0} \cap allowed

\* restore_workspace_version up to its rename: only ordinary files, the skills'
\* trees wait for the stager.
restore_renames ==
  /\ SourceVersion /\ LockFree
  /\ target["files"] = 0
  /\ target' = [Empty EXCEPT !["files"] = version.data["files"]]
  /\ saveUnchanged /\ UNCHANGED <<staged, journal, finisher, allowed, started, used>>

\* _write_restore_binding.  A failure before it leaves a workspace no call accepts.
restore_binds ==
  /\ target["files"] # 0 /\ journal.state = "none"
  /\ journal' = [state |-> IF Pending = {} THEN "complete" ELSE "awaiting",
                 pending |-> Pending, plans |-> [s \in Skills |-> NoPlan]]
  /\ saveUnchanged /\ UNCHANGED <<target, staged, finisher, allowed, started, used>>

\* The stager replaces a skill's directory; its package may ship an output.
stage_skill(s, shipped) ==
  /\ journal.state # "none" /\ finisher.at = "idle" /\ ~started.yes
  /\ staged[s] < 2
  /\ staged' = [staged EXCEPT ![s] = @ + 1]
  /\ target' = [target EXCEPT ![s] = shipped]
  /\ saveUnchanged /\ UNCHANGED <<journal, finisher, allowed, started, used>>

revoke(s) ==
  /\ s \in allowed /\ target["files"] # 0 /\ ~started.yes
  /\ allowed' = allowed \ {s}
  /\ saveUnchanged /\ UNCHANGED <<target, staged, journal, finisher, started, used>>

Planned == {s \in Skills : journal.plans[s].id # 0}

RevokedPlanForgotten(s) == ~journal.plans[s].published

\* A plan of a skill no longer authorised may go only while nothing came of it.
RevokedPlanMayGo(s) ==
  /\ ~journal.plans[s].published
  /\ target[s] = 0
  /\ journal.plans[s].id = staged[s]

OutputTakenAsOurs(s) == TRUE

\* An output that is there must be the one of the journal's own publication,
\* _validate_published_output; one that is missing must not have been published.
OutputFits(s) ==
  LET plan == journal.plans[s]
  IN /\ plan.id # 0 => plan.id = staged[s]
     /\ IF target[s] # 0
        THEN plan.id # 0 /\ target[s] = version.data[s]
        ELSE journal.state # "complete" /\ ~plan.published

\* restore_workspace_skill_outputs: all its checks, before the first output.
finish_begins ==
  LET selected == journal.pending \cap allowed
      revoked == Planned \ selected
  IN /\ finisher.at = "idle" /\ journal.state # "none" /\ ~started.yes
     /\ SourceVersion
     /\ \A s \in selected \cup revoked : staged[s] # 0
     /\ \A s \in revoked : RevokedPlanMayGo(s)
     /\ journal' = [journal EXCEPT !.plans =
                      [s \in Skills |-> IF s \in revoked THEN NoPlan ELSE @[s]]]
     /\ \A s \in selected : OutputFits(s)
     /\ finisher' = [at |-> "checked", todo |-> selected, granted |-> selected]
     /\ saveUnchanged /\ UNCHANGED <<target, staged, allowed, started, used>>

Next1(S) == CHOOSE s \in S : TRUE

PlanAtTheEnd(s) == UNCHANGED journal

\* The plan, with the staged skill's identity, is synced before the rename.
Plan(s) ==
  journal' = [journal EXCEPT !.plans[s] = [id |-> staged[s], published |-> FALSE],
                             !.state = "publishing"]

publish_plans ==
  /\ finisher.at = "checked" /\ finisher.todo # {}
  /\ LET s == Next1(finisher.todo)
     IN IF target[s] = 0
        THEN Plan(s) /\ finisher' = [finisher EXCEPT !.at = "planned"]
        ELSE finisher' = [finisher EXCEPT !.at = "renamed"] /\ UNCHANGED journal
  /\ saveUnchanged /\ UNCHANGED <<target, staged, allowed, started, used>>

publish_renames ==
  /\ finisher.at = "planned"
  /\ target' = [target EXCEPT ![Next1(finisher.todo)] = version.data[Next1(finisher.todo)]]
  /\ finisher' = [finisher EXCEPT !.at = "renamed"]
  /\ saveUnchanged /\ UNCHANGED <<staged, journal, allowed, started, used>>

publish_records ==
  /\ finisher.at = "renamed"
  /\ LET s == Next1(finisher.todo)
     IN /\ journal' = [journal EXCEPT !.plans[s].published = TRUE]
        /\ finisher' = [finisher EXCEPT !.at = "checked", !.todo = @ \ {s}]
  /\ saveUnchanged /\ UNCHANGED <<target, staged, allowed, started, used>>

finish_returns ==
  /\ finisher.at = "checked" /\ finisher.todo = {}
  /\ journal' = [journal EXCEPT !.state = "complete"]
  /\ finisher' = [finisher EXCEPT !.at = "done"]
  /\ saveUnchanged /\ UNCHANGED <<target, staged, allowed, started, used>>

\* An I/O call fails; the caller may try again with the same restore receipt.
finish_fails ==
  /\ finisher.at \in {"checked", "planned", "renamed"} /\ Fault
  /\ finisher' = AtRest
  /\ saveUnchanged /\ UNCHANGED <<target, staged, journal, allowed, started>>

\* The same call made again after it succeeded, before the executor starts.
finish_repeated ==
  /\ finisher.at = "done" /\ Fault
  /\ finisher' = AtRest
  /\ saveUnchanged /\ UNCHANGED <<target, staged, journal, allowed, started>>

executor_starts ==
  /\ finisher.at = "done" /\ ~started.yes
  /\ started' = [yes |-> TRUE, skills |-> finisher.granted]
  /\ saveUnchanged /\ UNCHANGED <<target, staged, journal, finisher, allowed, used>>

Next ==
  \/ \E p \in Parts : container_writes(p, used.edits + 2)
  \/ \E s \in Skills : container_writes(s, 0)
  \/ provider_stops
  \/ \E c \in Savers : \/ save_begins(c) \/ copy_tree(c) \/ save_renames(c)
                       \/ save_returns_existing(c) \/ save_returns(c) \/ save_fails(c)
  \/ power_loss
  \/ restore_renames \/ restore_binds
  \/ \E s \in Skills : stage_skill(s, 0) \/ stage_skill(s, Shipped) \/ revoke(s)
  \/ finish_begins \/ publish_plans \/ publish_renames \/ publish_records
  \/ finish_returns \/ finish_fails \/ finish_repeated \/ executor_starts

Spec == Init /\ [][Next]_vars

-----------------------------------------------------------------------------
\* A receipt names a version that is on the disk for good and holds exactly the
\* workspace the stopped container left, whatever was killed, failed or lost
\* power while save_workspace_version ran, and however often it was called.
ReceiptIsKept ==
  receipt # 0 => /\ version.id = receipt /\ version.durable
                 /\ ~running /\ version.data = work

\* The executor of the next attempt starts with the saved files, with the saved
\* output of each skill it is granted, and with no saved output of a skill that
\* restore_workspace_skill_outputs left out because its authority was revoked.
StartsAsSaved ==
  started.yes =>
    /\ target["files"] = work["files"]
    /\ \A s \in Skills :
         IF s \in started.skills THEN target[s] = work[s]
         ELSE target[s] \in {0, Shipped}

\* A synced version never changes, and an output directory that came with a
\* skill's package is replaced by the stager only, never by a saved output.
VersionStep ==
  /\ version.durable => version' = version
  /\ \A s \in Skills :
       target[s] = Shipped => \/ target'[s] = Shipped \/ staged'[s] # staged[s]
=============================================================================
