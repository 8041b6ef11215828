--------------------------- MODULE SkillReleases ---------------------------
(***************************************************************************)
(* One Skill on its way from an uploaded package to a run: the global      *)
(* catalog row and version rows, each tenant's release policy and           *)
(* distribution row, the administrators' requests that write them, and the  *)
(* admission and dispatch of runs that read them without locking them.      *)
(*                                                                         *)
(* Every release transaction takes the Skill's row lock first               *)
(* (lock_skill_version_lifecycle) and every distribution write its          *)
(* advisory lock, so each is one step; an upload reads the catalog before   *)
(* it takes the lock, and a run reads in several statements, so these take  *)
(* several.  A refused request changes nothing and is not a step.           *)
(***************************************************************************)
EXTENDS Integers, FiniteSets

CONSTANTS Tenants, Versions, Admins, Runs, NoOne,
          Trusted,     \* versions whose package passes the admin review
          Builtin,     \* the version a seeded catalog starts with
          Legacy,      \* tenants with a legacy workbench row of a seeded Skill
          Rollouts,    \* rollout percentages an administrator may ask for
          MaxRequests  \* bound on the administrators' requests

VARIABLES pointer,     \* skills.version, NoOne while the Skill does not exist
          status,      \* skill_versions.status, "none" without a row
          policy,      \* skill_release_policies of each tenant
          dist,        \* tenant_capability_distributions of each tenant
          filled,      \* tenants whose distribution backfill is complete
          upload,      \* an administrator's upload between read and lock
          run,         \* a run between its admission and its execution
          requests     \* administrators' requests so far

vars == <<pointer, status, policy, dist, filled, upload, run, requests>>

Buckets == {10, 90}
Statuses == {"none", "draft", "reviewed", "released", "active", "disabled", "deprecated"}

NoPolicy == [current |-> NoOne, previous |-> NoOne, rollout |-> 100]
NoRow == [row |-> "none", visible |-> FALSE, by |-> NoOne]
NoUpload == [version |-> NoOne, new |-> FALSE]
NoRun == [pc |-> "idle", tenant |-> NoOne, bucket |-> 10, version |-> NoOne]

-----------------------------------------------------------------------------
(* Reading a version's status and a tenant's policy.                        *)

IsUserRunnable(s) == s \in {"released", "active"}

IsReleasable(s) == s \in {"reviewed", "released", "active"}

(* resolve_rollout_skill_decision: the version a user of this bucket gets.  *)
Selected(p, bucket) ==
    IF p.current = NoOne THEN pointer
    ELSE IF p.rollout < 100 /\ p.previous # NoOne /\ (p.rollout <= 0 \/ bucket >= p.rollout)
         THEN p.previous
         ELSE p.current

(* The version whose status resolve_skill_identity joins: the policy's      *)
(* current one, whatever track the user is on.                              *)
IdentityVersion(t) == IF policy[t].current = NoOne THEN pointer ELSE policy[t].current

PreviousForPromotionOfCurrent(p, target) ==
    IF p.current = NoOne
    THEN IF pointer # target THEN pointer ELSE NoOne
    ELSE IF p.current # target THEN p.current ELSE NoOne

(* previous_skill_version_for_promotion, with the catalog's version as the  *)
(* fallback of a tenant without a policy.                                   *)
PreviousForPromotion(p, target) ==
    LET candidate == IF p.current = NoOne THEN pointer
                     ELSE IF p.current = target THEN p.previous
                     ELSE p.current
    IN IF candidate = target THEN NoOne ELSE candidate

ReferencedAsCurrent(v) == pointer = v \/ \E t \in Tenants : policy[t].current = v

(* has_active_skill_version_release_references, over all tenants.           *)
Referenced(v) ==
    \/ pointer = v
    \/ \E t \in Tenants :
        \/ policy[t].current = v
        \/ policy[t].rollout < 100 /\ policy[t].previous = v

-----------------------------------------------------------------------------
(* Distribution rows.                                                       *)

Archived(d) == d.by # NoOne

(* The row after ensure_tenant_capability_distribution_backfill, which only *)
(* inserts and runs once for a tenant.                                      *)
Backfilled(t) ==
    IF t \in filled \/ t \notin Legacy \/ status[Builtin] = "none" \/ dist[t].row # "none"
    THEN dist[t]
    ELSE [row |-> "active", visible |-> TRUE, by |-> NoOne]

(* resolve_capability_access for an ordinary user; `visible` stands for     *)
(* visible_to_user and a department and role scope that admits the user.    *)
Usable(d) ==
    /\ d.row # "none"
    /\ ~Archived(d)
    /\ d.visible
    /\ d.row = "active"

(* set_capability_distribution_status creates a missing binding open to all *)
(* and keeps an existing one's scope.                                       *)
SetStatus(d, s) ==
    IF d.row = "none" THEN [row |-> s, visible |-> TRUE, by |-> NoOne]
    ELSE [d EXCEPT !.row = s]

MayWriteAny(d) == TRUE

(* _require_unarchived_capability_distribution, before every other write.   *)
MayWrite(d) == ~Archived(d)

Request ==
    /\ requests < MaxRequests
    /\ requests' = requests + 1

(* The row an administrator's request asks for: its whole content, its      *)
(* status, or its archive, which disables, hides and marks and keeps the    *)
(* evidence of an earlier archive.                                          *)
Upserted(s, visible) == [row |-> s, visible |-> visible, by |-> NoOne]

Toggled(d, s) == [d EXCEPT !.row = s]

ArchivedBy(d, a) ==
    [d EXCEPT !.row = "disabled", !.visible = FALSE,
              !.by = IF Archived(d) THEN d.by ELSE a]

WriteDist(t, d) ==
    /\ dist' = [dist EXCEPT ![t] = d]
    /\ filled' = filled \cup {t}

UpsertDistribution(t) ==
    /\ Request
    /\ pointer # NoOne
    /\ MayWrite(Backfilled(t))
    /\ \E s \in {"active", "disabled"}, visible \in BOOLEAN :
        WriteDist(t, Upserted(s, visible))
    /\ UNCHANGED <<pointer, status, policy, upload, run>>

ToggleDistribution(t) ==
    LET d == Backfilled(t)
    IN /\ Request
       /\ d.row # "none"
       /\ MayWrite(d)
       /\ \E s \in {"active", "disabled"} : WriteDist(t, Toggled(d, s))
       /\ UNCHANGED <<pointer, status, policy, upload, run>>

ArchiveDistribution(t, a) ==
    LET d == Backfilled(t)
    IN /\ Request
       /\ d.row # "none"
       /\ WriteDist(t, ArchivedBy(d, a))
       /\ UNCHANGED <<pointer, status, policy, upload, run>>

(* Any listing of the tenant's rows performs the backfill.                  *)
ListDistributions(t) ==
    /\ t \notin filled
    /\ WriteDist(t, Backfilled(t))
    /\ UNCHANGED <<pointer, status, policy, upload, run, requests>>

-----------------------------------------------------------------------------
(* The administrators' release requests.                                    *)

(* admin_upload_skill_package up to the row lock: whether the Skill exists  *)
(* is read before it.                                                       *)
UploadRead(a, v) ==
    /\ Request
    /\ upload[a] = NoUpload
    /\ v # Builtin
    /\ upload' = [upload EXCEPT ![a] = [version |-> v, new |-> pointer = NoOne]]
    /\ UNCHANGED <<pointer, status, policy, dist, filled, run>>

(* create_skill_catalog and upsert_skill_version, which keeps the row of a  *)
(* version that is there already.                                           *)
CreateCatalog(v) == pointer' = v

DraftRow(v) == IF status[v] # "none" THEN status ELSE [status EXCEPT ![v] = "draft"]

(* The rest of the upload under the lock: a new Skill's catalog row (refused *)
(* when another upload has created it), and the version's draft row unless   *)
(* the same content is there already.                                        *)
UploadWrite(a) ==
    LET v == upload[a].version
        lost == upload[a].new /\ pointer # NoOne
    IN /\ v # NoOne
       /\ IF upload[a].new /\ ~lost THEN CreateCatalog(v) ELSE UNCHANGED pointer
       /\ status' = IF lost THEN status ELSE DraftRow(v)
       /\ upload' = [upload EXCEPT ![a] = NoUpload]
       /\ UNCHANGED <<policy, dist, filled, run, requests>>

(* The admin review of a package, a function of its immutable content.      *)
PassesReview(v) == v \in Trusted

(* admin_update_skill_version_status.                                       *)
ChangeStatus(v, s) ==
    /\ Request
    /\ status[v] \notin {"none", s}
    /\ s = "reviewed" => status[v] = "draft" /\ PassesReview(v)
    /\ status[v] \notin {"disabled", "deprecated"}
    /\ s \in {"disabled", "deprecated"} => ~Referenced(v)
    /\ status' = [status EXCEPT ![v] = s]
    /\ UNCHANGED <<pointer, policy, dist, filled, upload, run>>

PreviousMayServeAny(previous, target) == TRUE

(* A partial rollout sends some users to the previous version, so that one  *)
(* must be runnable and its package loadable.                               *)
PreviousMayServe(previous, target) == previous # NoOne => IsUserRunnable(status[previous])

(* set_skill_release_policy, _mark_skill_version_released and               *)
(* set_uploaded_workbench_skill_status.                                     *)
SetPolicy(t, v, previous, percent) ==
    policy' = [policy EXCEPT ![t] = [current |-> v, previous |-> previous, rollout |-> percent]]

MarkReleased(v) == status' = [status EXCEPT ![v] = "released"]

EnableUploaded(t) ==
    /\ MayWrite(Backfilled(t))
    /\ WriteDist(t, SetStatus(Backfilled(t), "active"))

(* admin_promote_skill_version: the version's review is required again, the *)
(* policy written, the version marked released and, for an upload, the      *)
(* tenant's distribution enabled, all or nothing.                           *)
Promote(t, v, percent) ==
    LET previous == PreviousForPromotion(policy[t], v)
    IN /\ Request
       /\ IsReleasable(status[v])
       /\ PassesReview(v)
       /\ percent < 100 => PreviousMayServe(previous, v)
       /\ SetPolicy(t, v, previous, percent)
       /\ MarkReleased(v)
       /\ IF v = Builtin THEN UNCHANGED <<dist, filled>> ELSE EnableUploaded(t)
       /\ UNCHANGED <<pointer, upload, run>>

RollbackTargetOfRow(v) == status[v] # "none"

(* _require_rollback_target_skill_version: also a deprecated version, never *)
(* a draft or a disabled one.                                               *)
RollbackTarget(v) == IsReleasable(status[v]) \/ status[v] = "deprecated"

(* admin_rollback_skill_version: only to the policy's previous version (or  *)
(* its current one when there is none), for every user, and released again. *)
Rollback(t, v) ==
    LET p == policy[t]
    IN /\ Request
       /\ p.current # NoOne
       /\ RollbackTarget(v)
       /\ v = IF p.previous # NoOne THEN p.previous ELSE p.current
       /\ SetPolicy(t, v, IF p.previous # NoOne THEN p.current ELSE NoOne, 100)
       /\ MarkReleased(v)
       /\ UNCHANGED <<pointer, dist, filled, upload, run>>

-----------------------------------------------------------------------------
(* Runs.                                                                    *)

(* A row of list_public_skill_catalog the user may run: distributed to      *)
(* them, and runnable at the version their track selects.                   *)
InCatalog(t, bucket) ==
    /\ Usable(Backfilled(t))
    /\ IsUserRunnable(status[Selected(policy[t], bucket)])

(* resolve_skill_identity and the release decision of one user.             *)
ResolveSkill(r, t, bucket) ==
    /\ run[r].pc = "idle"
    /\ pointer # NoOne
    /\ Usable(Backfilled(t))
    /\ IsUserRunnable(status[IdentityVersion(t)])
    /\ run' = [run EXCEPT ![r] = [pc |-> "resolved", tenant |-> t, bucket |-> bucket,
                                  version |-> Selected(policy[t], bucket)]]
    /\ WriteDist(t, Backfilled(t))
    /\ UNCHANGED <<pointer, status, policy, upload, requests>>

(* _load_exact_version and build_skill_version_manifest_pin.                *)
Loadable(v) == IsUserRunnable(status[v])

(* The selected version is loaded in a later statement, pinned in the run's *)
(* snapshot rows and committed; otherwise the request fails.                *)
AdmitRun(r) ==
    /\ run[r].pc = "resolved"
    /\ run' = [run EXCEPT ![r] = IF Loadable(run[r].version)
                                 THEN [@ EXCEPT !.pc = "admitted"] ELSE NoRun]
    /\ UNCHANGED <<pointer, status, policy, dist, filled, upload, requests>>

(* validate_replay_skill_manifests: the pinned version may run to its end   *)
(* after a deprecation, not after it was disabled.                          *)
Replayable(v) == status[v] \in {"active", "released", "deprecated"}

(* WorkerSkillDispatch.candidate: the pin is the run's snapshot row, its    *)
(* version may since have been deprecated but not disabled, and the Skill   *)
(* still resolves for the tenant.                                           *)
ValidatePin(r) ==
    LET v == run[r].version
    IN /\ run[r].pc = "admitted"
       /\ run' = [run EXCEPT ![r] =
              IF /\ Replayable(v)
                 /\ IsUserRunnable(status[IdentityVersion(run[r].tenant)])
              THEN [@ EXCEPT !.pc = "validated"] ELSE NoRun]
       /\ UNCHANGED <<pointer, status, policy, dist, filled, upload, requests>>

(* WorkerSkillDispatch.catalog: the tenant still distributes the Skill and  *)
(* the user's track is still a runnable version; the pinned one is used.    *)
AuthorizeRun(r) ==
    LET t == run[r].tenant
    IN /\ run[r].pc = "validated"
       /\ run' = [run EXCEPT ![r] =
              IF InCatalog(t, run[r].bucket) THEN [@ EXCEPT !.pc = "executing"] ELSE NoRun]
       /\ WriteDist(t, Backfilled(t))
       /\ UNCHANGED <<pointer, status, policy, upload, requests>>

EndRun(r) ==
    /\ run[r].pc = "executing"
    /\ run' = [run EXCEPT ![r] = NoRun]
    /\ UNCHANGED <<pointer, status, policy, dist, filled, upload, requests>>

-----------------------------------------------------------------------------
(* A catalog without the Skill, or one seeded with its builtin version or   *)
(* created by an upload, in which other uploads have been reviewed.         *)
Init ==
    /\ pointer \in {NoOne, Builtin} \cup (Versions \ Trusted)
    /\ status \in {[v \in Versions |-> IF v \in reviewed THEN "reviewed"
                                       ELSE IF v # pointer THEN "none"
                                       ELSE IF v = Builtin THEN "active" ELSE "draft"] :
                   reviewed \in IF pointer = NoOne THEN {{}}
                               ELSE {{}, Trusted \ {pointer, Builtin}}}
    /\ policy = [t \in Tenants |-> NoPolicy]
    /\ dist = [t \in Tenants |-> NoRow]
    /\ filled = {}
    /\ upload = [a \in Admins |-> NoUpload]
    /\ run = [r \in Runs |-> NoRun]
    /\ requests = 0

Next ==
    \/ \E t \in Tenants : \/ UpsertDistribution(t)
                          \/ ToggleDistribution(t)
                          \/ ListDistributions(t)
                          \/ \E a \in Admins : ArchiveDistribution(t, a)
    \/ \E a \in Admins : \/ \E v \in Versions : UploadRead(a, v)
                         \/ UploadWrite(a)
    \/ \E v \in Versions : \/ \E s \in {"reviewed", "disabled", "deprecated"} : ChangeStatus(v, s)
                           \/ \E t \in Tenants : \/ \E n \in Rollouts : Promote(t, v, n)
                                                 \/ Rollback(t, v)
    \/ \E r \in Runs : \/ \E t \in Tenants, b \in Buckets : ResolveSkill(r, t, b)
                       \/ AdmitRun(r)
                       \/ ValidatePin(r)
                       \/ AuthorizeRun(r)
                       \/ EndRun(r)

Spec == Init /\ [][Next]_vars

-----------------------------------------------------------------------------
(* Every variable holds values of its kind.                                 *)
TypeOK ==
    /\ pointer \in Versions \cup {NoOne}
    /\ status \in [Versions -> Statuses]
    /\ \A t \in Tenants : /\ policy[t].current \in Versions \cup {NoOne}
                          /\ policy[t].previous \in Versions \cup {NoOne}
                          /\ policy[t].rollout \in Rollouts \cup {100}
                          /\ dist[t].row \in {"none", "active", "disabled"}
    /\ filled \subseteq Tenants
    /\ requests \in 0 .. MaxRequests
    /\ \A r \in Runs : run[r].pc \in {"idle", "resolved", "admitted", "validated", "executing"}

(* Whatever track of a tenant's policy a user falls on, the version there   *)
(* has a row and may run: no other tenant's or administrator's request      *)
(* retires it under the policy (admin_skills.py, promote, rollback and      *)
(* status; has_active_skill_version_release_references).                    *)
TracksAreRunnable ==
    \A t \in Tenants, b \in Buckets :
        policy[t].current # NoOne => IsUserRunnable(status[Selected(policy[t], b)])

(* A version is released, and a run pins it, only if its package passed the *)
(* review: not by being the draft a new catalog row points to, and not by a *)
(* rollback, which asks for no review of its own.                           *)
ReleasedWereReviewed ==
    /\ \A v \in Versions : status[v] = "released" => v \in Trusted
    /\ \A r \in Runs : run[r].pc \in {"admitted", "validated", "executing"} =>
                          run[r].version \in Trusted

(* An archived binding is never revived or re-attributed by an update, a    *)
(* toggle, a promotion, a backfill or a second archive.                     *)
ArchivedStays == \A t \in Tenants : Archived(dist[t]) => dist'[t] = dist[t]

(* Changing the percentage of the version being rolled out, or repeating a  *)
(* promotion, keeps the predecessor a rollback would return to, and a wider *)
(* rollout takes no user back from the new version to the old one.          *)
RolloutKeepsItsPredecessor ==
    \A t \in Tenants :
        LET p == policy[t]
            q == policy'[t]
        IN p.current # NoOne /\ q.current = p.current =>
            /\ q.previous = p.previous
            /\ q.rollout >= p.rollout =>
                 \A b \in Buckets : Selected(p, b) = p.current => Selected(q, b) = q.current

ReleaseStep == ArchivedStays /\ RolloutKeepsItsPredecessor
=============================================================================
