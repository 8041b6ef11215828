--------------------------- MODULE MemoryRecords ----------------------------
(***************************************************************************)
(* The memory records of a user's sessions: written under the effective    *)
(* memory policy, hidden once they expire, soft-deleted by their owner, an *)
(* administrator or the worker's rotating clean-up, and purged after a     *)
(* grace period when nothing refers to them any more.  A record is a pair  *)
(* of its workspace and its place in the order of expiry; a workspace has  *)
(* one session, and workspaces are numbered in the order of their ids.     *)
(***************************************************************************)
EXTENDS Naturals, FiniteSets, FiniteSetsExt

CONSTANTS
  Records,       \* pairs <<workspace, place>>
  Workspaces,    \* 1..n
  Limits,        \* memory_retention_worker_cleanup_limit
  MaxEdits       \* policy changes

VARIABLES
  limit,      \* one of Limits
  policy,     \* the agent's row and the general one: "none", "off" or "on"
  state,      \* of each record; "expired" is active past expires_at, "ripe" deleted past the grace
  active,     \* workspaces whose session is active
  creating,   \* the record of a create request between its policy read and its insert
  recording,  \* records locked by an open snapshot transaction
  snapshots,  \* records some committed snapshot includes
  audits,     \* records some audit row names as its target
  cursor,     \* worker_maintenance_cursors, 0 when there is no row
  waits,      \* clean-ups that passed a workspace by although it had work
  edits

vars == <<limit, policy, state, active, creating, recording, snapshots, audits, cursor, waits, edits>>

TypeOK ==
  /\ limit \in Limits /\ edits \in 0..MaxEdits
  /\ policy \in [{"agent", "general"} -> {"none", "off", "on"}]
  /\ state \in [Records -> {"none", "active", "expired", "deleted", "ripe", "purged"}]
  /\ active \subseteq Workspaces /\ creating \subseteq Records
  /\ recording \subseteq Records /\ snapshots \subseteq Records /\ audits \subseteq Records
  /\ cursor \in 0..Cardinality(Workspaces) /\ waits \in [Workspaces -> 0..Cardinality(Workspaces)]

Init ==
  /\ limit \in Limits
  /\ policy = [row \in {"agent", "general"} |-> IF row = "agent" THEN "off" ELSE "on"]
  /\ state = [r \in Records |-> "none"]
  /\ active = Workspaces
  /\ creating = {} /\ recording = {} /\ snapshots = {} /\ audits = {}
  /\ cursor = 0 /\ waits = [w \in Workspaces |-> 0] /\ edits = 0

In(s) == {r \in Records : state[r] = s}
Ws(r) == r[1]

\* list_memory_records and list_admin_memory_records: what the user is shown.
Listed == In("active")
\* list_scoped_context_memory_records: what search_memory finds for a run; the
\* expiry is not part of its condition.
Searchable == In("active") \cup In("expired")

\* get_effective_memory_policy: the agent's row, else the general one, else
\* the default, which enables memory.
Effective ==
  IF policy["agent"] # "none" THEN policy["agent"]
  ELSE IF policy["general"] # "none" THEN policy["general"] ELSE "on"

\* set_memory_policy: upsert of one row.
set_memory_policy(row, value) ==
  /\ policy[row] # value
  /\ policy' = [policy EXCEPT ![row] = value] /\ edits' = edits + 1
  /\ UNCHANGED <<limit, state, active, creating, recording, snapshots, audits, cursor, waits>>

\* The two handlers that set a policy: the user's own, an administrator's.
update_memory_policy(row, value) == set_memory_policy(row, value)
admin_set_memory_policy(value) == set_memory_policy("general", value)

\* create_memory_record (route) up to its policy read; a disabled policy ends
\* it with an audit row that names the user.
read_policy(r) ==
  /\ creating = {} /\ state[r] = "none" /\ Ws(r) \in active /\ Effective = "on"
  /\ creating' = {r}
  /\ UNCHANGED <<limit, policy, state, active, recording, snapshots, audits, cursor, waits, edits>>

\* create_memory_record: the row of the session's scope, which expires after
\* the retention of the policy that was read.
insert_record ==
  /\ creating # {}
  /\ state' = [r \in Records |-> IF r \in creating THEN "active" ELSE state[r]]
  /\ creating' = {}
  /\ UNCHANGED <<limit, policy, active, recording, snapshots, audits, cursor, waits, edits>>

Moved(S, to) == state' = [r \in Records |-> IF r \in S THEN to ELSE state[r]]

\* Days pass: expires_at is reached, in order within a workspace, and the
\* grace of a deleted row ends.
pass_time(r) ==
  /\ \/ /\ state[r] = "active" /\ Moved({r}, "expired")
        /\ \A x \in In("active") : Ws(x) = Ws(r) => r[2] <= x[2]
     \/ state[r] = "deleted" /\ Moved({r}, "ripe")
  /\ UNCHANGED <<limit, policy, active, creating, recording, snapshots, audits, cursor, waits, edits>>

DeletedQuietly(r) == {}

\* The audit row of a deletion names the record.
DeletedAudit(r) == {r}

\* The update of one active row, expired or not (it waits for a lock).
DeleteRow(r) == r \in Searchable \ recording /\ Moved({r}, "deleted")

\* delete_memory_record of the owner and admin_delete_memory_record.
delete_memory_record(r) ==
  /\ DeleteRow(r) /\ audits' = audits \cup DeletedAudit(r)
  /\ UNCHANGED <<limit, policy, active, creating, recording, snapshots, cursor, waits, edits>>

LockableAny == In("expired")

\* for update skip locked
Lockable == In("expired") \ recording

\* In the order of expires_at, created_at and id.
Earlier(x, r) == x[2] < r[2] \/ (x[2] = r[2] /\ x[1] < r[1])
First(n, S) == {r \in S : Cardinality({x \in S : Earlier(x, r)}) < n}

\* cleanup_expired_memory_records of one workspace.
ExpiredOf(w) == First(limit, {r \in Lockable : Ws(r) = w})

\* The administrator's clean-up; its audit row names the workspace.
admin_cleanup_memory(w) ==
  /\ ExpiredOf(w) # {}
  /\ Moved(ExpiredOf(w), "deleted")
  /\ UNCHANGED <<limit, policy, active, creating, recording, snapshots, audits, cursor, waits, edits>>

Lowest(n, S) == {x \in S : Cardinality({y \in S : y < x}) < n}

\* _list_expired_memory_cleanup_scopes: workspaces with an expired row, locked
\* or not, after one and up to another.
ScopesWithin(from, to) ==
  {w \in Workspaces : from < w /\ w <= to /\ \E r \in In("expired") : Ws(r) = w}

\* The page after the cursor and, where it leaves room, the one that wraps.
After == Lowest(limit, ScopesWithin(cursor, Cardinality(Workspaces)))
Wrapped == Lowest(limit - Cardinality(After), ScopesWithin(0, cursor))
Scopes == After \cup Wrapped

NextCursorKept == cursor

\* The last scope listed: after a wrap the highest of the second page.
NextCursor == IF Wrapped # {} THEN Max(Wrapped) ELSE Max(After)

\* The limit shared out, rounded up.
PerScope == Max({1, (limit + Cardinality(Scopes) - 1) \div Cardinality(Scopes)})

InScope(w) == First(PerScope, {r \in Lockable : Ws(r) = w})
Candidates == UNION {InScope(w) : w \in Scopes}
\* Every scope's first row comes before any scope's second.
Heads == {r \in Candidates : First(1, InScope(Ws(r))) = {r}}

Selected == First(limit, Heads) \cup First(limit - Min({limit, Cardinality(Heads)}), Candidates \ Heads)

\* cleanup_expired_memory_records_for_worker: the rows across scopes, and an
\* audit row per workspace.
cleanup_for_worker ==
  /\ In("expired") # {}
  /\ Moved(Selected, "deleted")
  /\ cursor' = NextCursor
  /\ waits' = [w \in Workspaces |->
                 IF /\ \E r \in In("expired") \ recording : Ws(r) = w
                    /\ ~\E r \in Selected : Ws(r) = w
                 THEN waits[w] + 1 ELSE 0]
  /\ UNCHANGED <<limit, policy, active, creating, recording, snapshots, audits, edits>>

\* create_context_snapshot locks the active, unexpired rows it includes ...
lock_members(r) ==
  /\ recording = {} /\ r \in Listed \ snapshots
  /\ recording' = {r}
  /\ UNCHANGED <<limit, policy, state, active, creating, snapshots, audits, cursor, waits, edits>>

\* ... until its transaction commits or rolls back.
end_snapshot(committed) ==
  /\ recording # {}
  /\ snapshots' = IF committed THEN snapshots \cup recording ELSE snapshots
  /\ recording' = {}
  /\ UNCHANGED <<limit, policy, state, active, creating, audits, cursor, waits, edits>>

delete_session(w) ==
  /\ w \in active /\ active' = active \ {w}
  /\ UNCHANGED <<limit, policy, state, creating, recording, snapshots, audits, cursor, waits, edits>>

PurgeableInSnapshot(r) == state[r] = "ripe" /\ Ws(r) \notin active /\ r \notin audits

\* purge_deleted_memory_records: grace over, session ended, named by no
\* snapshot and no audit row.
Purgeable(r) ==
  /\ state[r] = "ripe" /\ Ws(r) \notin active
  /\ r \notin snapshots /\ r \notin audits

\* run_data_retention_maintenance's memory part.
purge ==
  /\ \E r \in Records : Purgeable(r)
  /\ Moved({r \in Records : Purgeable(r)}, "purged")
  /\ UNCHANGED <<limit, policy, active, creating, recording, snapshots, audits, cursor, waits, edits>>

Next ==
  \/ insert_record \/ cleanup_for_worker \/ purge
  \/ edits < MaxEdits /\ \E v \in {"off", "on"} :
                             \/ admin_set_memory_policy(v)
                             \/ \E row \in {"agent", "general"} : update_memory_policy(row, v)
  \/ \E w \in Workspaces : admin_cleanup_memory(w) \/ delete_session(w)
  \/ \E r \in Records : read_policy(r) \/ pass_time(r) \/ delete_memory_record(r) \/ lock_members(r)
  \/ \E c \in BOOLEAN : end_snapshot(c)

Spec == Init /\ [][Next]_vars

-----------------------------------------------------------------------------
\* What a snapshot or an audit row names is still there: a purge may not take
\* the row of a record whose inclusion another transaction is committing, nor
\* one whose deletion is on record (purge_deleted_memory_records).
NothingDangles == \A r \in In("purged") : r \notin snapshots \cup audits \cup recording

\* The clean-up of a few rows at a time starves no workspace: one that has an
\* expired row nobody holds, which runs of its session can still find, is
\* served within one round of the workspaces however many rows the others add.
ServedWithinARound == \A w \in Workspaces : waits[w] * limit < Cardinality(Workspaces)

\* A record is not deleted under the snapshot that is including it, a deleted
\* one never comes back, and a row disappears unaudited only by expiry.
MemoryStep ==
  \A r \in Records :
    /\ r \in recording /\ r \in recording' => state'[r] \in {state[r], "expired"}
    /\ state[r] \in {"deleted", "ripe", "purged"} => state'[r] \in {"deleted", "ripe", "purged"}
    /\ state[r] = "active" /\ state'[r] = "deleted" => r \in audits'
=============================================================================
