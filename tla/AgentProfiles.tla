---------------------------- MODULE AgentProfiles ----------------------------
(***************************************************************************)
(* The lifecycle of one agent profile (app/agent_apps): administrators     *)
(* save, publish, withdraw and retire it under an advisory lock and a      *)
(* revision fence; conversations, runs and dispatches are admitted on the  *)
(* current publication under the lock of the profile's row.                *)
(*                                                                         *)
(* A call that is refused changes nothing and is not a step, except where  *)
(* its refusal is recorded.  `FOR UPDATE' re-evaluates the join after it   *)
(* waited, with the revision rows it had joined before: a publication that *)
(* was replaced meanwhile is "not available".                              *)
(***************************************************************************)
EXTENDS Naturals, Sequences

CONSTANTS Admins, Clients,
          Contents,      \* definitions of the profile, as their content hash
          MaxRevisions   \* bound: revisions

VARIABLES revision,   \* agent_profile_revisions: status, content, source
          profile,    \* agent_profiles: lifecycle status, latest, published, hash
          agent,      \* the status of the row of agents
          advisory,   \* who holds the advisory lock
          row,        \* who holds the lock of the row of agent_profiles
          admin,      \* per administrator: the call and the revisions last seen
          client,     \* per client: the call and the publication it joined
          session,    \* the revision the conversation of the operation is bound to
          reply,      \* the revision the client of that operation was told
          run         \* a run: the revision it is pinned to and its state

vars == <<revision, profile, agent, advisory, row, admin, client, session, reply, run>>

Nobody == "nobody"

Idle == [call |-> "idle", kind |-> "none", joined |-> 0]

Init ==
  /\ revision = <<>> /\ agent = "absent"
  /\ profile = [status |-> "none", latest |-> 0, published |-> 0, hash |-> "none"]
  /\ advisory = Nobody /\ row = Nobody
  /\ admin = [a \in Admins |-> [call |-> "idle", latest |-> 0, published |-> 0]]
  /\ client = [c \in Clients |-> Idle]
  /\ session = 0 /\ reply = 0
  /\ run = [state |-> "none", pin |-> 0]

authored == <<revision, profile, agent>>
used == <<session, reply, run>>

-----------------------------------------------------------------------------
(* What the queries return *)

RevisionRow(r, status) ==
  agent = "active" /\ r \in 1 .. Len(revision) /\ revision[r].status = status

(* The one publication the aggregate selects *)
CurrentPublished ==
  /\ profile.status = "published"
  /\ RevisionRow(profile.published, "published")
  /\ revision[profile.published].content = profile.hash

(* A publication a run is pinned to, while the agent is live *)
BoundPublished(r) == CurrentPublished /\ RevisionRow(r, "published")

Appended(status, content, source) ==
  Append(revision, [status |-> status, content |-> content, source |-> source])

(* The aggregate after the revision that is appended *)
AfterDraft ==
  [profile EXCEPT
    !.latest = Len(revision) + 1,
    !.status = IF @ = "withdrawn" THEN "withdrawn"
               ELSE IF profile.published = 0 THEN "draft" ELSE "published"]

AfterPublication(content) ==
  [status |-> "published", latest |-> Len(revision) + 1, published |-> Len(revision) + 1,
   hash |-> content]

AfterWithdrawal ==
  [status |-> "withdrawn", latest |-> Len(revision) + 1, published |-> 0, hash |-> "none"]

-----------------------------------------------------------------------------
(* Administrators: list_admin, then a call under the advisory lock *)

ListAdmin(a) ==
  /\ admin[a].call = "idle"
  /\ admin' = [admin EXCEPT ![a].latest = Len(revision), ![a].published = profile.published]
  /\ UNCHANGED <<authored, advisory, row, client, used>>

Begin(a, call) ==
  /\ admin[a].call = "idle" /\ advisory = Nobody
  /\ advisory' = a
  /\ admin' = [admin EXCEPT ![a].call = call]
  /\ UNCHANGED <<authored, client, used>>

(* ensure_agent_profile_identity creates the agent, or finds it active *)
Identity == agent # "inactive"

BeginSave(a) ==
  /\ Identity
  /\ admin[a].latest = Len(revision) /\ Len(revision) < MaxRevisions
  /\ Begin(a, "save") /\ UNCHANGED row

BeginPublishUnfenced(a) ==
  /\ RevisionRow(admin[a].latest, "draft") /\ Len(revision) < MaxRevisions
  /\ Begin(a, "publish") /\ UNCHANGED row

(* The draft, its integrity, its departments and capabilities, the fence *)
BeginPublish(a) ==
  /\ RevisionRow(admin[a].latest, "draft")
  /\ admin[a].latest = Len(revision) /\ Len(revision) < MaxRevisions
  /\ Begin(a, "publish") /\ UNCHANGED row

BeginUnpublish(a) ==
  /\ profile.status = "published" /\ admin[a].published = profile.published
  /\ RevisionRow(profile.published, "published") /\ Len(revision) < MaxRevisions
  /\ row = Nobody /\ row' = a
  /\ Begin(a, "unpublish")

BeginRetire(a) ==
  /\ profile.latest > 0 /\ admin[a].latest = profile.latest
  /\ profile.status \in {"draft", "withdrawn"}
  /\ agent = "active"
  /\ row = Nobody /\ row' = a
  /\ Begin(a, "retire")

(* validate_draft reads the aggregate for update and changes nothing *)
BeginValidate(a) ==
  /\ RevisionRow(admin[a].latest, "draft") /\ admin[a].latest = profile.latest
  /\ row = Nobody /\ row' = a
  /\ Begin(a, "validate")

(* The transaction ends and lets go of its locks *)
Ends(a, call) ==
  /\ admin[a].call = call
  /\ advisory' = Nobody
  /\ row \in {Nobody, a} /\ row' = Nobody
  /\ admin' = [admin EXCEPT ![a].call = "idle"]
  /\ UNCHANGED <<client, used>>

SaveDraft(a, content) ==
  /\ Ends(a, "save")
  /\ revision' = Appended("draft", content, Len(revision))
  /\ agent' = "active"
  /\ profile' = AfterDraft

PublishDraft(a) ==
  LET source == admin[a].latest
      content == revision[source].content
  IN
  /\ Ends(a, "publish")
  /\ revision' = Appended("published", content, source)
  /\ profile' = AfterPublication(content)
  /\ UNCHANGED agent

Unpublish(a) ==
  /\ Ends(a, "unpublish")
  /\ revision' = Appended("withdrawn", revision[profile.latest].content, profile.published)
  /\ profile' = AfterWithdrawal
  /\ UNCHANGED agent

Retire(a) ==
  /\ Ends(a, "retire")
  /\ agent' = "inactive"
  /\ UNCHANGED <<revision, profile>>

ValidateDraft(a) == Ends(a, "validate") /\ UNCHANGED authored

(* A later refusal, an exception or a lost connection: rollback *)
RollBack(a) ==
  /\ admin[a].call # "idle" /\ Ends(a, admin[a].call)
  /\ UNCHANGED authored

-----------------------------------------------------------------------------
(* Conversations, runs and dispatches *)

(* create_conversation looks for the session of the operation first *)
LookUp(c) ==
  /\ client[c].call = "idle"
  /\ IF session = 0
     THEN client' = [client EXCEPT ![c] = [call |-> "looked", kind |-> "converse", joined |-> 0]]
          /\ UNCHANGED reply
     ELSE reply' = session /\ UNCHANGED client
  /\ UNCHANGED <<authored, advisory, row, admin, session, run>>

(* get_current_published_agent_profile, get_bound_published_agent_profile:  *)
(* the join, before the row is locked                                       *)
Select(c, kind) ==
  /\ client[c].call = IF kind = "converse" THEN "looked" ELSE "idle"
  /\ kind = "submit" => run.state = "none"
  /\ kind = "dispatch" => run.state = "queued"
  /\ IF kind = "dispatch" THEN BoundPublished(run.pin) ELSE CurrentPublished
  /\ client' = [client EXCEPT
       ![c] = [call |-> "waiting", kind |-> kind, joined |-> profile.published]]
  /\ UNCHANGED <<authored, advisory, row, admin, used>>

(* A worker that finds no publication fails the run *)
DispatchDenied(c) ==
  /\ client[c].call = "idle" /\ run.state = "queued"
  /\ ~BoundPublished(run.pin)
  /\ run' = [run EXCEPT !.state = "denied"]
  /\ UNCHANGED <<authored, advisory, row, admin, client, session, reply>>

StillJoined(c) == profile.status = "published" /\ profile.published = client[c].joined

AcquireUnlocked(c) ==
  /\ client[c].call = "waiting" /\ row = Nobody /\ StillJoined(c)
  /\ client' = [client EXCEPT ![c].call = "admitted"]
  /\ UNCHANGED <<authored, advisory, row, admin, used>>

(* The row is locked until the transaction ends *)
Acquire(c) ==
  /\ client[c].call = "waiting" /\ row = Nobody /\ StillJoined(c)
  /\ row' = c
  /\ client' = [client EXCEPT ![c].call = "admitted"]
  /\ UNCHANGED <<authored, advisory, admin, used>>

(* The publication was replaced while the query waited for the row *)
JoinLost(c) ==
  /\ client[c].call = "waiting" /\ row = Nobody /\ ~StillJoined(c)
  /\ client' = [client EXCEPT ![c] = Idle]
  /\ run' = IF client[c].kind = "dispatch" THEN [run EXCEPT !.state = "denied"] ELSE run
  /\ UNCHANGED <<authored, advisory, row, admin, session, reply>>

Leaves(c) ==
  /\ row' = IF row = c THEN Nobody ELSE row
  /\ client' = [client EXCEPT ![c] = Idle]
  /\ UNCHANGED <<authored, advisory, admin>>

(* create_session inserts the session, or finds it bound to the same pins *)
CreateSession(r) == session \in {0, r} /\ session' = r

Converse(c) ==
  /\ client[c].call = "admitted" /\ client[c].kind = "converse"
  /\ CreateSession(client[c].joined)
  /\ reply' = client[c].joined
  /\ Leaves(c) /\ UNCHANGED run

Submit(c) ==
  /\ client[c].call = "admitted" /\ client[c].kind = "submit"
  /\ run.state = "none"
  /\ run' = [state |-> "queued", pin |-> client[c].joined]
  /\ Leaves(c) /\ UNCHANGED <<session, reply>>

Dispatch(c) ==
  /\ client[c].call = "admitted" /\ client[c].kind = "dispatch"
  /\ run.state = "queued"
  /\ run' = [run EXCEPT !.state = "dispatched"]
  /\ Leaves(c) /\ UNCHANGED <<session, reply>>

(* A conflict of the session, a refusal of a capability, a lost connection *)
GiveUp(c) ==
  /\ client[c].call # "idle"
  /\ Leaves(c) /\ UNCHANGED used

-----------------------------------------------------------------------------
Next ==
  \/ \E a \in Admins :
       \/ ListAdmin(a)
       \/ BeginSave(a) \/ BeginPublish(a) \/ BeginUnpublish(a) \/ BeginRetire(a)
       \/ BeginValidate(a)
       \/ \E content \in Contents : SaveDraft(a, content)
       \/ PublishDraft(a) \/ Unpublish(a) \/ Retire(a) \/ ValidateDraft(a)
       \/ RollBack(a)
  \/ \E c \in Clients :
       \/ LookUp(c)
       \/ \E kind \in {"converse", "submit", "dispatch"} : Select(c, kind)
       \/ DispatchDenied(c) \/ Acquire(c) \/ JoinLost(c)
       \/ Converse(c) \/ Submit(c) \/ Dispatch(c) \/ GiveUp(c)

Spec == Init /\ [][Next]_vars

-----------------------------------------------------------------------------
(* Revisions, pointers and locks name what exists. *)
TypeOK ==
  /\ \A r \in 1 .. Len(revision) : revision[r].status \in {"draft", "published", "withdrawn"}
  /\ profile.latest = Len(revision) /\ profile.published \in 0 .. Len(revision)
  /\ advisory \in Admins \cup {Nobody} /\ row \in Admins \cup Clients \cup {Nobody}

(* What is published is the content of the draft the administrator named,   *)
(* and nothing was saved between that draft and its publication             *)
(* (publish_draft); a retired agent has no publication (retire); and a      *)
(* repeated create_conversation reports the revision its session is bound   *)
(* to.                                                                      *)
PublicationIsReviewed ==
  /\ profile.published > 0 =>
       LET p == revision[profile.published] IN
       /\ p.status = "published" /\ p.content = profile.hash
       /\ p.source = profile.published - 1
       /\ revision[p.source].status = "draft" /\ revision[p.source].content = p.content
  /\ agent = "inactive" => profile.published = 0
  /\ reply # 0 => reply = session

(* A conversation and a run are bound to the publication in force at the    *)
(* moment they commit, and a run is dispatched only while its agent is      *)
(* published (resolve_for_admission, resolve_bound_for_worker_dispatch).    *)
AdmittedWhileLive ==
  /\ session' # session => CurrentPublished /\ session' = profile.published
  /\ run'.pin # run.pin => CurrentPublished /\ run'.pin = profile.published
  /\ run.state = "queued" /\ run'.state = "dispatched" => BoundPublished(run.pin)
=============================================================================
