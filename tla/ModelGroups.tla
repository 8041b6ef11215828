---------------------------- MODULE ModelGroups ----------------------------
(***************************************************************************)
(* The model control plane: one provider's catalog and its active gateway  *)
(* revision, the model groups with their models, default and members, the  *)
(* administrators who edit them from what they read earlier, the mapping   *)
(* migration, and the admission that pins a run to a model while it holds  *)
(* the catalog and the group policy locks shared.                          *)
(***************************************************************************)
EXTENDS Naturals, FiniteSets

CONSTANTS Groups, Default, Models, Users, None, MaxEdits

VARIABLES
    entries,    \* model_catalog_entries of the provider
    gateway,    \* the active model_gateway_revisions row, 0 when there is none
    retired,    \* model_providers.archived_at is set
    groups,     \* model_groups with their model_group_models
    member,     \* model_group_members: a user's one group, or None
    urev,       \* users.model_group_membership_revision
    run,        \* the run and the selection it is pinned to
    pending,    \* a selection resolved by an admission that has not committed
    seen,       \* what an administrator read some time ago
    lost,       \* an accepted edit replaced a policy its author had not seen
    edits       \* edits and publications so far

vars == <<entries, gateway, retired, groups, member, urev, run, pending, seen,
          lost, edits>>

AllGroups == Groups \cup {Default}

Listing == [Models -> {"no", "off", "on"}]

NoRun == [status |-> "none", model |-> None, group |-> None, scene |-> None]

TypeOK ==
    /\ entries \in [Models -> [enabled : BOOLEAN, available : BOOLEAN,
                               archived : BOOLEAN, last : 0 .. MaxEdits + 1]]
    /\ gateway \in 0 .. MaxEdits + 1
    /\ retired \in BOOLEAN
    /\ groups \in [AllGroups -> [exists : BOOLEAN, enabled : BOOLEAN, archived : BOOLEAN,
                                 rev : Nat, models : Listing, def : Models \cup {None}]]
    /\ member \in [Users -> Groups \cup {None}]
    /\ urev \in [Users -> Nat]
    /\ run.status \in {"none", "active", "succeeded", "failed"}
    /\ lost \in BOOLEAN
    /\ edits \in 0 .. MaxEdits

EnabledOf(ms) == {m \in Models : ms[m] = "on"}

Members(g) == {u \in Users : member[u] = g}

(***************************************************************************)
(* The projections an administrator edits from. A group is read with its   *)
(* revision, a user with the membership revision, the catalog with the     *)
(* active gateway revision.                                                *)
(***************************************************************************)
GroupContent(g) ==
    [enabled |-> groups[g].enabled, models |-> groups[g].models,
     def |-> groups[g].def, members |-> Members(g)]

CatalogContent == [m \in Models |-> entries[m].available /\ entries[m].enabled]

Reading ==
    [group  |-> [g \in AllGroups |-> GroupContent(g)],
     rev    |-> [g \in AllGroups |-> groups[g].rev],
     member |-> member, urev |-> urev,
     catalog |-> CatalogContent, gateway |-> gateway]

\* An administrator submits what was just read, or what was read earlier.
Bases == {Reading, seen}

Edit == edits' = edits + 1

(***************************************************************************)
(* Locks. An admission holds both advisory locks shared from its selection *)
(* to its commit; every edit takes the one it needs exclusively.           *)
(***************************************************************************)
GroupLockFreeAlways == TRUE

\* pg_advisory_xact_lock(GROUP_LOCK_KEY) against the shared lock of
\* _effective_group.
GroupLockFree == pending = NoRun

\* pg_advisory_xact_lock(CONNECTION_LOCK_KEY) against the shared lock of
\* resolve_run_model.
ConnectionLockFree == pending = NoRun

RunActive == run.status = "active"

NotArchived(g) == groups[g].exists /\ ~groups[g].archived

(***************************************************************************)
(* Groups.                                                                 *)
(***************************************************************************)
EmptyListing == [m \in Models |-> "no"]

NewGroup == [exists |-> TRUE, enabled |-> TRUE, archived |-> FALSE, rev |-> 1,
             models |-> EmptyListing, def |-> None]

create_group(g) ==
    /\ GroupLockFree
    /\ ~groups[g].exists
    /\ Edit
    /\ groups' = [groups EXCEPT ![g] = NewGroup]
    /\ UNCHANGED <<entries, gateway, retired, member, urev, run, pending, seen, lost>>

SameRevisionAny(base, g) == TRUE

\* The optimistic check every group edit makes under the lock.
SameRevision(base, g) == base.rev[g] = groups[g].rev

Unseen(base, gs) == \E g \in gs : base.group[g] # GroupContent(g)

update_group(g, base) ==
    /\ GroupLockFree
    /\ NotArchived(g)
    /\ SameRevision(base, g)
    /\ Edit
    /\ groups' = [groups EXCEPT ![g].enabled = ~@, ![g].rev = @ + 1]
    /\ lost' = (lost \/ Unseen(base, {g}))
    /\ UNCHANGED <<entries, gateway, retired, member, urev, run, pending, seen>>

First(ms) == CHOOSE m \in EnabledOf(ms) : TRUE

ChosenDefault(g, ms, d) ==
    IF d # None THEN d
    ELSE IF groups[g].def \in EnabledOf(ms) THEN groups[g].def
    ELSE IF EnabledOf(ms) = {} THEN None
    ELSE First(ms)

Listable(ms) == \A m \in Models : ms[m] # "no" => ~entries[m].archived

set_group_models(g, ms, d, base) ==
    LET def == ChosenDefault(g, ms, d)
    IN  /\ GroupLockFree
        /\ NotArchived(g)
        /\ SameRevision(base, g)
        /\ def # None => def \in EnabledOf(ms)
        /\ <<ms, def>> # <<groups[g].models, groups[g].def>>
        /\ ms = groups[g].models \/ Listable(ms)
        /\ Edit
        /\ groups' = [groups EXCEPT ![g].models = ms, ![g].def = def, ![g].rev = @ + 1]
        /\ lost' = (lost \/ Unseen(base, {g}))
        /\ UNCHANGED <<entries, gateway, retired, member, urev, run, pending, seen>>

Listing1(g, m) == groups[g].models[m] # "no"

\* batch_group_models: the groups a replacement takes the models from.
ExistingGroups(ms) == {g \in AllGroups : NotArchived(g) /\ \E m \in ms : Listing1(g, m)}

Desired(g, gs, ms, op) ==
    LET old == groups[g].models
        adds == op = "add" \/ (op = "replace" /\ g \in gs)
        hit(m) == m \in ms /\ (g \in gs \/ op = "replace")
    IN  [m \in Models |-> IF ~hit(m) THEN old[m]
                          ELSE IF ~adds THEN "no"
                          ELSE IF old[m] = "no" THEN "on" ELSE old[m]]

BatchDefaultKept(g, ms) ==
    IF groups[g].def = None /\ EnabledOf(ms) # {} THEN First(ms) ELSE groups[g].def

\* The default after a batch: kept while it is listed, chosen when the group
\* had nothing enabled.
BatchDefault(g, ms) ==
    IF groups[g].def = None /\ EnabledOf(groups[g].models) = {} /\ EnabledOf(ms) # {}
    THEN First(ms)
    ELSE IF groups[g].def # None /\ ms[groups[g].def] # "no" THEN groups[g].def
    ELSE None

DefaultKept(g, ms) ==
    groups[g].def # None => (ms = EmptyListing \/ ms[groups[g].def] # "no")

batch_group_models(gs, ms, op, base) ==
    LET existing == IF op = "replace" THEN ExistingGroups(ms) ELSE {}
        all == gs \cup existing
        new(g) == Desired(g, gs, ms, op)
        changed == {g \in all : new(g) # groups[g].models}
    IN  /\ GroupLockFree
        /\ ~(RunActive /\ run.group \in existing /\ run.model \in ms)
        /\ \A g \in all : /\ NotArchived(g) /\ groups[g].enabled
                          /\ SameRevision(base, g)
                          /\ DefaultKept(g, new(g))
        /\ \A m \in ms : ~entries[m].archived
        /\ changed # {}
        /\ Edit
        /\ groups' = [g \in AllGroups |->
                        IF g \in changed
                        THEN [groups[g] EXCEPT !.models = new(g), !.def = BatchDefault(g, new(g)),
                                               !.rev = @ + 1]
                        ELSE groups[g]]
        /\ lost' = (lost \/ Unseen(base, all))
        /\ UNCHANGED <<entries, gateway, retired, member, urev, run, pending, seen>>

(***************************************************************************)
(* Members.                                                                *)
(***************************************************************************)
Touched(f, g) == {u \in Users : f[u] # member[u] /\ g \in {f[u], member[u]}}

BumpedUrev(f) == [u \in Users |-> IF f[u] # member[u] THEN urev[u] + 1 ELSE urev[u]]

\* set_user_group_memberships admits a user to a live group, or keeps a user
\* in a disabled one.
Joinable(f, u) ==
    f[u] \notin {None, member[u]} => NotArchived(f[u]) /\ groups[f[u]].enabled

MoveMembers(f) ==
    /\ \A u \in Users : Joinable(f, u)
    /\ f # member
    /\ member' = f
    /\ urev' = BumpedUrev(f)
    /\ groups' = [g \in AllGroups |->
                    [groups[g] EXCEPT !.rev = @ + Cardinality(Touched(f, g))]]

set_users_group_memberships_batch(f, base) ==
    LET moved == {u \in Users : f[u] # member[u]}
    IN  /\ GroupLockFree
        /\ \A u \in moved : base.urev[u] = urev[u]
        /\ Edit
        /\ MoveMembers(f)
        /\ lost' = (lost \/ \E u \in moved : base.member[u] # member[u])
        /\ UNCHANGED <<entries, gateway, retired, run, pending, seen>>

set_group_members(g, us, base) ==
    LET f == [u \in Users |-> IF u \in us THEN g
                              ELSE IF member[u] = g THEN None ELSE member[u]]
    IN  /\ GroupLockFree
        /\ NotArchived(g)
        /\ SameRevision(base, g)
        /\ ~groups[g].enabled => us \subseteq Members(g)
        /\ Edit
        /\ MoveMembers(f)
        /\ lost' = (lost \/ Unseen(base, {g}))
        /\ UNCHANGED <<entries, gateway, retired, run, pending, seen>>

ArchivedQuietly(g, target) ==
    [groups EXCEPT ![g] = [@ EXCEPT !.enabled = FALSE, !.archived = TRUE, !.def = None,
                                    !.models = EmptyListing, !.rev = @ + 1]]

\* The group rows after an archive: the target of its members gets a new
\* revision too.
ArchivedInto(g, target) ==
    [h \in AllGroups |->
        CASE h = g -> [groups[h] EXCEPT !.enabled = FALSE, !.archived = TRUE, !.def = None,
                                        !.models = EmptyListing, !.rev = @ + 1]
          [] h = target /\ Members(g) # {} -> [groups[h] EXCEPT !.rev = @ + 1]
          [] OTHER -> groups[h]]

archive_or_delete_group(g, target, base) ==
    LET f == [u \in Users |-> IF member[u] = g THEN target ELSE member[u]]
    IN  /\ GroupLockFree
        /\ NotArchived(g)
        /\ SameRevision(base, g)
        /\ ~(RunActive /\ run.group = g)
        /\ target # None => /\ target # g /\ NotArchived(target) /\ groups[target].enabled
                            /\ SameRevision(base, target)
        /\ Edit
        /\ member' = f
        /\ urev' = BumpedUrev(f)
        /\ groups' = ArchivedInto(g, target)
        /\ lost' = (lost \/ Unseen(base, {g, target} \ {None}))
        /\ UNCHANGED <<entries, gateway, retired, run, pending, seen>>
(***************************************************************************)
(* tools/model_group_migration.py: a mapping confirmed against a preview.  *)
(***************************************************************************)
MigratedDefault(g, ms) ==
    IF groups[g].def # None /\ ms[groups[g].def] = "no" THEN None
    ELSE IF groups[g].def = None /\ EnabledOf(groups[g].models) = {} /\ EnabledOf(ms) # {}
    THEN First(ms)
    ELSE groups[g].def

\* _prepare refuses a mapping that would leave the group's default unlisted
\* beside other models, or listed and disabled.
DefaultSurvives(g, ms) ==
    groups[g].def # None => (ms = EmptyListing \/ ms[groups[g].def] = "on")

PreviewHolds(base) ==
    /\ base.rev = [g \in AllGroups |-> groups[g].rev]
    /\ base.urev = urev
    /\ base.gateway = gateway
    /\ base.catalog = CatalogContent

\* _prepare, under both locks: no active run, live groups, known models.
Prepared(g, ms, f) ==
    /\ GroupLockFree /\ ConnectionLockFree
    /\ ~RunActive
    /\ groups[g].exists => groups[g].enabled
    /\ ~groups[g].archived
    /\ Listable(ms)
    /\ DefaultSurvives(g, ms)
    /\ \A u \in Users : (f[u] = g /\ ~groups[g].exists) \/ Joinable(f, u)

\* A mapping names a group with all its models and gives every user at most
\* one group.
Mappings == [group : AllGroups, models : Listing, members : [Users -> Groups \cup {None}]]

apply_mapping(mapping, base) ==
    LET g == mapping.group
        ms == mapping.models
        f == mapping.members
        changed == (IF ms # groups[g].models THEN {g} ELSE {})
                     \cup {h \in Groups : Touched(f, h) # {}}
        start(h) == IF h = g /\ ~groups[g].exists THEN NewGroup ELSE groups[h]
    IN  /\ Prepared(g, ms, f)
        /\ PreviewHolds(base)
        /\ changed # {}
        /\ Edit
        /\ groups' = [h \in AllGroups |->
                        [start(h) EXCEPT
                           !.models = IF h = g THEN ms ELSE @,
                           !.def = IF h = g THEN MigratedDefault(g, ms) ELSE @,
                           !.rev = IF h \in changed THEN @ + 1 ELSE @]]
        /\ member' = f
        /\ urev' = BumpedUrev(f)
        /\ lost' = (lost \/ Unseen(base, AllGroups) \/ base.member # member)
        /\ UNCHANGED <<entries, gateway, retired, run, pending, seen>>

(***************************************************************************)
(* The catalog.                                                            *)
(***************************************************************************)
\* activate_connection_and_sync and publish_models: every entry of the
\* provider is made unavailable and disabled, the discovered ones come back.
Synced(found, on) ==
    [m \in Models |->
        IF m \in found
        THEN [enabled |-> m \in on, available |-> TRUE, archived |-> FALSE,
              last |-> gateway + 1]
        ELSE [entries[m] EXCEPT !.enabled = FALSE, !.available = FALSE]]

\* ModelControlPlaneService.publish: the request must list exactly what the
\* endpoint offers at that moment, and chooses which of it is enabled.
Publications == {p \in (SUBSET Models) \X (SUBSET Models) : p[1] # {} /\ p[2] \subseteq p[1]}

publish_models(found, on, base) ==
    /\ ConnectionLockFree
    /\ ~retired
    /\ base.gateway = gateway
    /\ Edit
    /\ entries' = Synced(found, on)
    /\ gateway' = gateway + 1
    /\ lost' = (lost \/ base.catalog # CatalogContent)
    /\ UNCHANGED <<retired, groups, member, urev, run, pending, seen>>

InGroups(m) == \E g \in AllGroups : groups[g].def = m \/ Listing1(g, m)

BlockedByGroups(m) == InGroups(m)

\* provider_impact: a model some group lists or some active run is pinned to.
Blocked(m) == InGroups(m) \/ (RunActive /\ run.model = m)

Archive(ms) ==
    [m \in Models |-> IF m \in ms
                      THEN [entries[m] EXCEPT !.enabled = FALSE, !.available = FALSE,
                                              !.archived = TRUE]
                      ELSE entries[m]]

retire_missing(base) ==
    LET missing == {m \in Models : ~entries[m].archived /\ ~entries[m].available}
        free == {m \in missing : ~Blocked(m)}
    IN  /\ ConnectionLockFree /\ GroupLockFree
        /\ ~retired
        /\ base.gateway = gateway
        /\ free # {}
        /\ Edit
        /\ entries' = Archive(free)
        /\ UNCHANGED <<gateway, retired, groups, member, urev, run, pending, seen, lost>>

retire_provider(base) ==
    /\ ConnectionLockFree /\ GroupLockFree
    /\ ~retired
    /\ base.gateway = gateway
    /\ ~RunActive
    /\ \A m \in Models : ~entries[m].archived => ~InGroups(m)
    /\ Edit
    /\ entries' = Archive(Models)
    /\ gateway' = 0
    /\ retired' = TRUE
    /\ UNCHANGED <<groups, member, urev, run, pending, seen, lost>>

(***************************************************************************)
(* Admission and the run.                                                  *)
(***************************************************************************)
EffectiveGroup(u) == IF member[u] = None THEN Default ELSE member[u]

\* _effective_group accepts no other group than the user's own.
GroupServes(g, scene) ==
    /\ groups[g].enabled /\ ~groups[g].archived
    /\ ~(g = Default /\ scene = "chat")

Available(g) ==
    {m \in Models : /\ groups[g].models[m] = "on"
                    /\ entries[m].enabled /\ entries[m].available /\ ~entries[m].archived
                    /\ ~retired /\ entries[m].last = gateway}

\* The availability list_groups_for_user shows, from its own query.
Availability(g) ==
    IF ~groups[g].enabled THEN "group_disabled"
    ELSE IF g = Default THEN "default_not_for_chat"
    ELSE IF EnabledOf(groups[g].models) = {} THEN "group_has_no_models"
    ELSE IF \E m \in EnabledOf(groups[g].models) :
              entries[m].enabled /\ entries[m].available /\ ~entries[m].archived
              /\ entries[m].last = gateway
    THEN "available" ELSE "group_models_unavailable"

\* resolve_run_model: an explicit model, or the group's default. The scene
\* tells runs apart in the default group only.
resolve_run_model(u, scene, m) ==
    LET g == EffectiveGroup(u)
        chosen == IF m = None THEN groups[g].def ELSE m
    IN  /\ pending = NoRun /\ ~RunActive
        /\ GroupServes(g, scene)
        /\ chosen \in Available(g)
        /\ pending' = [status |-> "active", model |-> chosen, group |-> g,
                       scene |-> IF g = Default THEN scene ELSE None]
        /\ UNCHANGED <<entries, gateway, retired, groups, member, urev, run, seen, lost, edits>>

\* Scenes of trusted_usage_scene that a selection tells apart.
Scenes == {"chat", "expert", "skill"}

\* reauthorize_model: a derived run asks for its parent's model in its
\* parent's group.
reauthorize_model(u) ==
    /\ run.status \in {"succeeded", "failed"}
    /\ run.group = EffectiveGroup(u)
    /\ resolve_run_model(u, IF run.scene = None THEN "chat" ELSE run.scene, run.model)

bind_selected_run_model ==
    /\ pending # NoRun
    /\ run' = pending
    /\ pending' = NoRun
    /\ UNCHANGED <<entries, gateway, retired, groups, member, urev, seen, lost, edits>>

AdmissionFails ==
    /\ pending # NoRun
    /\ pending' = NoRun
    /\ UNCHANGED <<entries, gateway, retired, groups, member, urev, run, seen, lost, edits>>

RunEnds ==
    /\ RunActive
    /\ \E status \in {"succeeded", "failed"} : run' = [run EXCEPT !.status = status]
    /\ UNCHANGED <<entries, gateway, retired, groups, member, urev, pending, seen, lost, edits>>

\* get_run_model_completion_connection: whether a settled run's own model may
\* still complete its follow-up suggestions.
CompletionAllowed ==
    /\ run.status = "succeeded"
    /\ run.group # Default \/ run.scene = "expert"
    /\ entries[run.model].enabled /\ entries[run.model].available
    /\ ~entries[run.model].archived

(***************************************************************************)
(* The platform starts with a published catalog that may miss a model, a   *)
(* group that lists the models, another that is empty or not created yet,  *)
(* the default group, and no run or one admitted earlier.                  *)
(***************************************************************************)
Init ==
    LET first == CHOOSE g \in Groups : TRUE
        main == CHOOSE m \in Models : TRUE
    IN  /\ \E missing \in {{}, Models \ {main}} :
             entries = [m \in Models |-> [enabled |-> m \notin missing,
                                          available |-> m \notin missing,
                                          archived |-> FALSE, last |-> 1]]
        /\ \E second \in BOOLEAN :
             groups = [g \in AllGroups |->
                CASE g = first -> [NewGroup EXCEPT !.models = [m \in Models |-> "on"],
                                                   !.def = main]
                  [] g = Default -> NewGroup
                  [] OTHER -> [NewGroup EXCEPT !.exists = second, !.enabled = second,
                                               !.rev = IF second THEN @ ELSE 0]]
        /\ member = [u \in Users |-> first]
        /\ run \in {NoRun} \cup [status : {"active"}, model : Models \ {main}, group : {first},
                                 scene : {None}]
        /\ gateway = 1 /\ retired = FALSE
        /\ urev = [u \in Users |-> 0]
        /\ pending = NoRun
        /\ seen = Reading
        /\ lost = FALSE /\ edits = 0

Next ==
    \/ edits < MaxEdits /\ \E g \in Groups : create_group(g)
    \/ /\ edits < MaxEdits
       /\ \E base \in Bases :
            \/ \E g \in Groups : update_group(g, base)
            \/ \E g \in AllGroups, ms \in Listing, d \in Models \cup {None} :
                 set_group_models(g, ms, d, base)
            \/ \E gs \in SUBSET AllGroups \ {{}}, ms \in SUBSET Models \ {{}},
                  op \in {"add", "remove", "replace"} : batch_group_models(gs, ms, op, base)
            \/ \E f \in [Users -> Groups \cup {None}] : set_users_group_memberships_batch(f, base)
            \/ \E g \in Groups, us \in SUBSET Users : set_group_members(g, us, base)
            \/ \E g \in Groups, target \in Groups \cup {None} :
                 archive_or_delete_group(g, target, base)
            \/ \E mapping \in Mappings : apply_mapping(mapping, base)
            \/ \E p \in Publications : publish_models(p[1], p[2], base)
            \/ retire_missing(base)
            \/ retire_provider(base)
    \/ \E u \in Users, scene \in Scenes, m \in Models \cup {None} :
         resolve_run_model(u, scene, m)
    \/ \E u \in Users : reauthorize_model(u)
    \/ bind_selected_run_model
    \/ AdmissionFails
    \/ RunEnds

Spec == Init /\ [][Next]_vars

(***************************************************************************)
(* Properties.                                                             *)
(***************************************************************************)
\* However batches, archives, migrations and catalog clean-ups follow each
\* other, a group has a default exactly when it lists an enabled model, and
\* the default is one of them (set_group_models, batch_group_models,
\* apply_mapping); an archived group keeps no model, member or default; and
\* no group lists a model the catalog has archived (retire_provider).
GroupsAreConsistent ==
    \A g \in AllGroups :
        /\ (groups[g].def = None) <=> (EnabledOf(groups[g].models) = {})
        /\ groups[g].def # None => groups[g].def \in EnabledOf(groups[g].models)
        /\ groups[g].archived => /\ Members(g) = {} /\ ~groups[g].enabled
                                 /\ groups[g].models = EmptyListing
        /\ Listable(groups[g].models)

\* A run in progress is pinned to a model, a gateway and a group that nobody
\* retires under it (provider_impact and archive_or_delete_group count the
\* active runs, admissions hold the locks until they commit), an entry on
\* offer was seen at the active gateway revision, and a settled run's model
\* completes suggestions only through a provider that is not retired.
RunsKeepTheirModel ==
    /\ RunActive => /\ ~retired /\ gateway # 0
                    /\ ~entries[run.model].archived
                    /\ NotArchived(run.group)
    /\ \A m \in Models : entries[m].available => entries[m].last = gateway /\ ~entries[m].archived
    /\ CompletionAllowed => ~retired

\* What the picker shows is what admission does: a user's group is shown as
\* available exactly when a chat run of the user finds a model in it, although
\* list_groups_for_user and resolve_group_model join different tables.
PickerIsTrue ==
    \A u \in Users :
        LET g == EffectiveGroup(u)
        IN  Availability(g) = "available" <=> (GroupServes(g, "chat") /\ Available(g) # {})

\* An accepted edit was made from the policy it replaced: every change of a
\* group, of a membership or of the offered catalog moves the revision that
\* the next edit of it must name.
EditsSawPolicy == ~lost

\* Archived groups and a retired provider stay so, and no revision runs
\* backwards.
PolicyStep ==
    /\ retired => retired'
    /\ \A g \in AllGroups : /\ groups[g].archived => groups'[g].archived
                            /\ groups'[g].rev >= groups[g].rev
                            /\ GroupContent(g) # GroupContent(g)' => groups'[g].rev > groups[g].rev
    /\ \A u \in Users : member[u] # member'[u] => urev'[u] > urev[u]

=============================================================================
