---------------------------- MODULE SkillCatalog ----------------------------
(***************************************************************************)
(* The Skill set of one run, from its admission to the files an executor    *)
(* stages.  Admission walks the declared dependencies of the run's root     *)
(* Skills, a level per query, against a catalog that administrators keep    *)
(* changing, and pins one version of every Skill it meets.  Dispatch        *)
(* validates the pins, authorises them against the catalog of that moment   *)
(* and hands the executor a bounded catalog with the packages to stage; the *)
(* executor checks that hand-over again before it stages anything.          *)
(***************************************************************************)
EXTENDS Integers, FiniteSets, Sequences, SequencesExt

CONSTANTS Skills,
          Edges,         \* dependencies a version of a Skill may declare
          Republished,   \* the Skill whose second version may be released
          MaxManifests,  \* MAX_SKILL_RUN_MANIFESTS
          MaxEntries,    \* MAX_AUTHORIZED_SKILL_CATALOG_ENTRIES
          MaxChanges     \* bound on the administrators' changes

VARIABLES deps,     \* dependency_ids of each version of each Skill
          current,  \* the version this user's release track selects
          usable,   \* Skills distributed to this user and runnable
          roots,    \* the agent profile's Skill set, or the selected Skill
          selected, \* the Skill the run is routed to
          fixed,    \* the run has a profile's fixed Skill set
          pc,
          pins,     \* version pinned for each Skill, 0 for none
          catalog,  \* the worker's authorized catalog for the executor
          staged,   \* version staged for each Skill, 0 for none
          changes

vars == <<deps, current, usable, roots, selected, fixed, pc, pins, catalog, staged, changes>>
run == <<deps, roots, selected, fixed>>
world == <<current, usable, changes>>

NoPins == [s \in Skills |-> 0]
NoCatalog == [entries |-> {}, order |-> << >>, version |-> NoPins]

Pinned == {s \in Skills : pins[s] # 0}

(* Dependencies of the pinned version, else of the one the catalog shows.   *)
DepsNow(s) == deps[s][IF pins[s] # 0 THEN pins[s] ELSE current[s]]

RECURSIVE Closure(_, _)
Closure(S, d) ==
    LET T == S \cup UNION {d[s] : s \in S}
    IN IF T = S THEN S ELSE Closure(T, d)

PinnedDeps == [s \in Skills |-> IF pins[s] = 0 THEN {} ELSE deps[s][pins[s]]]

(* _validate_acyclic_complete_graph.                                        *)
Acyclic(S) == \A s \in S : /\ PinnedDeps[s] \subseteq S
                           /\ s \notin Closure(PinnedDeps[s], PinnedDeps)

-----------------------------------------------------------------------------
(* Administrators: a new version is released, a binding withdrawn or given. *)

Change(A) ==
    /\ changes < MaxChanges
    /\ pc \notin {"refused", "mismatch", "staged"}
    /\ A
    /\ changes' = changes + 1
    /\ UNCHANGED <<run, pc, pins, catalog, staged>>

Publish ==
    Change(/\ current[Republished] = 1
           /\ current' = [current EXCEPT ![Republished] = 2]
           /\ UNCHANGED usable)

Distribute(s) ==
    Change(/\ usable' = IF s \in usable THEN usable \ {s} ELSE usable \cup {s}
           /\ UNCHANGED current)

-----------------------------------------------------------------------------
(* Admission.                                                               *)

(* The roots' own versions, loaded exactly.                                 *)
AdmitRoots ==
    /\ pc = "new"
    /\ IF roots \subseteq usable /\ Cardinality(roots) <= MaxManifests
       THEN /\ pins' = [s \in Skills |-> IF s \in roots THEN current[s] ELSE 0]
            /\ pc' = "walking"
       ELSE pc' = "refused" /\ UNCHANGED pins
    /\ UNCHANGED <<run, world, catalog, staged>>

Frontier == UNION {PinnedDeps[s] : s \in Pinned} \ Pinned

(* is_current_skill_dependency_usable.                                      *)
DependencyUsable(s) == s \in usable

(* One level of dependencies: one query of the catalog, then the version    *)
(* each row shows.                                                          *)
AdmitFrontier ==
    /\ pc = "walking"
    /\ Frontier # {}
    /\ IF /\ Cardinality(Pinned) + Cardinality(Frontier) <= MaxManifests
          /\ \A s \in Frontier : DependencyUsable(s)
       THEN /\ pins' = [s \in Skills |-> IF s \in Frontier THEN current[s] ELSE pins[s]]
            /\ UNCHANGED pc
       ELSE pc' = "refused" /\ pins' = NoPins
    /\ UNCHANGED <<run, world, catalog, staged>>

(* The graph is checked and the run committed with its snapshot rows.       *)
AdmitCommit ==
    /\ pc = "walking"
    /\ Frontier = {}
    /\ IF Acyclic(Pinned) THEN pc' = "admitted" /\ UNCHANGED pins
       ELSE pc' = "refused" /\ pins' = NoPins
    /\ UNCHANGED <<run, world, catalog, staged>>

-----------------------------------------------------------------------------
(* Dispatch.                                                                *)

(* _build_replay_skill_manifest_plan: the pins are exactly what the         *)
(* requested roots reach, without a cycle.                                  *)
Replayable == /\ roots \subseteq Pinned
              /\ Closure(roots, PinnedDeps) = Pinned
              /\ Acyclic(Pinned)

Replay ==
    /\ pc = "admitted"
    /\ pc' = IF Replayable THEN "replayed" ELSE "refused"
    /\ UNCHANGED <<run, world, pins, catalog, staged>>

(* The Skills resolve_authorized_skill_catalog looks at.                    *)
QueryScope == IF fixed THEN roots \cup Pinned \cup UNION {PinnedDeps[s] : s \in Pinned}
              ELSE Skills

AuthorizedOrPinned == (usable \cap QueryScope) \cup Pinned

Authorized == usable \cap QueryScope

(* _metadata_candidate_for_row.                                             *)
HasRow(s) == DepsNow(s) \subseteq Authorized /\ s \notin DepsNow(s)

ExcludeOnce(S) == S

(* _exclude_unavailable_dependency_candidates, up to its fixpoint.          *)
RECURSIVE Exclude(_)
Exclude(S) ==
    LET T == {s \in S : DepsNow(s) \subseteq S}
    IN IF T = S THEN S ELSE Exclude(T)

Candidates == Exclude({s \in Authorized : HasRow(s)})

(* A Skill that others depend on is not offered on its own, unless it is a  *)
(* root.                                                                    *)
Discoverable ==
    {s \in Candidates : s \in roots \/ \A c \in Candidates : s \notin DepsNow(c)}

(* _candidate_order and _bounded_candidates: the roots come first, so only  *)
(* other entries are left out.                                              *)
Bounded(S) ==
    {E \in SUBSET S : /\ roots \subseteq E
                      /\ Cardinality(E) = IF Cardinality(S) < MaxEntries
                                          THEN Cardinality(S) ELSE MaxEntries}

(* _selected_materialization_candidates: depth first from the selected      *)
(* Skill, then from the other roots.                                        *)
RECURSIVE Materialize(_, _)
Materialize(done, todo) ==
    IF todo = << >> THEN done
    ELSE LET s == Head(todo)
         IN IF s \in Range(done) THEN Materialize(done, Tail(todo))
            ELSE IF s \notin Candidates THEN << >>
            ELSE Materialize(Append(done, s), SetToSeq(DepsNow(s)) \o Tail(todo))

MaterializationRootsOfSelected == <<selected>>

MaterializationRoots == <<selected>> \o SetToSeq(roots \ {selected})

Resolve ==
    LET order == Materialize(<< >>, MaterializationRoots)
        offered == IF fixed THEN roots ELSE Discoverable
    IN /\ pc = "replayed"
       /\ IF /\ roots \subseteq Discoverable
             /\ Cardinality(roots) <= MaxEntries
             /\ Len(order) <= MaxManifests
          THEN /\ pc' = "authorized"
               /\ \E E \in Bounded(offered) :
                    catalog' = [entries |-> E, order |-> order,
                                version |-> [s \in Skills |->
                                   IF s \notin E \cup Range(order) THEN 0
                                   ELSE IF pins[s] # 0 THEN pins[s] ELSE current[s]]]
          ELSE pc' = "refused" /\ UNCHANGED catalog
       /\ UNCHANGED <<run, world, pins, staged>>

-----------------------------------------------------------------------------
(* The executor.                                                            *)

(* runtime_input_updates: only packages that are not the run's own pins     *)
(* travel with the catalog.                                                 *)
Sent == {s \in Range(catalog.order) : pins[s] # catalog.version[s]}

(* The package load_runtime_authorized_skill_catalog finds for a Skill, 0   *)
(* if it has none or two that differ.                                       *)
Package(s) ==
    IF s \in Sent THEN IF pins[s] = 0 THEN catalog.version[s] ELSE 0
    ELSE pins[s]

(* parse_authorized_skill_catalog_snapshot.                                 *)
SnapshotValid ==
    /\ Cardinality(catalog.entries) <= MaxEntries
    /\ Len(catalog.order) <= MaxManifests
    /\ catalog.order # << >> => /\ catalog.order[1] = selected
                                /\ selected \in catalog.entries

(* load_runtime_authorized_skill_catalog.                                   *)
PackagesValid ==
    LET S == Range(catalog.order)
        d == [s \in Skills |-> IF Package(s) = 0 THEN {} ELSE deps[s][Package(s)]]
    IN /\ \A s \in S : /\ Package(s) # 0
                       /\ Package(s) = catalog.version[s]
                       /\ d[s] \subseteq S
                       /\ s \in catalog.entries \/ \E x \in S : s \in d[x]
       /\ Closure(S \cap catalog.entries, d) = S

(* prepare_run: an invalid catalog, or one without the selected Skill,      *)
(* fails the run; else the merged pins are staged.                          *)
Load ==
    /\ pc = "authorized"
    /\ IF SnapshotValid /\ PackagesValid /\ selected \in Range(catalog.order)
       THEN /\ pc' = "staged"
            /\ staged' = [s \in Skills |-> IF s \in Range(catalog.order) THEN Package(s) ELSE 0]
       ELSE pc' = "mismatch" /\ UNCHANGED staged
    /\ UNCHANGED <<run, world, pins, catalog>>

-----------------------------------------------------------------------------
Init ==
    /\ \E G \in SUBSET Edges, H \in SUBSET {e \in Edges : e[1] = Republished} :
        deps = [s \in Skills |-> << {e[2] : e \in {g \in G : g[1] = s}},
                                    {e[2] : e \in {h \in H : h[1] = s}} >>]
    /\ current = [s \in Skills |-> 1]
    /\ usable = Skills
    /\ selected \in Skills
    /\ fixed \in BOOLEAN
    /\ roots \in {R \in SUBSET Skills : selected \in R /\ (~fixed => R = {selected})}
    /\ pc = "new"
    /\ pins = NoPins
    /\ catalog = NoCatalog
    /\ staged = NoPins
    /\ changes = 0

Next ==
    \/ Publish
    \/ \E s \in Skills : Distribute(s)
    \/ AdmitRoots
    \/ AdmitFrontier
    \/ AdmitCommit
    \/ Replay
    \/ Resolve
    \/ Load

Spec == Init /\ [][Next]_vars

-----------------------------------------------------------------------------
(* Every variable holds values of its kind.                                 *)
TypeOK ==
    /\ current \in [Skills -> 1 .. 2]
    /\ usable \subseteq Skills
    /\ selected \in roots
    /\ pins \in [Skills -> 0 .. 2]
    /\ staged \in [Skills -> 0 .. 2]
    /\ pc \in {"new", "walking", "admitted", "replayed", "authorized", "staged",
               "refused", "mismatch"}

(* An admitted run has pinned exactly the closure of its roots under the    *)
(* versions it pinned, acyclic and within the limit, although each level of *)
(* admit_set is read at another moment.                                     *)
PinsAreClosed ==
    pc \in {"admitted", "replayed", "authorized", "staged"} =>
        /\ Pinned = Closure(roots, PinnedDeps)
        /\ Cardinality(Pinned) <= MaxManifests
        /\ \A s \in Pinned : s \notin Closure(PinnedDeps[s], PinnedDeps)

(* What the worker's resolve_authorized_skill_catalog authorises, the       *)
(* executor's load_runtime_authorized_skill_catalog accepts.                *)
ExecutorAccepts == pc # "mismatch"

(* The executor stages every pinned Skill in its pinned version and nothing *)
(* else, whatever has been released since the run was admitted.             *)
StagedArePins == pc = "staged" => staged = pins

(* A run is authorised only at a moment when every Skill it pins, each      *)
(* dependency included, is distributed to the user.                         *)
AuthorizedWhileDistributed ==
    pc # "authorized" /\ pc' = "authorized" => Pinned \subseteq usable
=============================================================================
