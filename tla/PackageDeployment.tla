-------------------------- MODULE PackageDeployment --------------------------
(* The operator's deployment of a published package: one deploy.py process    *)
(* at a time stops the applications, waits for a quiet platform, migrates the *)
(* retained workspaces and the schema and starts the new applications, while  *)
(* the platform it replaces is still admitting and finishing runs.  A command *)
(* may fail, or time out after it took effect; the process may be killed; the *)
(* container that copies the workspaces outlives the command that waits for   *)
(* it.                                                                        *)
EXTENDS Naturals, Sequences, FiniteSets, Functions

CONSTANTS Files,      \* 1..n, the files of the legacy workspaces, in scan order
          MaxCalls,   \* deploy.py invocations
          MaxFaults   \* failing commands, kills and lost containers

VARIABLES op,      \* the deploy.py process
          app,     \* the application containers
          db,      \* "absent" volumes, or the schema: "none", "old", "new"
          runs,    \* active runs, attempts, leases and sandboxes: 0 or 1
          src,     \* the legacy workspaces: [kind, has]
          tgt,     \* the approved host root, 0 where a file is absent
          inc,     \* the .incomplete marker's inventory, or <<>>
          comp,    \* the .complete marker's inventory, or <<>>
          box,     \* the workspace-migrate container
          state,   \* the installation state file: its migration flag, or "none"
          budget

vars == <<op, app, db, runs, src, tgt, inc, comp, box, state, budget>>

APPS == <<"frontend", "api", "worker">>
Apps == {APPS[i] : i \in 1..3}

(* File contents: what the retained workspaces held, what the old             *)
(* applications wrote there since, and what a run wrote under the new root.   *)
Original == 1
OldWrite == 2
NewWrite == 3

Idle == [pc |-> "idle", before |-> FALSE, resume |-> FALSE, migrate |-> FALSE,
         stopped |-> <<>>, started |-> FALSE]
NoBox == [pc |-> "none", left |-> {}, got |-> <<>>]

TypeOK ==
  /\ op \in [pc : {"idle", "stop", "quiet", "data", "workspace", "copying", "schema",
                   "apps", "verify", "restore", "halt"},
             before : BOOLEAN, resume : BOOLEAN, migrate : BOOLEAN,
             stopped : Seq(Apps), started : BOOLEAN]
  /\ app \in [Apps -> [ver : {"none", "old", "new"}, up : BOOLEAN]]
  /\ db \in {"absent", "none", "old", "new"}
  /\ runs \in 0..1
  /\ src \in [kind : {"never", "there", "gone"}, has : [Files -> {Original, OldWrite}]]
  /\ tgt \in [Files -> 0..NewWrite]
  /\ inc \in {<<>>} \cup [Files -> 1..2] /\ comp \in {<<>>} \cup [Files -> 1..2]
  /\ box.pc \in {"none", "open", "copy", "check", "unlink", "ok", "failed"}
  /\ box.left \subseteq Files
  /\ state \in {"none", "migrating", "plain"}
  /\ budget \in [calls : 0..MaxCalls, faults : 0..MaxFaults, dirty : BOOLEAN, healthy : BOOLEAN]

(* A host with nothing installed or with the previous release running, with   *)
(* or without retained legacy workspaces.                                     *)
Init ==
  /\ op = Idle
  /\ \/ app = [a \in Apps |-> [ver |-> "none", up |-> FALSE]] /\ db = "absent"
     \/ app = [a \in Apps |-> [ver |-> "old", up |-> TRUE]] /\ db = "old"
  /\ runs = 0
  /\ src \in [kind : {"never", "there"}, has : {[f \in Files |-> Original]}]
  /\ tgt = [f \in Files |-> 0]
  /\ inc = <<>> /\ comp = <<>> /\ box = NoBox /\ state = "none"
  /\ budget = [calls |-> 0, faults |-> 0, dirty |-> FALSE, healthy |-> FALSE]

Fault == budget.faults < MaxFaults
Hit == [budget EXCEPT !.faults = @ + 1]
Flag(m) == IF m THEN "migrating" ELSE "plain"
Existing == \A a \in Apps : app[a].ver # "none"

-----------------------------------------------------------------------------
(* The platform around the deployment.                                        *)

(* A user starts a run while the API is up.                                   *)
StartRun ==
  /\ app["api"].up /\ runs = 0 /\ runs' = 1
  /\ budget' = [budget EXCEPT !.healthy = FALSE]
  /\ UNCHANGED <<op, app, db, src, tgt, inc, comp, box, state>>

(* The worker finishes it, having written to the workspace its release has    *)
(* mounted.                                                                   *)
FinishRun ==
  /\ app["worker"].up /\ runs = 1 /\ runs' = 0
  /\ \E f \in Files :
       IF app["worker"].ver = "old" /\ src.kind # "never"
       THEN /\ src' = [src EXCEPT !.has[f] = OldWrite]
            /\ UNCHANGED tgt
       ELSE /\ tgt' = [tgt EXCEPT ![f] = NewWrite]
            /\ UNCHANGED src
  /\ UNCHANGED <<op, app, db, inc, comp, box, state, budget>>

(* The operator sets the legacy workspaces aside, or brings them back.        *)
MoveSource ==
  /\ op.pc = "idle" /\ src.kind # "never" /\ <<inc, comp>> # <<<<>>, <<>>>>
  /\ \A a \in Apps : app[a].ver = "old" => ~app[a].up
  /\ src' = [src EXCEPT !.kind = IF @ = "there" THEN "gone" ELSE "there"]
  /\ box.pc \notin {"open", "copy", "check", "unlink"}
  /\ UNCHANGED <<op, app, db, runs, tgt, inc, comp, box, state, budget>>

-----------------------------------------------------------------------------
(* migrate_workspace_storage, in its own container.                           *)

Box(pc) == box' = [NoBox EXCEPT !.pc = pc]
Refuses == Box("failed") /\ UNCHANGED inc

(* A completed marker that is believed whatever became of the source.         *)
CompletedAnyway == inc' = <<>> /\ Box("ok")

(* A completed migration is not repeated: the source must still be what was   *)
(* copied, the target may have moved on.  What is left of an interrupted      *)
(* finish is checked and cleared.                                             *)
Completed ==
  IF src.has # comp THEN Refuses
  ELSE IF inc # <<>> /\ (inc # comp \/ tgt # comp) THEN Refuses
  ELSE inc' = <<>> /\ Box("ok")

(* Without a marker the target must be empty; with one, the source must be    *)
(* what the marker recorded.                                                  *)
Begins ==
  LET Copying == box' = [pc |-> "copy", left |-> Files, got |-> src.has] IN
  IF inc = <<>>
  THEN IF tgt = [f \in Files |-> 0] THEN inc' = src.has /\ Copying ELSE Refuses
  ELSE IF src.has = inc THEN Copying /\ UNCHANGED inc ELSE Refuses

BoxOpens ==
  /\ box.pc = "open"
  /\ IF comp # <<>> THEN Completed ELSE Begins
  /\ UNCHANGED <<op, app, db, runs, src, tgt, comp, state, budget>>

(* A file is written beside its target and renamed onto it; one that is       *)
(* already there must hold what the source holds.                             *)
BoxCopies ==
  /\ box.pc = "copy" /\ box.left # {}
  /\ LET f == CHOOSE g \in box.left : \A h \in box.left : g <= h IN
     IF tgt[f] \in {0, src.has[f]}
     THEN /\ tgt' = [tgt EXCEPT ![f] = src.has[f]]
          /\ box' = [box EXCEPT !.left = @ \ {f}, !.got[f] = src.has[f]]
     ELSE Box("failed") /\ UNCHANGED tgt
  /\ UNCHANGED <<op, app, db, runs, src, inc, comp, state, budget>>

(* What was copied and what is now in the target are both compared with the   *)
(* inventory taken at the start before the .complete marker is written.       *)
BoxChecks ==
  /\ box.pc = "copy" /\ box.left = {}
  /\ IF box.got = inc /\ tgt = inc
     THEN comp' = inc /\ Box("unlink")
     ELSE Box("failed") /\ UNCHANGED comp
  /\ UNCHANGED <<op, app, db, runs, src, tgt, inc, state, budget>>

BoxUnlinks ==
  /\ box.pc = "unlink" /\ inc' = <<>> /\ Box("ok")
  /\ UNCHANGED <<op, app, db, runs, src, tgt, comp, state, budget>>

BoxDies ==
  /\ box.pc \in {"open", "copy", "unlink"} /\ Fault
  /\ Box("failed") /\ budget' = Hit
  /\ UNCHANGED <<op, app, db, runs, src, tgt, inc, comp, state>>

MigrateWorkspaceStorage == BoxOpens \/ BoxCopies \/ BoxChecks \/ BoxUnlinks \/ BoxDies

-----------------------------------------------------------------------------
(* deploy, one process under the project-wide lock.                           *)

(* The snapshot: every container of the stack or none of it; a resumed        *)
(* installation has the data services only.  The installation state file must *)
(* be absent, or the one this resume continues.  A normal upgrade needs a     *)
(* quiet platform, a fresh installation no leftover volumes.                  *)
StackFits(resume) ==
  IF resume THEN \A a \in Apps : app[a].ver = "none"
  ELSE \/ Existing /\ db # "absent" /\ runs = 0
       \/ (\A a \in Apps : app[a].ver = "none") /\ db = "absent"
StateFits(resume, migrate) == state = IF resume THEN Flag(migrate) ELSE "none"

(* The migration flag is given exactly when legacy workspaces exist; without  *)
(* it an unfinished copy refuses the deployment.                              *)
WorkspaceFits(migrate) ==
  /\ migrate = (src.kind = "there")
  /\ ~migrate => inc = <<>>

(* A storage check that looks at the flag alone.                              *)
StorageFitsAnyway(migrate) == TRUE

(* validate_existing_workspaces: the API and the worker of the running stack  *)
(* share one workspace root, and a legacy one is left only by migrating it.   *)
StorageFits(migrate) ==
  LET legacy(a) == app[a].ver = "old" /\ src.kind # "never" IN
  /\ legacy("api") = legacy("worker")
  /\ legacy("api") => migrate

Preflight(resume, migrate) ==
  /\ op.pc = "idle" /\ budget.calls < MaxCalls
  /\ StackFits(resume) /\ StateFits(resume, migrate) /\ WorkspaceFits(migrate)
  /\ ~resume => StorageFits(migrate)
  /\ LET before == ~resume /\ Existing IN
     /\ op' = [Idle EXCEPT !.pc = IF before THEN "stop" ELSE "data",
                           !.before = before, !.resume = resume, !.migrate = migrate]
     /\ state' = IF before \/ resume THEN state ELSE Flag(migrate)
  /\ budget' = [budget EXCEPT !.calls = @ + 1, !.healthy = FALSE]
  /\ UNCHANGED <<app, db, runs, src, tgt, inc, comp, box>>

To(pc) == op' = [op EXCEPT !.pc = pc]
Down(a) == app' = [app EXCEPT ![a].up = FALSE]

StopApp ==
  /\ op.pc = "stop"
  /\ LET a == APPS[Len(op.stopped) + 1] IN
     /\ Down(a)
     /\ op' = [op EXCEPT !.stopped = Append(@, a), !.pc = IF Len(op.stopped) = 2 THEN "quiet" ELSE @]
  /\ UNCHANGED <<db, runs, src, tgt, inc, comp, box, state, budget>>

(* The second activity check left out.                                        *)
QuietAnyway ==
  /\ op.pc = "quiet" /\ To("data")
  /\ UNCHANGED <<app, db, runs, src, tgt, inc, comp, box, state, budget>>

(* With admission stopped the activity check is made again; a run admitted    *)
(* since the first one ends the attempt.                                      *)
Quiet ==
  /\ op.pc = "quiet"
  /\ To(IF runs = 0 THEN "data" ELSE "restore")
  /\ UNCHANGED <<app, db, runs, src, tgt, inc, comp, box, state, budget>>

(* The flag that decides about restoring is set only after the workspaces are *)
(* migrated.                                                                  *)
MarksLate ==
  /\ op.pc = "data" /\ runs = 0
  /\ db' = IF db = "absent" THEN "none" ELSE db
  /\ op' = [op EXCEPT !.pc = IF op.migrate THEN "workspace" ELSE "schema"]
  /\ UNCHANGED <<app, runs, src, tgt, inc, comp, box, state, budget>>

(* The data services are up; a resumed installation checks the activity       *)
(* tables that exist; from here on nothing is rolled back.                    *)
DataUp ==
  /\ op.pc = "data"
  /\ op.resume => runs = 0
  /\ db' = IF db = "absent" THEN "none" ELSE db
  /\ op' = [op EXCEPT !.started = TRUE, !.pc = IF op.migrate THEN "workspace" ELSE "schema"]
  /\ UNCHANGED <<app, runs, src, tgt, inc, comp, box, state, budget>>

(* --force-recreate replaces a copying container an earlier attempt left.     *)
LaunchWorkspaceMigrate ==
  /\ op.pc = "workspace"
  /\ box' = [NoBox EXCEPT !.pc = "open"] /\ To("copying")
  /\ UNCHANGED <<app, db, runs, src, tgt, inc, comp, state, budget>>

WorkspaceMigrated ==
  /\ op.pc = "copying" /\ box.pc \in {"ok", "failed"}
  /\ To(IF box.pc = "ok" THEN "schema" ELSE "halt")
  /\ UNCHANGED <<app, db, runs, src, tgt, inc, comp, box, state, budget>>

MigrateSchema ==
  /\ op.pc = "schema" /\ db' = "new" /\ To("apps")
  /\ UNCHANGED <<app, runs, src, tgt, inc, comp, box, state, budget>>

StartApps ==
  /\ op.pc = "apps" /\ To("verify")
  /\ app' = [a \in Apps |-> [ver |-> "new", up |-> TRUE]]
  /\ UNCHANGED <<db, runs, src, tgt, inc, comp, box, state, budget>>

(* verify_runtime, after which the installation state file goes.              *)
Verify ==
  /\ op.pc = "verify" /\ op' = Idle
  /\ state' = IF op.before THEN state ELSE "none"
  /\ budget' = [budget EXCEPT !.dirty = FALSE, !.healthy = TRUE]
  /\ UNCHANGED <<app, db, runs, src, tgt, inc, comp, box>>

(* A command fails, or times out with its effect done or half done.  Which    *)
(* way the deployment is wound up depends on migration_started alone.         *)
CommandFails ==
  /\ op.pc \notin {"idle", "restore", "halt"} /\ Fault /\ budget' = Hit
  /\ To(IF op.started THEN "halt" ELSE "restore")
  /\ app' \in CASE op.pc = "stop" ->
                    LET a == APPS[Len(op.stopped) + 1] IN {app, [app EXCEPT ![a].up = FALSE]}
               [] op.pc = "apps" ->
                    {[a \in Apps |-> IF a \in S THEN [ver |-> "new", up |-> TRUE] ELSE app[a]] :
                       S \in SUBSET Apps}
               [] OTHER -> {app}
  /\ db' \in CASE op.pc = "data" /\ db = "absent" -> {db, "none"}
              [] op.pc = "schema" -> {db, "new"}
              [] OTHER -> {db}
  /\ UNCHANGED <<runs, src, tgt, inc, comp, box, state>>

(* Admission is restored, latest stopped first; a start that fails leaves the *)
(* rest down.                                                                 *)
Restore ==
  /\ op.pc = "restore"
  /\ \/ /\ op.stopped = <<>> /\ op' = Idle
        /\ UNCHANGED <<app, budget>>
     \/ /\ op.stopped # <<>>
        /\ LET n == Len(op.stopped) IN
           /\ app' = [app EXCEPT ![op.stopped[n]].up = TRUE]
           /\ op' = [op EXCEPT !.stopped = SubSeq(@, 1, n - 1)]
        /\ UNCHANGED budget
     \/ /\ op.stopped # <<>> /\ Fault /\ budget' = Hit
        /\ op' = Idle /\ UNCHANGED app
  /\ UNCHANGED <<db, runs, src, tgt, inc, comp, box, state>>

(* After migration began the applications are stopped; a stop that fails is   *)
(* only reported.                                                             *)
Halt ==
  /\ op.pc = "halt" /\ op' = Idle
  /\ \E S \in SUBSET {a \in Apps : app[a].up} :
       /\ S # {} => Fault
       /\ app' = [a \in Apps |-> [app[a] EXCEPT !.up = a \in S]]
       /\ budget' = [IF S = {} THEN budget ELSE Hit EXCEPT !.dirty = TRUE]
  /\ UNCHANGED <<db, runs, src, tgt, inc, comp, box, state>>

(* The process is killed: nothing is wound up.                                *)
Killed ==
  /\ op.pc # "idle" /\ Fault /\ op' = Idle
  /\ budget' = [Hit EXCEPT !.dirty = @ \/ op.started]
  /\ UNCHANGED <<app, db, runs, src, tgt, inc, comp, box, state>>

Next ==
  \/ StartRun \/ FinishRun \/ MoveSource
  \/ MigrateWorkspaceStorage
  \/ \E resume, migrate \in BOOLEAN : Preflight(resume, migrate)
  \/ StopApp \/ Quiet \/ DataUp \/ LaunchWorkspaceMigrate \/ WorkspaceMigrated
  \/ MigrateSchema \/ StartApps \/ Verify
  \/ CommandFails \/ Restore \/ Halt \/ Killed

Spec == Init /\ [][Next]_vars

-----------------------------------------------------------------------------
(* No run is active from the moment nothing is rolled back any more until     *)
(* the new applications start (the second quiescent of deploy), and no        *)
(* application of the old release is up then.                                 *)
MigratesInQuiet ==
  op.pc \in {"workspace", "copying", "schema"} =>
    runs = 0 /\ \A a \in Apps : ~app[a].up

(* The old release never runs against the new schema, unless an attempt was   *)
(* cut short after migration began (the except branch of deploy).             *)
NoOldOnNew ==
  db = "new" /\ ~budget.dirty => \A a \in Apps : app[a].up => app[a].ver = "new"

(* A deployment reported healthy runs the new release on the new schema, and  *)
(* every legacy workspace file is under the new root: as the source holds it, *)
(* or as a run rewrote it (migrate_workspace_storage, deploy).                *)
HealthyIsWhole ==
  budget.healthy =>
    /\ db = "new" /\ state = "none"
    /\ \A a \in Apps : app[a] = [ver |-> "new", up |-> TRUE]
    /\ src.kind # "never" => \A f \in Files : tgt[f] \in {src.has[f], NewWrite}

(* What a run of the new release wrote is never replaced by an older copy:    *)
(* a migration that is rerun verifies, it does not copy again.                *)
WritesKept == \A f \in Files : tgt[f] = NewWrite => tgt'[f] = NewWrite
=============================================================================
