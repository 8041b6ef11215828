---------------------------- MODULE ReleaseImages -----------------------------
(* tools/release_authority.py: operators release commits of main from their   *)
(* checkouts.  The image of a role is tagged with its commit and built from   *)
(* the whole tree, or, by the auto strategy, derived from the image that is   *)
(* running: its source replaced, or only relabelled, as the difference        *)
(* between the two commits allows.  Nothing keeps two operators apart, and a  *)
(* release may end between any two containers.                                *)
EXTENDS Naturals, Sequences, Functions, FiniteSets

CONSTANTS Tree,        \* per commit, per role: <<dependencies, source>>
          Operators,
          MaxReleases, MaxFaults

VARIABLES image,    \* [role |-> [commit |-> content of the tag, or None]]
          live,     \* [container |-> [commit, content]]
          op,       \* the operators' processes
          budget

vars == <<image, live, op, budget>>

Commits == DOMAIN Tree
Roles == {"backend", "frontend"}
Containers == {"api", "worker", "frontend"}
RoleOf(k) == IF k = "frontend" THEN "frontend" ELSE "backend"
None == <<>>
Idle == [pc |-> "idle", target |-> 1, current |-> 0, owner |-> 0, left |-> {}, done |-> FALSE]

TypeOK ==
  /\ image \in [Roles -> [Commits -> {None} \cup (Nat \X Nat)]]
  /\ live \in [Containers -> [commit : Commits, content : Nat \X Nat]]
  /\ op \in [Operators -> [pc : {"idle", "backend", "frontend", "recheck", "compose", "parity"},
                           target : Commits, current : {0} \cup Commits,
                           owner : {0} \cup Commits, left : SUBSET Containers, done : BOOLEAN]]
  /\ budget \in [releases : 0..MaxReleases, faults : 0..MaxFaults]

(* The first commit is released.                                              *)
Init ==
  /\ image = [r \in Roles |-> [c \in Commits |-> IF c = 1 THEN Tree[1][r] ELSE None]]
  /\ live = [k \in Containers |-> [commit |-> 1, content |-> Tree[1][RoleOf(k)]]]
  /\ op = [o \in Operators |-> Idle]
  /\ budget = [releases |-> 0, faults |-> 0]

(* The commit whose checkout owns every container, or 0: then no release goes *)
(* on until an operator repairs it by hand.                                   *)
Owner ==
  IF \E c \in Commits : \A k \in Containers : live[k].commit = c
  THEN live["api"].commit ELSE 0

To(o, pc) == op' = [op EXCEPT ![o].pc = pc]
Ends(o) == op' = [op EXCEPT ![o] = Idle]

-----------------------------------------------------------------------------
(* The auto strategy first verifies what is running; canonical takes the      *)
(* checkout alone.  Both require one owner of all containers.                 *)
RunningCommit(auto) == IF auto THEN Owner ELSE 0

Begin(o, c, auto) ==
  /\ op[o].pc = "idle" /\ budget.releases < MaxReleases /\ Owner # 0
  /\ op' = [op EXCEPT ![o] = [Idle EXCEPT !.pc = "backend", !.target = c,
              !.current = RunningCommit(auto), !.owner = Owner]]
  /\ budget' = [budget EXCEPT !.releases = @ + 1]
  /\ UNCHANGED <<image, live>>

(* The difference taken from the last change of main instead of what runs.    *)
BaseParent(o) == IF op[o].target = 1 THEN 1 ELSE op[o].target - 1

(* The diff is taken from the running commit to the target.                   *)
Base(o) == op[o].current

(* What classify_runtime_changes finds in it for a role.                      *)
Changed(o, r) ==
  LET a == Tree[Base(o)][r]
      b == Tree[op[o].target][r] IN
  IF a[1] # b[1] THEN "dependency" ELSE IF a[2] # b[2] THEN "source" ELSE "unchanged"

(* build_auto_release_plan; the canonical strategy has no plan.               *)
Plan(o, r) ==
  IF op[o].current = 0 THEN "canonical-build"
  ELSE CASE Changed(o, r) = "dependency" -> "canonical-build"
         [] Changed(o, r) = "source" -> IF r = "backend" THEN "runtime-rebuild" ELSE "source-build"
         [] OTHER -> IF op[o].current = op[o].target THEN "reuse" ELSE "promote"

(* What each action puts behind the target's tag.                             *)
Built(o, r) ==
  LET base == image[r][op[o].current] IN
  CASE Plan(o, r) \in {"canonical-build", "source-build"} -> Tree[op[o].target][r]
    [] Plan(o, r) = "runtime-rebuild" -> <<base[1], Tree[op[o].target][r][2]>>
    [] Plan(o, r) = "promote" -> base

HasBase(o, r) == image[r][op[o].current] # None

(* A tag that exists is used as it is; without it, and without the base image *)
(* a derived one needs, the release ends.                                     *)
BuildRole(o, r) ==
  /\ op[o].pc = r
  /\ LET t == op[o].target
         next == IF r = "backend" THEN "frontend" ELSE "recheck" IN
     \/ image[r][t] # None /\ To(o, next) /\ UNCHANGED image
     \/ /\ image[r][t] = None
        /\ \/ Plan(o, r) \in {"canonical-build", "source-build"}
           \/ Plan(o, r) \in {"runtime-rebuild", "promote"} /\ HasBase(o, r)
        /\ image' = [image EXCEPT ![r][t] = Built(o, r)] /\ To(o, next)
     \/ /\ image[r][t] = None /\ Ends(o) /\ UNCHANGED image
        /\ \/ Plan(o, r) = "reuse"
           \/ Plan(o, r) \in {"runtime-rebuild", "promote"} /\ ~HasBase(o, r)
  /\ UNCHANGED <<live, budget>>

(* Before the containers are touched their owner must be the one seen first.  *)
Recheck(o) ==
  /\ op[o].pc = "recheck"
  /\ IF Owner = op[o].owner /\ Owner # 0
     THEN op' = [op EXCEPT ![o].pc = "compose", ![o].left = Containers]
     ELSE Ends(o)
  /\ UNCHANGED <<image, live, budget>>

(* compose up replaces the containers one by one.                             *)
Recreate(o) ==
  /\ op[o].pc = "compose" /\ op[o].left # {}
  /\ \E k \in op[o].left :
       /\ image[RoleOf(k)][op[o].target] # None
       /\ live' = [live EXCEPT ![k] = [commit |-> op[o].target,
                                       content |-> image[RoleOf(k)][op[o].target]]]
       /\ op' = [op EXCEPT ![o].left = @ \ {k},
                           ![o].pc = IF op[o].left = {k} THEN "parity" ELSE @]
  /\ UNCHANGED <<image, budget>>

(* Every container runs the target from its checkout, or the release failed.  *)
Parity(o) ==
  /\ op[o].pc = "parity"
  /\ op' = [op EXCEPT ![o] = [Idle EXCEPT !.target = op[o].target, !.done = Owner = op[o].target]]
  /\ UNCHANGED <<image, live, budget>>

(* A command fails or the process is interrupted.                             *)
Breaks(o) ==
  /\ op[o].pc # "idle" /\ budget.faults < MaxFaults
  /\ budget' = [budget EXCEPT !.faults = @ + 1] /\ Ends(o)
  /\ UNCHANGED <<image, live>>

(* An image no container uses is pruned.                                      *)
Prune ==
  /\ budget.faults < MaxFaults /\ budget' = [budget EXCEPT !.faults = @ + 1]
  /\ \E r \in Roles, c \in Commits :
       /\ image[r][c] # None
       /\ \A k \in Containers : RoleOf(k) = r => live[k].commit # c
       /\ image' = [image EXCEPT ![r][c] = None]
  /\ UNCHANGED <<live, op>>

Next ==
  \/ \E o \in Operators :
       \/ \E c \in Commits, auto \in BOOLEAN : Begin(o, c, auto)
       \/ \E r \in Roles : BuildRole(o, r)
       \/ Recheck(o) \/ Recreate(o) \/ Parity(o) \/ Breaks(o)
  \/ Prune

Spec == Init /\ [][Next]_vars

-----------------------------------------------------------------------------
(* What a commit's tag holds, and what a container labelled with it runs, is  *)
(* built from that commit's dependencies and source, however many releases    *)
(* the image was derived through (_build_from_verified_role_image).           *)
ImagesAreTheirCommits ==
  /\ \A r \in Roles, c \in Commits : image[r][c] \in {None, Tree[c][r]}
  /\ \A k \in Containers : live[k].content = Tree[live[k].commit][RoleOf(k)]
=============================================================================
