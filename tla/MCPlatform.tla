----------------------------- MODULE MCPlatform -----------------------------
(***************************************************************************)
(* The smaller components of the platform, each on an instance of its own, *)
(* in one state graph: the initial state chooses one of Components, and    *)
(* from there on only its steps are taken.  The variables x1, ..., x12 are *)
(* the chosen component's variables in the order of its declaration; the   *)
(* ones it does not need stay fixed.                                       *)
(***************************************************************************)
EXTENDS Naturals, FiniteSets, TLC

CONSTANTS Components,                              \* the components of a run
          MaxDeliveries, Reconcilers, Unfenced,    \* RunLifecycle
          RecoveryFails,
          Workers, NoWorker, ProbeLimit,           \* SandboxLease
          PermanentErrors, CancelAllowed,          \* and RunLifecycle
          InputTexts, Questions, OwnerTabs,        \* RunInputs
          MaxTries,
          Ops,                                     \* RecoveryOperations
          Writers, Deleters, MaxAttempts,          \* ObjectDeletion
          Contexts, Users, Handlers, MaxEpoch,     \* AuthOperations
          Tabs, MaxFaults,                         \* BrowserContext
          MaxRequests,                             \* ChatSubmission
          MaxOps, MaxWithdrawn,                    \* RunControl
          MaxRuns, MaxBatches                      \* ProviderEpochs

(* The processes and ids a fairness condition names *)
CONSTANTS r1, r2, w1, q1, o1, d1, d2, tab1, tab2

ASSUME PlatformAssumption ==
  /\ MaxDeliveries \in Nat \ {0} /\ ProbeLimit \in Nat \ {0}
  /\ IsFiniteSet(Reconcilers) /\ Unfenced \notin Reconcilers /\ NoWorker \notin Workers
  /\ {CancelAllowed, RecoveryFails, PermanentErrors} \subseteq BOOLEAN

VARIABLES part, x1, x2, x3, x4, x5, x6, x7, x8, x9, x10, x11, x12

vars == <<part, x1, x2, x3, x4, x5, x6, x7, x8, x9, x10, x11, x12>>

Lifecycle == INSTANCE RunLifecycle WITH
  Free <- Unfenced,
  run <- x1, attempt <- x2, lease <- x3, pc <- x4, msg <- x5, holder <- x6, fence <- x7,
  rec <- x8, quiet <- x9

Sandbox == INSTANCE SandboxLease WITH
  None <- NoWorker,
  run <- x1, lease <- x2, box <- x3, task <- x4, owner <- x5, wk <- x6, sweep <- x7,
  overran <- x8

Inputs == INSTANCE RunInputs WITH
  Texts <- InputTexts, Tabs <- OwnerTabs,
  run <- x1, session <- x2, row <- x3, question <- x4, asked <- x5, choice <- x6,
  due <- x7, actor <- x8, stray <- x9, given <- x10

Recovery == INSTANCE RecoveryOperations WITH
  run <- x1, confirmable <- x2, outcome <- x3, reference <- x4, binding <- x5,
  recorded <- x6, phase <- x7, facts <- x8, call <- x9, rejected <- x10, stray <- x11,
  effects <- x12

Objects == INSTANCE ObjectDeletion WITH
  kind <- x1, row <- x2, bound <- x3, box <- x4, revived <- x5, stored <- x6, late <- x7,
  writer <- x8, owner <- x9, deleter <- x10

Auth == INSTANCE AuthOperations WITH
  Requests <- Handlers,
  context <- x1, credential <- x2, request <- x3, renewed <- x4, origin <- x5,
  signedOut <- x6

Browser == INSTANCE BrowserContext WITH
  authority <- x1, cookie <- x2, record <- x3, tab <- x4, stray <- x5, faults <- x6,
  known <- x7

Chat == INSTANCE ChatSubmission WITH
  row <- x1, run <- x2, message <- x3, bound <- x4, valid <- x5, lock <- x6, handler <- x7,
  sent <- x8, saved <- x9, tab <- x10, told <- x11, count <- x12

Control == INSTANCE RunControl WITH
  authorized <- x1, withdrawn <- x2, child <- x3, handler <- x4, minted <- x5, stored <- x6,
  page <- x7, opened <- x8, refused <- x9

Epochs == INSTANCE ProviderEpochs WITH
  run <- x1, head <- x2, epoch <- x3, turn <- x4, box <- x5, wire <- x6, receipt <- x7

Index == INSTANCE RunQueueIndex WITH
  MaxCopies <- 2, MaxLeases <- 3, list <- x1, meta <- x2, rank <- x3, index <- x4,
  held <- x5, pmeta <- x6, retry <- x7, leases <- x8, call <- x9, watched <- x10

Profiles == INSTANCE AgentProfiles WITH
  Admins <- {"a1", "a2"}, Clients <- {"c1", "c2"}, Contents <- {"x", "y"},
  MaxRevisions <- 4, revision <- x1, profile <- x2, agent <- x3, advisory <- x4,
  row <- x5, admin <- x6, client <- x7, session <- x8, reply <- x9, run <- x10

Docker == INSTANCE DockerContainers WITH
  Procs <- {"w1", "w2"}, Home <- "w1", AttemptOf <- <<1, 2>>, MaxFaults <- 1,
  lock <- x1, sub <- x2, op <- x3, reg <- x4, primary <- x5, native <- x6, net <- x7,
  row <- x8, faults <- x9, past <- x10, crashed <- x11

DockerAgain == INSTANCE DockerContainers WITH
  Procs <- {"w1", "w2"}, Home <- "w1", AttemptOf <- <<1, 1>>, MaxFaults <- 1,
  lock <- x1, sub <- x2, op <- x3, reg <- x4, primary <- x5, native <- x6, net <- x7,
  row <- x8, faults <- x9, past <- x10, crashed <- x11

Open == INSTANCE OpenSandboxes WITH
  Procs <- {"w1", "w2"}, Home <- "w1", Subs <- 1..3, Boxes <- 1..3, MaxFaults <- 2,
  lock <- x1, sub <- x2, cache <- x3, box <- x4, row <- x5, faults <- x6, lost <- x7,
  crashed <- x8

Executor == INSTANCE ExecutorCallbacks WITH
  Script <- <<"delta", "delta", "capability", "delta">>, QueueSize <- 2, MaxAttempts <- 2,
  MaxFaults <- 3, sup <- x1, run <- x2, queue <- x3, batch <- x4, buf <- x5, gate <- x6,
  stream <- x7, uncertain <- x8, result <- x9, host <- x10, wire <- x11, faults <- x12

Deploy == INSTANCE PackageDeployment WITH
  Files <- {1, 2}, MaxCalls <- 3, MaxFaults <- 2, op <- x1, app <- x2, db <- x3,
  runs <- x4, src <- x5, tgt <- x6, inc <- x7, comp <- x8, box <- x9, state <- x10,
  budget <- x11

Schema == INSTANCE SchemaMigration WITH
  Build <- [m1 |-> "old", m2 |-> "new"], Def <- [old |-> <<1>>, new |-> <<2, 1>>],
  MaxApplies <- 4, MaxFaults <- 2, proc <- x1, lock <- x2, core <- x3, index <- x4,
  ledger <- x5, last <- x6, budget <- x7

ReleaseTree ==
  << [backend |-> <<1, 1>>, frontend |-> <<1, 1>>],
     [backend |-> <<2, 1>>, frontend |-> <<1, 2>>],
     [backend |-> <<2, 2>>, frontend |-> <<1, 2>>] >>

Images == INSTANCE ReleaseImages WITH
  Tree <- ReleaseTree, Operators <- {"o1", "o2"}, MaxReleases <- 2, MaxFaults <- 2,
  image <- x1, live <- x2, op <- x3, budget <- x4

Tools == INSTANCE ToolAdmission WITH
  Calls <- {"c1", "c2"}, MaxFaults <- 1, MaxOdd <- 1, kind <- x1, same <- x2,
  hook <- x3, inv <- x4, exec <- x5, bound <- x6, flag <- x7, world <- x8, ledger <- x9,
  result <- x10, budget <- x11

Answer == INSTANCE AnswerStream WITH
  Known <- {<<"/", "/">>}, Learnt <- {<<"/", "a", "/">>}, Sources <- {1, 2},
  MaxToken <- 3, MaxInput <- 4, tokens <- x1, pending <- x2, spans <- x3, quote <- x4,
  published <- x5, status <- x6, routed <- x7, input <- x8

Turn == INSTANCE SdkTurn WITH
  MaxFaults <- 2, sdk <- x1, mirror <- x2, hook <- x3, reader <- x4, seen <- x5,
  pending <- x6, ready <- x7, settled <- x8, main <- x9, outcome <- x10, public <- x11,
  faults <- x12

Releases == INSTANCE SkillReleases WITH
  Tenants <- {"t1", "t2"}, Versions <- {"v0", "v1", "v2", "v3"}, Admins <- {"a1", "a2"},
  Runs <- {"r1"}, NoOne <- "none", Trusted <- {"v0", "v2", "v3"}, Builtin <- "v0",
  Legacy <- {"t1"}, Rollouts <- {50, 100}, MaxRequests <- 3, pointer <- x1,
  status <- x2, policy <- x3, dist <- x4, filled <- x5, upload <- x6, run <- x7,
  requests <- x8

SkillSet == INSTANCE SkillCatalog WITH
  Skills <- {"a", "b", "c", "d"},
  Edges <- {<<"a", "b">>, <<"b", "c">>, <<"c", "d">>, <<"c", "a">>, <<"b", "d">>},
  Republished <- "b", MaxManifests <- 3, MaxEntries <- 2, MaxChanges <- 1, deps <- x1,
  current <- x2, usable <- x3, roots <- x4, selected <- x5, fixed <- x6, pc <- x7,
  pins <- x8, catalog <- x9, staged <- x10, changes <- x11

Policy == INSTANCE ModelGroups WITH
  Groups <- {"g1", "g2"}, Default <- "dg", Models <- {"m1", "m2"}, Users <- {"u1"},
  None <- "none", MaxEdits <- 2, entries <- x1, gateway <- x2, retired <- x3,
  groups <- x4, member <- x5, urev <- x6, run <- x7, pending <- x8, seen <- x9,
  lost <- x10, edits <- x11

Proxy == INSTANCE ModelProxy WITH
  MaxIps <- 2, MaxChunks <- 3, MaxTexts <- 2, run <- x1, call <- x2, thread <- x3,
  slot <- x4, posts <- x5, transport <- x6, body <- x7, reader <- x8, closing <- x9,
  gen <- x10, ck <- x11, wire <- x12

Uploads == INSTANCE FileUploads WITH
  Quotas <- {1, 2}, MaxSessions <- 2, MaxFaults <- 1, sess <- x1, files <- x2,
  objects <- x3, mpu <- x4, initiate <- x5, req <- x6, writer <- x7, abandoned <- x8,
  clean <- x9, abort <- x10, flags <- x11, faults <- x12

Ledger == INSTANCE AnswerLedger WITH
  Parts <- {"a", "b"},
  Budgets <- {[text |-> 3, extra |-> 0, faults |-> 0],
              [text |-> 1, extra |-> 1, faults |-> 1],
              [text |-> 0, extra |-> 2, faults |-> 0]},
  route <- x1, parts <- x2, ad <- x3, calls <- x4, said <- x5, batches <- x6,
  acked <- x7, authority <- x8, receipts <- x9, ledger <- x10, worker <- x11,
  left <- x12

Memory == INSTANCE MemoryRecords WITH
  Records <- {<<1,1>>,<<1,2>>,<<2,1>>}, Workspaces <- {1,2}, Limits <- {1,2},
  MaxEdits <- 1, limit <- x1, policy <- x2, state <- x3, active <- x4, creating <- x5,
  recording <- x6, snapshots <- x7, audits <- x8, cursor <- x9, waits <- x10,
  edits <- x11

Context == INSTANCE ContextSnapshots WITH
  Files <- {1,2,3,4}, Fits <- {1,2,4},
  NameOf <- <<<<"a">>,<<"a","2">>,<<"c">>,<<"a">>>>, MaxRuns <- 3, MaxPrimary <- 3,
  PageLimit <- 2, active <- x1, owner <- x2, runs <- x3, disk <- x4, todo <- x5,
  written <- x6, stage <- x7

Transfer == INSTANCE ArtifactTransfers WITH
  Calls <- {"c1","c2"}, Artifacts <- {1,2}, MaxEdits <- 1, expired <- x1, run <- x2,
  frozen <- x3, lease <- x4, call <- x5, temp <- x6, parts <- x7, lock <- x8,
  target <- x9, published <- x10, edits <- x11

Versions == INSTANCE WorkspaceVersions WITH
  Savers <- {1,2}, Skills <- {"s1","s2"}, MaxEdits <- 1, MaxFaults <- 2, running <- x1,
  work <- x2, version <- x3, receipt <- x4, saver <- x5, target <- x6, staged <- x7,
  journal <- x8, finisher <- x9, allowed <- x10, started <- x11, used <- x12

Delivery == INSTANCE DeliverySnapshots WITH
  Files <- {"f1","f2"}, Collectors <- {1,2}, MaxWrites <- 3, MaxFaults <- 2, file <- x1,
  stamp <- x2, collector <- x3, snapshot <- x4, manifest <- x5, returned <- x6,
  upload <- x7, objects <- x8, reserved <- x9, abandoned <- x10, used <- x11

Rotation == INSTANCE AuthRotation WITH
  Nonces <- {1,2,3}, Age <- 2, MaxGen <- 3, MaxSends <- 4, MaxDraws <- 2,
  MaxFlight <- 2, now <- x1, authority <- x2, context <- x3, jar <- x4, tickets <- x5,
  requests <- x6, replies <- x7, ops <- x8, oauth <- x9, handed <- x10, drawn <- x11,
  sends <- x12

History == INSTANCE SessionHistory WITH
  PageSize <- 2, ListLimit <- 2, MaxRuns <- 3, MaxChanges <- 2,
  Ledgers <- UNION {[1 .. 3 -> A] : A \in {{"delta", "message"}, {"once", "delta"}, {"legacy", "exec"}, {"old", "progress"}, {"delta", "hidden"}}},
  Added <- {"delta", "message"}, runs <- x1, session <- x2, reader <- x3, left <- x4

-----------------------------------------------------------------------------
Init ==
  /\ part \in Components
  /\ \/ part = "lifecycle" /\ Lifecycle!Init
        /\ x10 = 0 /\ x11 = 0 /\ x12 = 0
     \/ part = "sandbox" /\ Sandbox!Init
        /\ x9 = 0 /\ x10 = 0 /\ x11 = 0 /\ x12 = 0
     \/ part = "inputs" /\ Inputs!Init /\ x11 = 0 /\ x12 = 0
     \/ part = "recovery" /\ Recovery!Init
     \/ part = "objects" /\ Objects!Init /\ x11 = 0 /\ x12 = 0
     \/ part = "auth" /\ Auth!Init
        /\ x7 = 0 /\ x8 = 0 /\ x9 = 0 /\ x10 = 0 /\ x11 = 0 /\ x12 = 0
     \/ part = "browser" /\ Browser!Init
        /\ x8 = 0 /\ x9 = 0 /\ x10 = 0 /\ x11 = 0 /\ x12 = 0
     \/ part = "chat" /\ Chat!Init
     \/ part = "control" /\ Control!Init
        /\ x10 = 0 /\ x11 = 0 /\ x12 = 0
     \/ part = "epochs" /\ Epochs!Init
        /\ x8 = 0 /\ x9 = 0 /\ x10 = 0 /\ x11 = 0 /\ x12 = 0
     \/ part = "index" /\ Index!Init
        /\ x11 = 0 /\ x12 = 0
     \/ part = "profiles" /\ Profiles!Init
        /\ x11 = 0 /\ x12 = 0
     \/ part = "containers" /\ Docker!Init
        /\ x12 = 0
     \/ part = "resubmitted" /\ DockerAgain!Init
        /\ x12 = 0
     \/ part = "opensandbox" /\ Open!Init
        /\ x9 = 0 /\ x10 = 0 /\ x11 = 0 /\ x12 = 0
     \/ part = "executor" /\ Executor!Init
     \/ part = "deploy" /\ Deploy!Init
        /\ x12 = 0
     \/ part = "schema" /\ Schema!Init
        /\ x8 = 0 /\ x9 = 0 /\ x10 = 0 /\ x11 = 0 /\ x12 = 0
     \/ part = "images" /\ Images!Init
        /\ x5 = 0 /\ x6 = 0 /\ x7 = 0 /\ x8 = 0 /\ x9 = 0 /\ x10 = 0 /\ x11 = 0 /\ x12 = 0
     \/ part = "tools" /\ Tools!Init
        /\ x12 = 0
     \/ part = "answer" /\ Answer!Init
        /\ x9 = 0 /\ x10 = 0 /\ x11 = 0 /\ x12 = 0
     \/ part = "turn" /\ Turn!Init
     \/ part = "skills" /\ Releases!Init
        /\ x9 = 0 /\ x10 = 0 /\ x11 = 0 /\ x12 = 0
     \/ part = "skillset" /\ SkillSet!Init
        /\ x12 = 0
     \/ part = "models" /\ Policy!Init
        /\ x12 = 0
     \/ part = "proxy" /\ Proxy!Init
     \/ part = "files" /\ Uploads!Init
     \/ part = "ledger" /\ Ledger!Init
     \/ part = "memory" /\ Memory!Init
        /\ x12 = 0
     \/ part = "context" /\ Context!Init
        /\ x8 = 0 /\ x9 = 0 /\ x10 = 0 /\ x11 = 0 /\ x12 = 0
     \/ part = "transfers" /\ Transfer!Init
        /\ x12 = 0
     \/ part = "versions" /\ Versions!Init
     \/ part = "delivery" /\ Delivery!Init
        /\ x12 = 0
     \/ part = "rotation" /\ Rotation!Init
     \/ part = "history" /\ History!Init
        /\ x5 = 0 /\ x6 = 0 /\ x7 = 0 /\ x8 = 0 /\ x9 = 0 /\ x10 = 0 /\ x11 = 0 /\ x12 = 0

InLifecycle(A) == part = "lifecycle" /\ A /\ UNCHANGED <<part, x10, x11, x12>>
InSandbox(A) == part = "sandbox" /\ A /\ UNCHANGED <<part, x9, x10, x11, x12>>
InInputs(A) == part = "inputs" /\ A /\ UNCHANGED <<part, x11, x12>>
InRecovery(A) == part = "recovery" /\ A /\ UNCHANGED part
InObjects(A) == part = "objects" /\ A /\ UNCHANGED <<part, x11, x12>>
InAuth(A) == part = "auth" /\ A /\ UNCHANGED <<part, x7, x8, x9, x10, x11, x12>>
InBrowser(A) == part = "browser" /\ A /\ UNCHANGED <<part, x8, x9, x10, x11, x12>>
InChat(A) == part = "chat" /\ A /\ UNCHANGED part
InControl(A) == part = "control" /\ A /\ UNCHANGED <<part, x10, x11, x12>>
InEpochs(A) == part = "epochs" /\ A /\ UNCHANGED <<part, x8, x9, x10, x11, x12>>
InIndex(A) == part = "index" /\ A /\ UNCHANGED <<part, x11, x12>>
InProfiles(A) == part = "profiles" /\ A /\ UNCHANGED <<part, x11, x12>>
InDocker(A) == part = "containers" /\ A /\ UNCHANGED <<part, x12>>
InDockerAgain(A) == part = "resubmitted" /\ A /\ UNCHANGED <<part, x12>>
InOpen(A) == part = "opensandbox" /\ A /\ UNCHANGED <<part, x9, x10, x11, x12>>
InExecutor(A) == part = "executor" /\ A /\ UNCHANGED <<part>>
InDeploy(A) == part = "deploy" /\ A /\ UNCHANGED <<part, x12>>
InSchema(A) == part = "schema" /\ A /\ UNCHANGED <<part, x8, x9, x10, x11, x12>>
InImages(A) == part = "images" /\ A /\ UNCHANGED <<part, x5, x6, x7, x8, x9, x10, x11, x12>>
InTools(A) == part = "tools" /\ A /\ UNCHANGED <<part, x12>>
InAnswer(A) == part = "answer" /\ A /\ UNCHANGED <<part, x9, x10, x11, x12>>
InTurn(A) == part = "turn" /\ A /\ UNCHANGED <<part>>
InReleases(A) == part = "skills" /\ A /\ UNCHANGED <<part, x9, x10, x11, x12>>
InSkillSet(A) == part = "skillset" /\ A /\ UNCHANGED <<part, x12>>
InPolicy(A) == part = "models" /\ A /\ UNCHANGED <<part, x12>>
InProxy(A) == part = "proxy" /\ A /\ UNCHANGED <<part>>
InUploads(A) == part = "files" /\ A /\ UNCHANGED <<part>>
InLedger(A) == part = "ledger" /\ A /\ UNCHANGED <<part>>
InMemory(A) == part = "memory" /\ A /\ UNCHANGED <<part, x12>>
InContext(A) == part = "context" /\ A /\ UNCHANGED <<part, x8, x9, x10, x11, x12>>
InTransfer(A) == part = "transfers" /\ A /\ UNCHANGED <<part, x12>>
InVersions(A) == part = "versions" /\ A /\ UNCHANGED <<part>>
InDelivery(A) == part = "delivery" /\ A /\ UNCHANGED <<part, x12>>
InRotation(A) == part = "rotation" /\ A /\ UNCHANGED <<part>>
InHistory(A) == part = "history" /\ A /\ UNCHANGED <<part, x5, x6, x7, x8, x9, x10, x11, x12>>

Next ==
  \/ InLifecycle(Lifecycle!Next)
  \/ InSandbox(Sandbox!Next)
  \/ InInputs(Inputs!Next)
  \/ InRecovery(Recovery!Next)
  \/ InObjects(Objects!Next)
  \/ InAuth(Auth!Next)
  \/ InBrowser(Browser!Next)
  \/ InChat(Chat!Next)
  \/ InControl(Control!Next)
  \/ InEpochs(Epochs!Next)
  \/ InIndex(Index!Next)
  \/ InProfiles(Profiles!Next)
  \/ InDocker(Docker!Next)
  \/ InDockerAgain(DockerAgain!Next)
  \/ InOpen(Open!Next)
  \/ InExecutor(Executor!Next)
  \/ InDeploy(Deploy!Next)
  \/ InSchema(Schema!Next)
  \/ InImages(Images!Next)
  \/ InTools(Tools!Next)
  \/ InAnswer(Answer!Next)
  \/ InTurn(Turn!Next)
  \/ InReleases(Releases!Next)
  \/ InSkillSet(SkillSet!Next)
  \/ InPolicy(Policy!Next)
  \/ InProxy(Proxy!Next)
  \/ InUploads(Uploads!Next)
  \/ InLedger(Ledger!Next)
  \/ InMemory(Memory!Next)
  \/ InContext(Context!Next)
  \/ InTransfer(Transfer!Next)
  \/ InVersions(Versions!Next)
  \/ InDelivery(Delivery!Next)
  \/ InRotation(Rotation!Next)
  \/ InHistory(History!Next)

Spec == Init /\ [][Next]_vars

(* Maintenance loops and background workers are interchangeable. *)
Symmetry == Permutations(Reconcilers) \cup Permutations(Workers)

-----------------------------------------------------------------------------
(* The steps each module assumes weak fairness of, numbered.  Only one      *)
(* component is ever at work, so the fairness of a disjunction of steps,    *)
(* one of each component, is the fairness of every one of them.             *)
LifecycleStep(k) ==
  CASE k = 1 -> Lifecycle!Enqueue \/ Lifecycle!EnqueueLost \/ Lifecycle!EnqueueRejected
    [] k = 2 -> \E d \in 1 .. MaxDeliveries : Lifecycle!LeaseRun(d)
    [] k = 3 -> Lifecycle!ReclaimAbandoned
    [] k = 4 -> Lifecycle!ExpireLease
    [] k = 5 -> Lifecycle!FenceExpires
    [] k = 6 -> Lifecycle!ReconcilerStep(r1)
    [] k = 7 -> Lifecycle!ReconcilerStep(r2)
    [] OTHER -> k - 7 \in 1 .. MaxDeliveries /\ Lifecycle!WorkerStep(k - 7)

SandboxStep(k) ==
  CASE k = 1 -> Sandbox!OwnerStep
    [] k = 2 -> Sandbox!FinishTask
    [] k = 3 -> Sandbox!ClaimAges
    [] k = 4 -> Sandbox!StaleSweep
    [] k = 5 -> Sandbox!ExpirySweep
    [] k = 6 -> Sandbox!Advance(w1)
    [] OTHER -> FALSE

InputsStep(k) ==
  CASE k = 1 -> Inputs!StartOpen
    [] k = 2 -> Inputs!Result
    [] k = 3 -> Inputs!Answered
    [] k = 4 -> Inputs!Refused
    [] k = 5 -> Inputs!ToolCompleted \/ Inputs!ToolFailed
    [] k = 6 -> Inputs!Deadline(q1)
    [] k = 7 -> Inputs!RunEndsAfterExecutor
    [] OTHER -> FALSE

RecoveryStep(k) ==
  CASE k = 1 -> Recovery!OpenSession
    [] k = 2 -> Recovery!QueryGate(o1)
    [] k = 3 -> Recovery!Expire(o1, "src")
    [] k = 4 -> Recovery!Expire(o1, "inv")
    [] OTHER -> FALSE

ObjectsStep(k) ==
  CASE k = 1 -> Objects!FallsDue
    [] k = 2 -> Objects!DeadLetter
    [] k = 3 -> \E d \in Deleters : Objects!Claim(d)
    [] k = 4 -> Objects!Delete(d1) \/ Objects!Fail(d1)
    [] k = 5 -> Objects!Delete(d2) \/ Objects!Fail(d2)
    [] k = 6 -> Objects!Complete(d1)
    [] k = 7 -> Objects!Complete(d2)
    [] OTHER -> FALSE

BrowserStep(k) ==
  CASE k = 1 -> Browser!TabGoesOn(tab1)
    [] k = 2 -> Browser!TabGoesOn(tab2)
    [] k = 3 -> Browser!LeasePasses
    [] k = 4 -> Browser!CookieLapses
    [] k = 5 -> \E q \in x5 : Browser!LateRequest(q)
    [] OTHER -> k - 5 \in 1 .. MaxFaults + 1 /\ Browser!DayPasses(k - 5)

(* A tab is not kept from the owner lease every time the lease is free *)
Fairness ==
  /\ \A k \in 1 .. MaxFaults + 6 :
       WF_vars(\/ InInputs(InputsStep(k)) \/ InRecovery(RecoveryStep(k))
               \/ InObjects(ObjectsStep(k)) \/ InBrowser(BrowserStep(k)))
  /\ \A t \in Tabs : SF_vars(InBrowser(Browser!Acquire(t, "login")))

FairSpec == Spec /\ Fairness

(* The fairness of RunLifecycle and of SandboxLease, whose passes under a   *)
(* claim are not interrupted at one place every time                        *)
ExecutionFairness ==
  /\ \A k \in 1 .. 7 + MaxDeliveries :
       WF_vars(InLifecycle(LifecycleStep(k)) \/ InSandbox(SandboxStep(k)))
  /\ \A k \in 1 .. 6 : SF_vars(InSandbox(Sandbox!PassStep(w1, k)))

ExecutionSpec == Spec /\ ExecutionFairness

-----------------------------------------------------------------------------
(* Every component's rows, keys and processes have the shape the code reads *)
(* and writes; a stored attempt has positive ordinal and generation.        *)
TypeOK ==
  CASE part = "lifecycle" -> Lifecycle!TypeOK
    [] part = "sandbox" -> Sandbox!TypeOK
    [] part = "inputs" -> Inputs!TypeOK
    [] part = "recovery" -> Recovery!TypeOK
    [] part = "objects" -> Objects!TypeOK
    [] part = "auth" -> Auth!TypeOK
    [] part = "browser" -> Browser!TypeOK
    [] part = "chat" -> Chat!TypeOK
    [] part = "control" -> Control!TypeOK
    [] part = "epochs" -> Epochs!TypeOK
    [] part = "index" -> Index!TypeOK
    [] part = "profiles" -> Profiles!TypeOK
    [] part = "containers" -> Docker!TypeOK
    [] part = "resubmitted" -> DockerAgain!TypeOK
    [] part = "opensandbox" -> Open!TypeOK
    [] part = "executor" -> Executor!TypeOK
    [] part = "deploy" -> Deploy!TypeOK
    [] part = "schema" -> Schema!TypeOK
    [] part = "images" -> Images!TypeOK
    [] part = "tools" -> Tools!TypeOK
    [] part = "answer" -> Answer!TypeOK
    [] part = "turn" -> Turn!TypeOK
    [] part = "skills" -> Releases!TypeOK
    [] part = "skillset" -> SkillSet!TypeOK
    [] part = "models" -> Policy!TypeOK
    [] part = "proxy" -> Proxy!TypeOK
    [] part = "files" -> Uploads!TypeOK
    [] part = "ledger" -> Ledger!TypeOK
    [] part = "memory" -> Memory!TypeOK
    [] part = "context" -> Context!TypeOK
    [] part = "transfers" -> Transfer!TypeOK
    [] part = "versions" -> Versions!TypeOK
    [] part = "delivery" -> Delivery!TypeOK
    [] part = "rotation" -> Rotation!TypeOK
    [] part = "history" -> History!TypeOK

(* However often a run is redelivered, at most one delivery binds an        *)
(* attempt and executes it (WorkerDispatchBinding.bind); the run row and    *)
(* its attempt rows tell the same story, whoever settled them, and no       *)
(* success overtakes a staged outcome (complete_run).  A run pins the whole *)
(* dependency closure of its Skills, the executor accepts the catalog the   *)
(* worker authorised and stages exactly the pinned versions.  Model groups, *)
(* the catalog and the runs pinned to them stay consistent, and the picker  *)
(* shows what admission does.  Uploads stay within their owner's quota.  No *)
(* memory record that a snapshot or audit row names is purged, and the      *)
(* clean-up passes no workspace by for a whole round.  A run's snapshot     *)
(* holds every file sent with it and no older file of the conversation in   *)
(* place of a newer one.                                                    *)
RowsAgree ==
  /\ part = "lifecycle" => Lifecycle!ExecutedAtMostOnce /\ Lifecycle!RowsAgree
  /\ part = "skillset" => SkillSet!PinsAreClosed /\ SkillSet!ExecutorAccepts /\ SkillSet!StagedArePins
  /\ part = "models" => Policy!GroupsAreConsistent /\ Policy!RunsKeepTheirModel /\ Policy!PickerIsTrue
  /\ part = "files" => Uploads!QuotaHolds
  /\ part = "memory" => Memory!NothingDangles /\ Memory!ServedWithinARound
  /\ part = "context" => Context!FilesAreChosen

(* A released lease has no live container and no unreconciled receipt, and  *)
(* a finalized one belongs to a run that has ended (release_sandbox_lease); *)
(* a run succeeds only on a receipt whose workspace was collected before    *)
(* the stop and checkpointed after it (ExecutorReconciler).  The transport  *)
(* of a proxied model call is closed by whoever owns it last, and its       *)
(* generator is never closed while a reader is inside it.                   *)
ReleaseIsSafe ==
  /\ part = "sandbox" => Sandbox!ReleaseIsSafe /\ Sandbox!SuccessIsEvidenced
  /\ part = "proxy" => Proxy!TransportIsReleased

(* What users and callers are told is so.  An input is shown as applied     *)
(* only after the SDK got it, a text is handed over at most once, a sealed  *)
(* session leaves none behind, and the first committed answer answers a     *)
(* question (app/runs run inputs).  What a tab tells its user about a       *)
(* submission, and forgets the reference for, is what the ledger row and    *)
(* the run say (useAgent.ts, _recover_preledger_chat_submission).  While    *)
(* its run is not over a queued or leased message is never reported absent, *)
(* and a removal leaves no copy of it behind but one added while it ran     *)
(* (read_queue_admission, remove_queued_run, get_run_queue_position).  What *)
(* an SDK run reports of its transcript and its answer is so, and nothing   *)
(* of it still runs.  The saved answer is the text the adapter said.        *)
AnswersAreTrue ==
  /\ part = "inputs" => Inputs!ReceiptIsTrue /\ Inputs!FirstAnswerWins
  /\ part = "chat" => Chat!VerdictIsTrue
  /\ part = "index" => Index!AnswersAreTrue
  /\ part = "turn" => Turn!SettlementIsTrue /\ Turn!ResultIsLast
  /\ part = "ledger" => Ledger!AnswerIsWhatWasSaid

(* A recovered call is repeated at most once and only on the owner's answer *)
(* to that very call; outcomes are verified only by answers that state them.*)
OwnerSaidSo == part = "recovery" => Recovery!OwnerSaidSo

(* A committed artifact, file or image has its object and a deletion        *)
(* receipt is never false (object_deletion_outbox, promote).  An uploaded   *)
(* file has its object whatever clean-ups run beside it, and nothing is     *)
(* left behind.  The worker stages all files of a run's snapshot, each at a *)
(* path of its own, or none.  The receipt of a saved workspace version      *)
(* names a durable copy of what the stopped sandbox left, and the next      *)
(* attempt starts with exactly that.  A delivery snapshot handed to a       *)
(* caller holds each file asked for as it was at one moment, and stays.     *)
ObjectMatchesRow ==
  /\ part = "objects" => Objects!ObjectMatchesRow
  /\ part = "files" => Uploads!FileHasObject /\ Uploads!NothingLeftBehind
  /\ part = "context" => Context!InputsAreWhole
  /\ part = "versions" => Versions!ReceiptIsKept /\ Versions!StartsAsSaved
  /\ part = "delivery" => Delivery!SnapshotsAreWhole

(* No late login, refresh or lease release brings back a principal that was *)
(* signed out (V2_COMMIT_AUTH_OPERATION_SCRIPT); a credential the store     *)
(* would hand out was issued for the authorization facts now in force       *)
(* (V2_STORE_CREDENTIAL_SCRIPT, refresh's prediction); and a refresh        *)
(* answers success only if the credential was renewed while it ran, by      *)
(* itself or by the peer it waited for (refresh_company_session).  The      *)
(* identity a browser has confirmed is one the server established           *)
(* (confirmAndReleaseV2Owner).  Whatever cookie lost or late answers left   *)
(* in the jar, a bootstrap request for the current nonce and generation     *)
(* gets the current cookie, and an OAuth state is handed back once, to the  *)
(* identity it was issued to.                                               *)
CredentialIsCurrent ==
  /\ part = "auth" =>
       Auth!SignOutSticks /\ Auth!CredentialMatchesSubject /\ Auth!RefreshIsTruthful
  /\ part = "browser" => Browser!ConfirmedWasEstablished
  /\ part = "rotation" => Rotation!NeverLockedOut /\ Rotation!StateHandedOnce

(* However often a submission is posted, repeated and retried it has one    *)
(* run and one execution, and a row that says queued has its message in     *)
(* Redis until the run starts (claim_chat_submission,                       *)
(* read_queue_admission); and a retried or resumed run has one child at a   *)
(* time, queued once, which the page opens only when it is queued           *)
(* (_mutate_run_control_child).  A proxied model call is posted to the      *)
(* gateway at most once.                                                    *)
OneRunQueuedOnce ==
  /\ part = "chat" => Chat!OneRunQueuedOnce
  /\ part = "control" => Control!OneChildQueuedOnce
  /\ part = "proxy" => Proxy!PostedOnce

(* A run continues exactly what the SDK was told before it: its coverage    *)
(* names the earlier runs whose input was accepted, and its transcript has  *)
(* every batch acknowledged to them, once and in order                      *)
(* (read_provider_coverage, settle_provider_continuation); and no container *)
(* of an earlier run can still write (release_provider_lineage).            *)
HistoryIsExact == part = "epochs" => Epochs!HistoryIsExact /\ Epochs!WriterHasStopped

(* What has been settled stays so, whatever arrives late.  A run settles    *)
(* with its first staged outcome, and once a reconciler owns an attempt its *)
(* worker changes neither the run nor any attempt (transition_run_attempt). *)
(* No actor stops a container whose workspace is being collected or         *)
(* replaces a recorded stage, unless a claim outlived its deadline.  A      *)
(* confirmed success of a recovered operation is not taken back nor         *)
(* followed by another start (start_invocation).  A settled submission row  *)
(* is not replaced by a slower request's view (_admit_chat_submission).  A  *)
(* published transcript does not change (_locked_callback_epoch), nor does  *)
(* the result of an executor's task (supervise_task).  What a run wrote to  *)
(* its workspace is not replaced by an older copy of it                     *)
(* (migrate_workspace_storage), and a run that was active before a stack is *)
(* taken down is not cut off (_require_quiescent).  Nothing is published    *)
(* for an SDK run after its result, and what ended it first stays.  An      *)
(* archived Skill binding is not revived and a repeated promotion keeps its *)
(* predecessor.  Archived model groups and a retired provider stay so, and  *)
(* every change of a model policy moves its revision.  An upload is         *)
(* answered only with an active file and a file bound to a run stays.       *)
(* Nothing is said in a message after its completion.  A deleted memory     *)
(* record never returns, none is deleted under the snapshot including it.   *)
(* Staging leaves a file it found alone.  A restored artifact never         *)
(* replaces a file the run's tools changed.  A synced workspace version and *)
(* an output shipped with a skill are never changed.  A rotated-out browser *)
(* context is never changed again, no rotation or migration renews a        *)
(* lifetime, and a migrated context is out of reach of the version 1        *)
(* protocol.  A title the user chose is never replaced by a generated one.  *)
SettledStays ==
  [][/\ part = "lifecycle" => Lifecycle!KeepsFirstIntent /\ Lifecycle!TakenOverIsInert
     /\ part = "sandbox" => Sandbox!KeepsCollection
     /\ part = "recovery" => Recovery!KeepsCompleted
     /\ part = "chat" => Chat!SettledRowStays
     /\ part = "epochs" => Epochs!PublishedIsFrozen
     /\ part = "executor" => Executor!ResultStays
     /\ part = "deploy" => Deploy!WritesKept
     /\ part = "turn" => Turn!NothingAfterTheResult
     /\ part = "skills" => Releases!ReleaseStep
     /\ part = "models" => Policy!PolicyStep
     /\ part = "files" => Uploads!UploadStep
     /\ part = "ledger" => Ledger!LedgerStep
     /\ part = "memory" => Memory!MemoryStep
     /\ part = "context" => Context!StagingStep
     /\ part = "transfers" => Transfer!EditsStay
     /\ part = "versions" => Versions!VersionStep
     /\ part = "rotation" => Rotation!RotationStep
     /\ part = "history" => History!SessionStep]_vars

(* What is published is the content of the draft the administrator named,   *)
(* and nothing was saved in between; a retired agent has no publication;    *)
(* and a repeated create_conversation reports the revision its session is   *)
(* bound to (publish_draft, retire, create_conversation).  A tenant's       *)
(* release policy sends every user to a runnable version, and only reviewed *)
(* packages are released or pinned by a run.  An accepted edit of the model *)
(* policy was made from the policy it replaced.                             *)
PublicationIsReviewed ==
  /\ part = "profiles" => Profiles!PublicationIsReviewed
  /\ part = "skills" => Releases!TracksAreRunnable /\ Releases!ReleasedWereReviewed
  /\ part = "models" => Policy!EditsSawPolicy

(* A conversation and a run are bound to the publication in force when they *)
(* commit, and a run is dispatched only while its agent is published        *)
(* (resolve_for_admission, resolve_bound_for_worker_dispatch).  No external *)
(* write is admitted after one whose outcome is not known                   *)
(* (enforce_side_effect_tool_policy).  A run is authorised only while every *)
(* Skill it pins is distributed.  An artifact leaves the platform only for  *)
(* an attempt that may have it at that moment.                              *)
AdmittedWhileLive ==
  [][/\ part = "profiles" => Profiles!AdmittedWhileLive
     /\ part = "tools" => Tools!WritesStopAtUnknown
     /\ part = "skillset" => SkillSet!AuthorizedWhileDistributed
     /\ part = "transfers" => Transfer!HandedOver]_vars

(* An executor is removed by its own attempt's side only, and without a     *)
(* crash a live one always has somebody who will stop it (create_or_reuse   *)
(* of the Docker and of the OpenSandbox provider).  A download and its      *)
(* temporary files belong to a call that ends them.  A failed collection of *)
(* artifacts leaves no object without a clean-up row or a deletion.         *)
ContainerHasOwner ==
  /\ part = "containers" => Docker!ContainerHasOwner
  /\ part = "resubmitted" => DockerAgain!ContainerHasOwner
  /\ part = "opensandbox" => Open!SandboxHasOwner
  /\ part = "transfers" => Transfer!NothingIsLeft
  /\ part = "delivery" => Delivery!NoObjectLeft

(* The platform applies the executor's events in their order, none twice    *)
(* and none missing in between; a task is reported completed only if the    *)
(* platform has every event; and no batch is in flight when the terminal    *)
(* callback is sent (_MessageDeltaCallbackBuffer, supervise_task).  In the  *)
(* answer no private token or secret value is published, whatever pieces it *)
(* came in, each character goes to the message that sent it, and without    *)
(* failures the pieces are the projection of the whole                      *)
(* (PublicAnswerStreamGate).  The checkpoint of the text on the wire has    *)
(* one final record and claims completeness only when it is true.  The      *)
(* answer ledger holds what the executor said, in order and once.  The pages*)
(* of a conversation, read while it grows, make up its history: every row   *)
(* once and in order, and a run shown as ended is shown whole.              *)
EventsAreExact ==
  /\ part = "executor" => Executor!EventsAreExact
  /\ part = "answer" => Answer!PrivateStaysPrivate /\ Answer!RoutedToItsSource /\ Answer!AnswerIsWhole
  /\ part = "proxy" => Proxy!CheckpointIsTrue
  /\ part = "ledger" => Ledger!LedgerIsFaithful
  /\ part = "history" => History!PagesMakeTheHistory /\ History!EndMeansAll

(* A deployment goes no further than it can answer for.  The package is     *)
(* migrated in quiet, the old release never meets the new schema unless an  *)
(* earlier attempt was cut short, and a deployment reported healthy has     *)
(* every legacy workspace file (deploy.py, migrate_workspace_storage).  A   *)
(* "ready" row of the index ledger has its valid index, and apply_migrations *)
(* that returned leaves its release's readiness check holding.  An image is  *)
(* what its commit says (deploy_clean_commit).                              *)
DeploymentIsSafe ==
  /\ part = "deploy" => Deploy!MigratesInQuiet /\ Deploy!NoOldOnNew /\ Deploy!HealthyIsWhole
  /\ part = "schema" => Schema!LedgerIsTrue /\ Schema!AppliedIsCurrent
  /\ part = "images" => Images!ImagesAreTheirCommits

(* What a finished run says of its tool calls is what happened: success     *)
(* means acknowledged facts of every call, and a write that may have taken  *)
(* effect is reported (capability_completion_error,                         *)
(* mcp_execution_receipt_error).                                            *)
ToolsAreAccounted ==
  part = "tools" => Tools!SuccessIsEvidenced /\ Tools!UncertaintyIsKept

(* Without cancellation and with a maintenance loop that survives, every    *)
(* run settles, whatever crashes, exceptions, lost messages and expired     *)
(* leases its deliveries meet (reconcile_stale_runs).                       *)
RunSettles == <>(part = "lifecycle" => Lifecycle!Settled(x1))

(* Every receipt is reconciled with its run, or set aside for repair, and   *)
(* every lease is let go in the end; every run ends unless its lease was    *)
(* quarantined, whichever processes die on the way (ExecutorReconciler).    *)
LeaseAndRunEnd ==
  /\ (part = "sandbox" /\ x2.receipt # NoWorker)
       ~> (part = "sandbox" /\ (x2.recon = "finalized" \/ x2.status = "quarantined"))
  /\ (part = "sandbox" /\ x2.status = "active") ~> (part = "sandbox" /\ x2.status # "active")
  /\ <>(part = "sandbox" => Sandbox!Settled \/ x2.status = "quarantined")

(* An accepted text is applied or shown as closed and a hook waiting for an *)
(* answer is released (wait_for_answer, five-minute default).               *)
InputsSettle ==
  /\ \A t \in InputTexts :
       (part = "inputs" /\ x3[t] = "queued")
         ~> (part = "inputs" /\ Inputs!Shown(t) # "queued")
  /\ \A q \in Questions :
       (part = "inputs" /\ Inputs!Waiting(q)) ~> (part = "inputs" /\ ~Inputs!Waiting(q))

(* The opening of a recovered session and the gate of a repeated call are   *)
(* left although the owner may never answer (the question's 300 seconds).   *)
RecoveryWaitsEnd ==
  /\ (part = "recovery" /\ x7 = "opening") ~> (part = "recovery" /\ Recovery!Opened)
  /\ \A o \in Ops :
       (part = "recovery" /\ ~Recovery!GateLeft(o)) ~> (part = "recovery" /\ Recovery!GateLeft(o))

(* An object that was never promoted, and one queued for deletion, is       *)
(* deleted or becomes a dead letter (run_data_retention_maintenance).       *)
OrphanCollected ==
  /\ (part = "objects" /\ x2 = "delete_pending") ~> (part = "objects" /\ Objects!Collected)
  /\ (part = "objects" /\ Objects!Orphan) ~> (part = "objects" /\ ~Objects!Orphan)

(* A browser that keeps trying to sign in gets a cookie for the identity it *)
(* keeps and the server knows (ensureBrowserAuthContextBeforeLogin).        *)
SignInRecovers == []<>(part = "browser" => Browser!Usable)
=============================================================================
