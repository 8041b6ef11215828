SPECIFICATION Spec
CONSTANTS
  m1 = m1 m2 = m2 r1 = r1 w1 = w1 w2 = w2 c1 = c1 p1 = p1 p2 = p2
  None = None
  Msg = {m1, m2}
  Invalid = {}
  Run = {r1}
  RunOf <- SameRun
  TenantOf <- SameTenant
  UserOf <- SameUser
  Worker = {w1, w2}
  Reclaimer = {p1}
  Reconciler = {c1}
  MaxProcessing = 0
  TenantLimit = 1
  UserLimit = 0
  MaxAttempts = 2
  Visibility = 1
  WorkerTtl = 1
  ScanLimit = 5
  MaxDeadLetters = 1
  PassBudget = 9
  MaxLeases = 3
  MaxEnqueues = 3
  MaxTime = 4
  MaxSetbacks = 1
SYMMETRY WorkerSymmetry
INVARIANTS HeldOnce FencedRunUnowned AttemptsBounded MetadataAgrees LimitsRespected
PROPERTIES TakenOnlyWhenExpired OnlyNewestLeaseSettles
