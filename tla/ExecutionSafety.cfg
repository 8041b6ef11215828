SPECIFICATION Spec
CONSTANTS
  r1 = r1
  r2 = r2
  w1 = w1
  q1 = q1
  o1 = o1
  d1 = d1
  d2 = d2
  tab1 = tab1
  tab2 = tab2
  Components = {"sandbox", "inputs", "recovery", "auth", "browser", "rotation", "chat", "control", "epochs", "index", "executor", "answer", "turn", "proxy", "ledger", "history"}
  MaxDeliveries = 2
  Reconcilers = {r1, r2}
  Unfenced = Unfenced
  RecoveryFails = TRUE
  PermanentErrors = TRUE
  CancelAllowed = TRUE
  Workers = {w1, w2}
  NoWorker = NoWorker
  ProbeLimit = 2
  Questions = {q1}
  MaxTries = 2
  Ops = {o1}
  Writers = {a1, a2}
  Deleters = {d1, d2}
  MaxAttempts = 2
  Contexts = {c1}
  Users = {u1, u2}
  Handlers = {p1, p2}
  MaxEpoch = 3
  MaxRequests = 4
  MaxOps = 2
  MaxWithdrawn = 1
  MaxRuns = 3
  MaxBatches = 2
  Tabs = {tab1, tab2}
  MaxFaults = 3
  InputTexts = {t1, t2}
  OwnerTabs = {b1, b2}
CHECK_DEADLOCK FALSE
SYMMETRY Symmetry
INVARIANTS TypeOK ReleaseIsSafe  OwnerSaidSo CredentialIsCurrent OneRunQueuedOnce HistoryIsExact 
PROPERTIES SettledStays
