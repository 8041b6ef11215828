SPECIFICATION FairSpec
CONSTANTS
  MaxDeliveries = 1
  Reconcilers = {r1}
  Free = Free
  CancelAllowed = TRUE
  RecoveryFails = FALSE
CHECK_DEADLOCK FALSE
PROPERTIES
  IntentConverges
