CONSTANTS
  None = None
  Workers = {w1}
  ProbeLimit = 2
  CancelAllowed = TRUE
  PermanentErrors = FALSE
SPECIFICATION FairSpec
CHECK_DEADLOCK FALSE
PROPERTY ReceiptResolved
