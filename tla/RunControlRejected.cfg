SPECIFICATION Spec
CONSTANTS
  MaxOps = 2
  Handlers = {h1, h2}
  MaxWithdrawn = 1
CHECK_DEADLOCK FALSE
INVARIANT RejectedHasNoChild
