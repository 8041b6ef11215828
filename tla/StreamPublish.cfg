SPECIFICATION Spec
CONSTANTS
  Handler = {h1, h2}
  Publisher = {p1, p2}
  Batches = 2
  BatchRows = 1
  MaxLen = 3
  MaxExpiries = 1
SYMMETRY RequestSymmetry
INVARIANTS TerminalIsLast PredecessorNeverPending
PROPERTY ImplementsContract
