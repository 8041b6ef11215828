SPECIFICATION Spec
CONSTANTS
  Handler = {h1}
  Publisher = {p1}
  Batches = 1
  BatchRows = 1
  MaxLen = 3
  MaxExpiries = 1
PROPERTY NoReconstruction
