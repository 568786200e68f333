SPECIFICATION Spec
CONSTANTS
  f1 = f1
  f2 = f2
  c1 = c1
  c2 = c2
  i1 = i1
  i2 = i2
  ra = ra
  rb = rb
  x1 = x1
  None = None
  Flows = {f1, f2}
  Callbacks = {c1, c2}
  Installations = {i1, i2}
  Repositories = {ra, rb}
  Runs = {x1}
  MaxChanges = 1
SYMMETRY Symmetry
INVARIANTS
  StateUsedOnce
  PublishesThroughVerified
