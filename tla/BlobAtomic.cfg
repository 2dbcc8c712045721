SPECIFICATION Spec
CONSTANTS
  Digests = {1}
  Writers = {w1, w2}
  Pruners = {}
  Chunks = 2
  None = None
INVARIANT StoredAtomically
CHECK_DEADLOCK FALSE
