SPECIFICATION FairSpec
CONSTANTS
  Digests = {1}
  Writers = {w1, w2, w3}
  Pruners = {p1, p2}
  Chunks = 2
  None = None
INVARIANTS
  TypeOK
  TornHasWriter
  EndedWriteIsStored
  ReferencedBlobsStay
PROPERTIES
  TornHeals
CHECK_DEADLOCK FALSE
