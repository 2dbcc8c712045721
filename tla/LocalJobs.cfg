SPECIFICATION Spec
CONSTANTS
  Jobs = {j1}
  Runners = {r1, r2}
  Fragile = {r1}
  Calls = {c1, c2}
  Streams = {t1}
  Lines = {"event", "malformed", "choking"}
  MaxLines = 2
  StderrCap = 0
  MaxStderr = 1
  Nobody = Nobody
SYMMETRY Symmetry
INVARIANTS
  TypeOK
  SucceededIsComplete
  EndedStreamIsComplete
  CancelStopsWorker
  ProcessMapExact
  RowCoherent
PROPERTIES
  NeverRevived
  ImplementsFeed
CHECK_DEADLOCK FALSE
