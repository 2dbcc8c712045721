SPECIFICATION FairSpec
CONSTANTS
  Jobs = {j1}
  Runners = {r1, r2}
  Fragile = {}
  Calls = {c1}
  Streams = {t1}
  Lines = {"log", "blank"}
  MaxLines = 2
  StderrCap = 1
  MaxStderr = 1
  Nobody = Nobody
PROPERTIES
  LaunchedJobsEnd
  StreamsEnd
  CancelReturns
CHECK_DEADLOCK FALSE
