SPECIFICATION FairSpec
CONSTANTS
  Jobs = {j1}
  Runners = {r1}
  Fragile = {}
  Calls = {c1}
  Streams = {t1}
  Lines = {"log", "blank"}
  MaxLines = 1
  StderrCap = 1
  MaxStderr = 2
  Nobody = Nobody
PROPERTIES
  LaunchedJobsEnd
CHECK_DEADLOCK FALSE
