SPECIFICATION Spec
CONSTANTS
  Jobs = {j1}
  Runners = {r1}
  Fragile = {}
  Calls = {c1}
  Streams = {t1}
  Lines = {"event"}
  MaxLines = 2
  StderrCap = 0
  MaxStderr = 1
  Nobody = Nobody
PROPERTIES
  TerminalIsFinal
CHECK_DEADLOCK FALSE
