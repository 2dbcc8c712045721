SPECIFICATION FairSpec
CONSTANTS
  Calls = {c1, c2}
  Names = {Common, n1}
  Common = Common
  Default = Default
  Odd = Odd
  Values = {v1}
  None = None
  Torn = Torn
INVARIANTS
  TypeOK
  BaseIsCurrent
  TornHasCause
PROPERTIES
  SectionsAreKept
  PutKeepsTheRest
  CallsEnd
CHECK_DEADLOCK FALSE
