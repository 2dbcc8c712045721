SPECIFICATION Spec
CONSTANTS
  a = a  b = b  p1 = p1  p2 = p2  l1 = l1  l2 = l2  l3 = l3  u1 = u1  u2 = u2
  Procs = {p1, p2}
  AppIds = {a, b}
  LastPort = 1
  Foreign = {}
  MaxLives = 2
  None = None
  Disabled = Disabled
  Torn = Torn
  Posts = {u1, u2}
  MaxRelease = 3
  Unset = Unset
  Empty = Empty
  Cut = Cut
  Unknown = Unknown
  Launches = {l1, l2, l3}
  Windowed = {l1}
  Sibling = a
  Scenes <- MCScenes
INVARIANTS
  TypeOK
  OneInstance
  AnswersAreOwn
  TeardownStops
  UpgradeCanBeUndone
PROPERTIES
  GivesWayToShell
  EverythingSettles
CHECK_DEADLOCK FALSE
