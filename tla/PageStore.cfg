SPECIFICATION Spec
CONSTANTS
  own = own  other = other  p1 = p1  p2 = p2
  Clients = {c1, c2}
  NodeIds = {"n1", "n2"}
  Hashes = {own, other}
  Nodes <- MCNodes
  Rotations = {0, 90}
  Values = {"text", "date", "enum", None}
  Json <- MCJson
  Coded <- MCCoded
  Pages = {p1, p2}
  Orders <- MCOrders
  Menus <- MCMenus
  Interval = 2
  MaxVersion = 3
  None = None
  Absent = Absent
SYMMETRY Symmetry
INVARIANTS
  TypeOK
  SnapshotsAgree
  SavedIsReloaded
  NoGap
  PagesAreCoherent
