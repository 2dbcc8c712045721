SPECIFICATION FairSpec
CONSTANTS
  Batches = {b1}
  Pages = {p1}
  Widths = {0, 2, 3}
  FreeLevels = {None, 0, 2, 9}
  None = None
INVARIANTS
  TypeOK
  BackoffBounded
  OnePagePerImage
  NoRebuild
  OnlyPagesMisfile
PROPERTIES
  CallsEnd
CHECK_DEADLOCK FALSE
