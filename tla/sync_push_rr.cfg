SPECIFICATION Spec
CONSTANTS
  a = a
  b = b
  p = p
  q = q
  x = x
  y = y
  Item = {a, b}
  Path = {p}
  Payload = {x, y}
  Session = {s1, s2}
  None = None
  NoRow = NoRow
  HistoryLimit = 1
  Isolation = "repeatable_read"
  Batches <- RacingBatches
  BaseSeqs = {0, 1, 2}
  MaxPushes = 3
  Reader = {}
  PageLimit = 1
INVARIANTS
  TypeOK SameBaseSingleWinner VersionsUnique
PROPERTIES
  PushesAreSerial
SYMMETRY SessionSymmetry
CHECK_DEADLOCK FALSE
