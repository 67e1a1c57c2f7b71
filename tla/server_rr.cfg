SPECIFICATION ServerSpec
CONSTANTS
  a = a
  p = p
  x = x
  y = y
  z = z
  Item = {a}
  Path = {p}
  Payload = {x, y, z}
  None = None
  NoRow = NoRow
  HistoryLimit = 2
  Session = {s1}
  Isolation = "repeatable_read"
  Batches <- ItemBatches
  BaseSeqs = {0, 1}
  MaxPushes = 3
  Reader = {}
  PageLimit = 1
  Client = {c1}
  Requests <- ItemRequests
  MaxCalls = 2
  MaxFaults = 0
INVARIANTS
  AcknowledgedKept
PROPERTIES
  RowsReplacedKept
CHECK_DEADLOCK FALSE
