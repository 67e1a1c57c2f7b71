SPECIFICATION FairSpec
CONSTANTS
  a = a
  b = b
  p = p
  q = q
  x = x
  y = y
  Item = {a, b}
  Path = {p, q}
  Payload = {x, y}
  Session = {s1, s2}
  None = None
  NoRow = NoRow
  HistoryLimit = 2
  Isolation = "read_committed"
  Batches <- TwoItemBatches
  BaseSeqs = {0}
  MaxPushes = 3
  Reader = {r1}
  PageLimit = 1
INVARIANTS
  FeedAnnouncesRows
PROPERTIES
  PushIsAtomic PageHasNoGap PushEnds
CHECK_DEADLOCK FALSE
