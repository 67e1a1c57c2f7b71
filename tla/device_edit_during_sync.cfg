SPECIFICATION Spec
CONSTANTS
  p = p
  p_a = p_a
  p_b = p_b
  a = a
  b = b
  w = w
  r = r
  Item = {a}
  Path <- Paths
  Payload <- Payloads
  None = None
  NoRow = NoRow
  HistoryLimit = 5
  Device = {w}
  UserOp <- UserOps
  OpsOfW = {"put", "update"}
  OpsOfR = {}
  UserPath = {p}
  ConflictPath <- CopyPath
  EditDuringSync = TRUE
  PageLimit = 1
  MaxEdits = 2
  MaxFaults = 0
  CrashInEdit = FALSE
INVARIANTS SyncedIsConfirmed
