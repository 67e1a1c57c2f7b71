SPECIFICATION DesktopSpec
CONSTANTS
  p = p
  p_a = p_a
  p_b = p_b
  a = a
  b = b
  w = w
  r = r
  o1 = o1
  s1 = s1
  Item = {a}
  Path <- Paths
  Payload <- Payloads
  None = None
  NoRow = NoRow
  HistoryLimit = 5
  Device = {w}
  UserOp <- UserOps
  OpsOfW = {"put", "update", "delete", "restore", "purge", "resolve"}
  OpsOfR = {}
  UserPath = {p}
  ConflictPath <- CopyPath
  EditDuringSync = TRUE
  PageLimit = 2
  MaxEdits = 3
  MaxFaults = 1
  CrashInEdit = TRUE
  Origin = {o1, o2}
  LoginServer = {s1, s2}
  Login = {l1, l2}
  LoginMenus <- LoginMix
  MaxLogins = 3
  MaxMoves = 1
  MaxCrashes = 1
  NoOrigin = NoOrigin
  NoServer = NoServer
  Passphrase = {k1, k2}
  MaxSessionCalls = 4
  NoKey = NoKey
INVARIANTS
  DeviceLoginsKept DeviceKeysOpen
PROPERTY QueueDrains
CHECK_DEADLOCK FALSE
