SPECIFICATION DoorsSpec
CONSTANTS
  a = a
  b = b
  p = p
  q = q
  x = x
  y = y
  z = z
  Item = {a, b}
  Path = {p, q}
  Payload = {x, y, z}
  None = None
  NoRow = NoRow
  HistoryLimit = 2
  Session = {}
  Client = {c1, c2}
  Requests <- MixedRequests
  MaxCalls = 4
  MaxFaults = 1
  FileItem = {g1, g2}
  g1 = g1
  g2 = g2
  FileId = {d1, d2}
  FileCaller = {k1, k2}
  NoFile = NoFile
  FileMenus <- FileOperationMenus
  GraceDays = 1
  FileHistoryKeep = 2
  MaxFileCalls = 3
  MaxFileDrops = 1
  SharedCaller = {h1, h2}
  SecretName = {n1}
  SecretPolicy = {dflt, other}
  DefaultPolicy = dflt
  NotASecret = NotASecret
  SharedMenus <- OperationMenus
  HistoryKeep = 2
  PageLimit = 1
  MaxSharedRows = 4
  MaxSharedCalls = 3
  MaxSharedFaults = 1
  Admin = {a1, a2}
  AdminUser = {u1}
  UserOf <- OneUser
  u1 = u1
  VaultSlug = {s1, s2}
  PersonalOwner = u1
  MaxVaultRows = 5
  MaxAdminCalls = 3
  MaxAdminStops = 1
  Idle = Idle
  Cli = {p1}
  Service = {v1}
  MaxServiceAccounts = 3
  MaxCommands = 3
  MaxServiceCalls = 2
  MaxKills = 1
  NoAccount = NoAccount
  Questions <- AllQuestions
  ItemPaths <- ListedPaths
  Whole = Whole
  LocalStorage = bl
  RemoteStorage = {r1, r2}
  bl = bl
  r1 = r1
  r2 = r2
  Installations <- ServersSignedIn
  ItemPath = {"p"}
  CsvRows <- Csv
  NoTitle = NoTitle
  NoCursor = NoCursor
  FirstDatabases <- Databases
  ExportPage = 1
  NameTries = 3
  MaxBackupCalls = 3
  MaxIntrusions = 1
  MaxResets = 1
INVARIANTS
  DoorsTypeOK OneWinnerPerRow 
  AnswersAreTrue
  VaultsAndGroupsHold OneLiveToken 
  BackupIsFaithful
PROPERTIES
  ReplacedPayloadKept CommandsDeliver
CHECK_DEADLOCK FALSE
