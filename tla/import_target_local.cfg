SPECIFICATION BackupSpec
CONSTANTS
  LocalStorage = bl
  RemoteStorage = {r1, r2}
  bl = bl
  r1 = r1
  r2 = r2
  Installations <- ServersSignedIn
  ItemPath = {"p"}
  CsvRows <- Csv
  NoTitle = NoTitle
  NoCursor = NoCursor
  FirstDatabases <- Databases
  ExportPage = 1
  NameTries = 3
  MaxBackupCalls = 2
  MaxIntrusions = 0
  MaxResets = 0
INVARIANT LocalTargetStaysLocal
CHECK_DEADLOCK FALSE
