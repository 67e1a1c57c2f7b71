SPECIFICATION AccountRunSpec
CONSTANTS
  Email = {e1}
  Subject = {s1}
  Caller = {c1, c2}
  AccountMenus <- Menus
  KdfPermits = 3
  MaxAccountCalls = 3
  MaxSessions = 4
  VaultIsolation = "read_committed"
  MaxAccountFaults = 1
  NoUser = NoUser
  NoSession = NoSession
  Nobody = Nobody
  Desk = {d1, d2}
  MaxSyncs = 2
  MaxEdits = 1
  MaxTroubles = 1
INVARIANTS
  FirstLoginsAgree PushedIsReadable
PROPERTIES
  NoStaleSuccess   VaultBecomesUsable
CHECK_DEADLOCK FALSE
