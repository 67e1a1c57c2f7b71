SPECIFICATION DevicesSpec
CONSTANTS
  p = p
  p_a = p_a
  p_b = p_b
  a = a
  b = b
  w = w
  r = r
  None = None
  NoRow = NoRow
  FollowedItem = {f1, f2}
  FollowedPath = {w1, w2, w3}
  FollowerKinds = {"desktop", "library"}
  PullLimit = 1
  VersionsKept = 2
  MaxVaultWrites = 5
  MaxHandlers = 1
  MaxMishaps = 1
INVARIANTS
  DevicesTypeOK SyncedIsConfirmed UnstoredIsTracked NoEditLost 
