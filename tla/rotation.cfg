SPECIFICATION FairSpec
CONSTANTS
  None = None
  Operator = {o1, o2}
  Ops = {"start", "show", "abort", "commit", "edit"}
  Candidate = {c1, c2}
  Typed = {p, None}
  LockTtl = 1
  StaleRetention = 1
  MaxVersions = 3
  HistoryLimit = 3
  MaxTime = 4
  MaxEdits = 1
  MaxFaults = 1
INVARIANTS TypeOK CandidateRecoverable CommitStored 
PROPERTIES AbortedNeverInstalled RotationEnds
CHECK_DEADLOCK FALSE
