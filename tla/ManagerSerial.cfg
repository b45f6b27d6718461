SPECIFICATION Spec
CONSTANTS
  None = None
  base = base
  extra = extra
  wt = wt
  u = u
  Key = {k1}
  Client = {c1}
  Process = {p1, p2, p3}
  Id = {i1, i2}
  Mount = {base, extra, wt}
  Url = {u}
  Profile <- FailOnly
  Delta <- OneDelta
  Worktree = {wt}
  MaxRestart = 1
  Ops = {"run", "restart", "from-profile", "stop", "delete", "update"}
  Faults = {"launch"}
  Overlap = FALSE
  MaxReq = 4
  MaxCrash = 1
INVARIANTS NoOrphan RecordTruthful ProxyCurrent
PROPERTIES ImplementsLife
CHECK_DEADLOCK FALSE
