SPECIFICATION FairSpec
CONSTANTS
  None = None
  base = base
  extra = extra
  wt = wt
  u = u
  Key = {k1}
  Client = {c1}
  Process = {p1, p2}
  Id = {i1}
  Mount = {base, extra, wt}
  Url = {u}
  Profile <- FailOnly
  Delta <- OneDelta
  Worktree = {wt}
  MaxRestart = 1
  Ops = {"run", "restart", "stop", "attach"}
  Faults = {"launch"}
  Overlap = TRUE
  MaxReq = 3
  MaxCrash = 0
PROPERTIES ExitNoticed BackoffEnds SlotFreed
CHECK_DEADLOCK FALSE
