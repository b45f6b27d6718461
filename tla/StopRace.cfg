SPECIFICATION Spec
CONSTANTS
  None = None
  base = base
  extra = extra
  wt = wt
  u = u
  Key = {k1}
  Client = {c1, c2}
  Process = {p1, p2, p3}
  Id = {i1, i2}
  Mount = {base, extra, wt}
  Url = {u}
  Profile <- FailOnly
  Delta <- OneDelta
  Worktree = {wt}
  MaxRestart = 1
  Ops = {"run", "stop"}
  Faults = {}
  Overlap = TRUE
  MaxReq = 2
  MaxCrash = 0
PROPERTIES StopSticks
CHECK_DEADLOCK FALSE
