SPECIFICATION Spec
CONSTANTS
  None = None
  base = base
  extra = extra
  wt = wt
  u = u
  Key = {k1}
  Client = {c1}
  Process = {p1, p2, p3, p4}
  Id = {i1, i2}
  Mount = {base, extra, wt}
  Url = {u}
  Profile <- WtOnly
  Delta <- MountDelta
  Worktree = {wt}
  MaxRestart = 1
  Ops = {"run", "update", "reload", "merge", "stop", "delete"}
  Faults = {"launch", "stop"}
  Overlap = FALSE
  MaxReq = 6
  MaxCrash = 2
SYMMETRY Symmetry
INVARIANTS MountsShown RestartBudget BridgesUp
CHECK_DEADLOCK FALSE
