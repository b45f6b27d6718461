SPECIFICATION Spec
CONSTANTS
  None = None
  base = base
  extra = extra
  wt = wt
  u = u
  Key = {k1, k2}
  Client = {c1, c2}
  Process = {p1, p2, p3}
  Id = {i1, i2}
  Mount = {base, extra, wt}
  Url = {u}
  Profile <- WtOnly
  Delta <- BothDeltas
  Worktree = {wt}
  MaxRestart = 1
  Ops = {"run", "update", "reload", "restart", "from-profile", "stop", "merge", "attach"}
  Faults = {"launch", "put", "stop"}
  Overlap = TRUE
  MaxReq = 2
  MaxCrash = 1
SYMMETRY SymmetryKeys
INVARIANTS IInv KeysApart HandleWatched OneInCharge
CHECK_DEADLOCK FALSE
