SPECIFICATION FairSpec
CONSTANTS
  Looks <- ArgLooks
  Refspec <- Refspecs
  Id = {1, 2}
  Branch = {"main", "fix", "agent"}
  Req = {"r1"}
  Ask <- SomeAsks
  Mounts <- SomeMounts
  Repos <- SomeRepos
  DaemonSubs = {"commit", "push", "pull"}
  MaxWork = 2
  Client = {"c1", "c2"}
  Typed = {101}
  Faults = {"conflict", "commit", "launch"}
  Budgets <- SomeBudgets
INVARIANTS NothingLost
PROPERTIES OnlyAllowed Answered
CHECK_DEADLOCK FALSE
