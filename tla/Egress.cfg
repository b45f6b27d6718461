SPECIFICATION FairSpec
CONSTANTS
  Proc = {1, 2}
  LastAddr = 3
  NetFaults <- FirstFails
  Id = {"i1", "i2"}
  Conn = {c1}
  Request <- SomeRequests
  Hello <- SomeHellos
  MaxPeek = 2
  Lower <- LowerCase
  AllowURLs <- SomeURLs
  FirstURLs <- EachURLs
  ReqCap = 3
  Sandbox <- TwoSandboxes
  Zero = Zero
  Faults = {"put"}
  Budgets <- SomeBudgets
INVARIANTS EgressTypeOK NoOpenRoute NoStraySlirp LastAgrees
PROPERTIES OwnRules NotRefused Decides KeepsNewest
CHECK_DEADLOCK FALSE
